---------------------------- MODULE DeusExProofs ----------------------------
(***************************************************************************)
(* Proofs about DeusEx, for every set of scripts, every archive and every  *)
(* fetch, however often scripts are ended, exchanged and held.             *)
(*                                                                         *)
(* That the timer, its expiry and the progress in the statics are the      *)
(* running action's own is not inductive: whether an action may leave      *)
(* something behind depends on which function runs it, and when that       *)
(* function says that it is done everything it kept must be given back     *)
(* first.  The inductive invariant Good ties each static to the            *)
(* directives that use it and to the action that is run.  There is a lemma *)
(* for each function in dxtab[]: what it leaves Good, and when it is done  *)
(* that nothing is kept any more (Idle).                                   *)
(*                                                                         *)
(* That an adjustment, a cycle and a reel come to what they were begun for *)
(* needs a second invariant, Sound: how far they have come, which is where *)
(* they are in what they have left to do.  The lemmas about dxtab[] are    *)
(* repeated for it (Outcome): an action that counts moves on by one or is  *)
(* at its end, and all others leave alone what it counts with (Steady).    *)
(***************************************************************************)
EXTENDS DeusEx, WellFoundedInduction, TLAPS

-----------------------------------------------------------------------------
(* The strengthening.  What the three invariants say of the running action *)
(* depends on which action that is: doing(u) is its directive, and is      *)
(* empty while no action has begun.                                        *)

Fields ==
    {"fn", "built", "parsed", "gen", "active", "cur", "de", "freed", "set", "done", "timers",
     "nc", "cap", "caption", "oldcap", "reel", "orbit", "screw", "move", "winsp", "wioff", "st",
     "saved", "rf", "away", "held", "far", "sel", "sub", "hid", "panels", "stick", "data",
     "run", "by", "ncby", "capby", "torn", "kept", "base", "seen", "fetched", "dead", "spin"}

Callback == {"dxpcb_stall", "dxpcb_playreel", "dxpcb_cyclenc"}

doing(u) == IF u.active /\ u.cur # 0 THEN action(u).do ELSE ""

(* The script, and where it is.                                            *)
RunOk(u) ==
    /\ DOMAIN u = Fields
    /\ {u.active, u.freed, u.built, u.torn} \subseteq BOOLEAN
    /\ u.fn \in DOMAIN Scripts /\ u.parsed \in {0} \cup DOMAIN Scripts
    /\ u.gen \in Nat /\ u.run \in Nat /\ u.cur \in Nat
    /\ u.built => u.parsed = u.fn
    /\ u.active => /\ ~u.freed /\ u.parsed # 0 /\ u.cur <= Len(dxlist(u))
                   /\ u.cur # 0 /\ u.de # "" => u.de = action(u).do

(* The timer: one is armed if and only if it was asked for and is not out. *)
TimerOk(u) ==
    /\ u.set \in BOOLEAN /\ u.done \in BOOLEAN
    /\ u.done => u.set
    /\ IF u.set /\ ~u.done
       THEN u.timers = <<u.timers[1]>> /\ u.timers[1].cb \in Callback
       ELSE u.timers = <<>>

(* Who armed it.                                                           *)
TimerOwn(u) ==
    ~u.torn => /\ u.set => /\ doing(u) \in {"stall", "playreel", "cyclenc"}
                           /\ IF u.done THEN u.by = me(u) ELSE u.timers[1].by = me(u)
                           /\ doing(u) = "playreel" => u.reel.loaded

(* The captions.  Before and between scripts there is none, but for those  *)
(* that were kept when a script was ended.                                 *)
TextOk(u) ==
    /\ \A c \in {u.caption, u.cap} : c = None \/ c[1] = u.gen \/ c \in u.kept
    /\ u.oldcap \in {None} \cup u.kept
    /\ u.active \/ {u.caption, u.cap} \subseteq {None} \cup u.kept
    /\ ~u.torn => /\ u.cap # None => doing(u) = "refresh"
                  /\ u.capby = IF u.cap = None THEN None ELSE me(u)

(* A movement or an adjustment s that a directive of D has begun.          *)
Progress(u, s, D) ==
    IF s.t = 0 THEN s.by = None ELSE s.by = me(u) /\ doing(u) \in D

MoveOk(u) ==
    /\ {u.orbit.t, u.screw.t, u.move.t, u.winsp.t, u.wioff.t} \subseteq Nat
    /\ DOMAIN u.orbit = {"t", "sample", "by"}
    /\ DOMAIN u.screw = {"t", "by"} /\ DOMAIN u.move = {"t", "by"}
    /\ DOMAIN u.winsp = {"t", "iv", "by"} /\ DOMAIN u.wioff = {"t", "iv", "by"}
    /\ ~u.torn => /\ Progress(u, u.orbit, {"orbit", "curlyq"})
                  /\ Progress(u, u.screw, {"corkscrew"})
                  /\ Progress(u, u.move, {"move"})
                  /\ Progress(u, u.winsp, {"winsp"})
                  /\ Progress(u, u.wioff, {"wioff"})

frames(dir) == IF dir = "" THEN 0 ELSE Reel[dir]

(* The archive that is played has frames.                                  *)
ReelOk(u) ==
    /\ DOMAIN u.reel = {"loaded", "save", "pos", "len", "dir", "by"}
    /\ u.reel.loaded \in BOOLEAN
    /\ ~u.torn => IF u.reel.loaded
                  THEN /\ u.reel.by = me(u) /\ doing(u) = "playreel"
                       /\ u.reel.len = frames(u.reel.dir) /\ u.reel.len # 0
                  ELSE u.reel.by = None

CycleOk(u) ==
    ~u.torn => u.ncby = None \/ (u.ncby = me(u) /\ u.set /\ doing(u) = "cyclenc")

Good(u) ==
    RunOk(u) /\ TimerOk(u) /\ TimerOwn(u) /\ TextOk(u) /\ MoveOk(u) /\ ReelOk(u) /\ CycleOk(u)
-----------------------------------------------------------------------------
(* The lists that scripts are parsed into.                                 *)

Action ==
    {a \in [do : Directives, mode : {"set", "on", "off"}, who : STRING \cup {""},
            set : SUBSET (STRING \cup Node), n : Nat] : a.do = "dmode" => a.who \in Modes}

(* dx_parse() has been called for a line of a file after the other: what   *)
(* holds of the list after each line is shown by the least line for which  *)
(* it would not.                                                           *)
LEMMA LeastNat == ASSUME NEW T, T \subseteq Nat, T # {} PROVE \E m \in T : \A n \in T : m <= n
<1> DEFINE R == {ss \in Nat \X Nat : ss[1] < ss[2]}
<1>0. R = OpToRel(<, Nat)  BY Zenon DEF OpToRel
<1>a. IsWellFoundedOn(R, Nat)  BY ONLY NatLessThanWellFounded, <1>0, Zenon
<1> HIDE DEF R
<1>1. PICK m \in T : \A y \in T : ~(<<y, m>> \in R)  BY <1>a, WFMin
<1>2. \A y \in T : ~(y < m)  BY <1>1 DEF R
<1> QED BY <1>2

LEMMA ConfType ==
    ASSUME NEW c \in Command, NEW l \in Seq(Action)
    PROVE  conf(l, c) \in Seq(Action)
<1>1. ASSUME NEW d \in Directives, d # "dmode" PROVE Cmd(d) \in Action
  <2>1. {} \in SUBSET (STRING \cup Node) /\ 1 \in Nat /\ "set" \in {"set", "on", "off"}
    OBVIOUS
  <2> QED BY <1>1, <2>1 DEF Cmd, Action
<1>2. Cmd("stall") \in Action /\ Cmd("camsync") \in Action /\ Cmd("nodesync") \in Action
  <2>1. {"stall", "camsync", "nodesync"} \subseteq Directives \ {"dmode"}  BY DEF Directives
  <2> QED BY <1>1, <2>1
<1>a. ASSUME NEW m \in Seq(Action), NEW a \in Action PROVE dxa_add(m, a) \in Seq(Action)
  BY <1>2 DEF dxa_add
<1>3. c.do # "unrecognized" => c \in Action  BY DEF Command, Action
<1>4. CASE c.do = "unrecognized"
  <2>1. conf(l, c) = l  BY <1>4, Zenon DEF conf, AwaitCamera, AwaitNodes
  <2> QED BY <2>1
<1>5. CASE c.do # "unrecognized"
  <2>1. dxa_add(l, c) \in Seq(Action)  BY <1>5, <1>3, <1>a
  <2>2. conf(l, c) \in {dxa_add(l, c), dxa_add(dxa_add(l, c), Cmd("camsync")),
                        dxa_add(dxa_add(l, c), Cmd("nodesync"))}
    BY <1>5, Zenon DEF conf
  <2> QED BY <2>1, <2>2, <1>a, <1>2
<1> QED BY <1>4, <1>5

LEMMA ParseType == ASSUME NEW s \in Seq(Command) PROVE dx_parse(s) \in Seq(Action)
<1> DEFINE T == Seq(Action)
           L == Len(s)
           G(g, k) == /\ g \in [0 .. k -> T]
                      /\ g[0] = <<>>
                      /\ \A i \in 1 .. k : g[i] = conf(g[i - 1], s[i])
           grammar == CHOOSE g : g = [i \in 0 .. L |-> IF i = 0 THEN <<>> ELSE conf(g[i - 1], s[i])]
<1>0. L \in Nat /\ <<>> \in T  OBVIOUS
<1>t. ASSUME NEW l \in T, NEW i \in 1 .. L PROVE conf(l, s[i]) \in T  BY ConfType
<1> HIDE DEF T, L
<1>1. \A k \in 0 .. L : \E g : G(g, k)
  <2> DEFINE B == {k \in 0 .. L : ~ \E g : G(g, k)}
  <2>1. SUFFICES ASSUME B # {} PROVE FALSE  OBVIOUS
  <2>0. B \subseteq Nat  BY <1>0
  <2> HIDE DEF B
  <2>2. PICK k \in B : \A n \in B : k <= n  BY <2>0, <2>1, LeastNat
  <2> USE DEF B
  <2>3. k # 0
    <3>1. G([i \in 0 .. 0 |-> <<>>], 0)  BY <1>0
    <3> QED BY <3>1
  <2>4. k - 1 \in 0 .. L /\ k \in 1 .. L /\ k \in Nat BY <2>2, <2>3, <1>0
  <2>5. k - 1 \notin B  BY <2>2, <2>4
  <2>6. PICK g : G(g, k - 1)  BY <2>4, <2>5
  <2> DEFINE h == [i \in 0 .. k |-> IF i = k THEN conf(g[k - 1], s[k]) ELSE g[i]]
  <2>7. g[k - 1] \in T  BY <2>6, <2>4
  <2>8. conf(g[k - 1], s[k]) \in T  BY <2>7, <2>4, <1>t
  <2>9. h \in [0 .. k -> T]  BY <2>6, <2>8, <2>4
  <2>10. h[0] = <<>>  BY <2>6, <2>4
  <2>11. ASSUME NEW i \in 1 .. k PROVE h[i] = conf(h[i - 1], s[i])
    <3>1. CASE i = k  BY <3>1, <2>4, <2>11
    <3>2. CASE i # k
      <4>1. i \in 1 .. k - 1 /\ i - 1 \in 0 .. k /\ i - 1 # k /\ i \in 0 .. k  BY <3>2, <2>4
      <4>2. h[i] = g[i] /\ h[i - 1] = g[i - 1]  BY <4>1, <3>2
      <4> QED BY <4>1, <4>2, <2>6
    <3> QED BY <3>1, <3>2
  <2>12. G(h, k)  BY <2>9, <2>10, <2>11
  <2> QED BY <2>12, <2>2
<1>2. PICK g : G(g, L)  BY <1>1, <1>0
<1>3. g = [i \in 0 .. L |-> IF i = 0 THEN <<>> ELSE conf(g[i - 1], s[i])]
  <2>1. ASSUME NEW i \in 0 .. L PROVE g[i] = IF i = 0 THEN <<>> ELSE conf(g[i - 1], s[i])
    BY <1>2, <1>0
  <2> QED BY <2>1, <1>2
<1>4. grammar = [i \in 0 .. L |-> IF i = 0 THEN <<>> ELSE conf(grammar[i - 1], s[i])]
  BY ONLY <1>3
<1>5. dx_parse(s) = grammar[L]  BY DEF dx_parse, L
<1> HIDE DEF grammar, G
<1>6. \A k \in 0 .. L : grammar[k] \in T
  <2> DEFINE B == {k \in 0 .. L : grammar[k] \notin T}
  <2>1. SUFFICES ASSUME B # {} PROVE FALSE  OBVIOUS
  <2>0. B \subseteq Nat  BY <1>0
  <2> HIDE DEF B
  <2>2. PICK k \in B : \A n \in B : k <= n  BY <2>0, <2>1, LeastNat
  <2> USE DEF B
  <2>3. k # 0  BY <1>0, <1>4
  <2>4. k - 1 \in 0 .. L /\ k \in 1 .. L /\ k \in Nat BY <2>2, <2>3, <1>0
  <2>5. grammar[k - 1] \in T  BY <2>2, <2>4
  <2>6. grammar[k] = conf(grammar[k - 1], s[k])  BY <1>4, <2>4, <2>3
  <2> QED BY <2>2, <2>4, <2>5, <2>6, <1>t
<1> QED BY <1>5, <1>6, <1>0 DEF T

LEMMA ListType ==
    ASSUME NEW u, u.parsed \in {0} \cup DOMAIN Scripts
    PROVE  dxlist(u) \in Seq(Action)
<1>1. CASE u.parsed = 0  BY <1>1 DEF dxlist
<1>2. CASE u.parsed # 0
  <2>1. Scripts[u.parsed] \in Seq(Command) /\ u.parsed \in DOMAIN Scripts
    BY <1>2, DeusExAssumption
  <2>2. dx_parse(Scripts[u.parsed]) \in Seq(Action)  BY <2>1, ParseType
  <2>3. dxlist(u) = dx_parse(Scripts[u.parsed])  BY <1>2, <2>1 DEF dxlist, Lists
  <2> QED BY <2>2, <2>3
<1> QED BY <1>1, <1>2

(* The running action is one that dxtab[] has a function for.              *)
LEMMA ActionType ==
    ASSUME NEW u, RunOk(u), u.active, u.cur # 0
    PROVE  action(u) \in Action /\ action(u).do \in Directives
<1>1. dxlist(u) \in Seq(Action)  BY ListType DEF RunOk
<1>a. u.cur \in Nat \ {0} /\ u.cur <= Len(dxlist(u))  BY DEF RunOk
<1>2. dxlist(u)[u.cur] \in Action  BY <1>1, <1>a
<1> QED BY <1>2 DEF action, Action

-----------------------------------------------------------------------------
(* Most of what a frame does leaves all of this alone.                     *)

Shape(u) == /\ DOMAIN u = Fields
            /\ DOMAIN u.reel = {"loaded", "save", "pos", "len", "dir", "by"}

SameRun(u, v) ==
    /\ DOMAIN v = DOMAIN u
    /\ v.fn = u.fn /\ v.built = u.built /\ v.parsed = u.parsed /\ v.gen = u.gen
    /\ v.active = u.active /\ v.cur = u.cur /\ v.de = u.de /\ v.freed = u.freed
    /\ v.run = u.run /\ v.torn = u.torn

SameTimer(u, v) == v.set = u.set /\ v.done = u.done /\ v.timers = u.timers /\ v.by = u.by

SameText(u, v) ==
    /\ v.cap = u.cap /\ v.capby = u.capby /\ v.caption = u.caption /\ v.oldcap = u.oldcap
    /\ v.kept = u.kept

SameMoves(u, v) ==
    /\ v.orbit = u.orbit /\ v.screw = u.screw /\ v.move = u.move
    /\ v.winsp = u.winsp /\ v.wioff = u.wioff

SameReel(u, v) ==
    /\ DOMAIN v.reel = DOMAIN u.reel
    /\ v.reel.loaded = u.reel.loaded /\ v.reel.dir = u.reel.dir /\ v.reel.by = u.reel.by
    /\ v.reel.len \in {u.reel.len, frames(u.reel.dir)}

Keeps(u, v) ==
    /\ SameRun(u, v) /\ SameTimer(u, v) /\ SameText(u, v) /\ SameMoves(u, v)
    /\ SameReel(u, v) /\ v.ncby = u.ncby

LEMMA SameDoing ==
    ASSUME NEW u, NEW v, SameRun(u, v)
    PROVE  /\ doing(v) = doing(u) /\ me(v) = me(u)
           /\ dxlist(v) = dxlist(u) /\ action(v) = action(u)
BY DEF SameRun, doing, me, action, dxlist

LEMMA KeepsRun == ASSUME NEW u, NEW v, SameRun(u, v), RunOk(u) PROVE RunOk(v)
BY SameDoing DEF SameRun, RunOk

LEMMA KeepsTimer ==
    ASSUME NEW u, NEW v, SameTimer(u, v), TimerOk(u) PROVE TimerOk(v)
BY DEF SameTimer, TimerOk

LEMMA KeepsTimerOwn ==
    ASSUME NEW u, NEW v, SameRun(u, v), SameTimer(u, v), v.reel.loaded = u.reel.loaded,
           TimerOwn(u)
    PROVE  TimerOwn(v)
<1> USE SameDoing
<1> QED BY DEF SameRun, SameTimer, TimerOwn

LEMMA KeepsText ==
    ASSUME NEW u, NEW v, SameRun(u, v), SameText(u, v), TextOk(u) PROVE TextOk(v)
<1>1. doing(v) = doing(u) /\ me(v) = me(u)  BY SameDoing
<1> QED BY <1>1 DEF SameRun, SameText, TextOk

LEMMA KeepsMoves ==
    ASSUME NEW u, NEW v, SameRun(u, v), SameMoves(u, v), MoveOk(u) PROVE MoveOk(v)
<1>1. doing(v) = doing(u) /\ me(v) = me(u)  BY SameDoing
<1> QED BY <1>1 DEF SameRun, SameMoves, MoveOk, Progress

LEMMA KeepsReel ==
    ASSUME NEW u, NEW v, SameRun(u, v), SameReel(u, v), ReelOk(u) PROVE ReelOk(v)
<1>1. doing(v) = doing(u) /\ me(v) = me(u)  BY SameDoing
<1> QED BY <1>1 DEF SameRun, SameReel, ReelOk

LEMMA KeepsCycle ==
    ASSUME NEW u, NEW v, SameRun(u, v), v.set = u.set, v.ncby = u.ncby, CycleOk(u)
    PROVE  CycleOk(v)
<1>1. doing(v) = doing(u) /\ me(v) = me(u)  BY SameDoing
<1> QED BY <1>1 DEF SameRun, CycleOk

LEMMA KeepsGood == ASSUME NEW u, NEW v, Keeps(u, v), Good(u) PROVE Good(v)
<1>1. SameRun(u, v) /\ SameTimer(u, v) /\ SameText(u, v) /\ SameMoves(u, v) /\ SameReel(u, v)
      /\ v.ncby = u.ncby
  BY DEF Keeps
<1>2. RunOk(v)     BY <1>1, KeepsRun DEF Good
<1>3. TimerOk(v)   BY <1>1, KeepsTimer DEF Good
<1>4. TimerOwn(v)  BY <1>1, KeepsTimerOwn DEF Good, SameReel
<1>5. TextOk(v)    BY <1>1, KeepsText DEF Good
<1>6. MoveOk(v)    BY <1>1, KeepsMoves DEF Good
<1>7. ReelOk(v)    BY <1>1, KeepsReel DEF Good
<1>8. CycleOk(v)   BY <1>1, KeepsCycle DEF Good, SameTimer
<1> QED BY <1>2, <1>3, <1>4, <1>5, <1>6, <1>7, <1>8 DEF Good

LEMMA KeepsChain ==
    ASSUME NEW u, NEW v, NEW x, Keeps(u, v), Keeps(v, x)
    PROVE  Keeps(u, x)
BY DEF Keeps, SameRun, SameTimer, SameText, SameMoves, SameReel

LEMMA KeepsShape == ASSUME NEW u, NEW v, Keeps(u, v), Shape(u) PROVE Shape(v)
BY DEF Keeps, SameRun, SameReel, Shape

LEMMA KeepsSelf == ASSUME NEW u PROVE Keeps(u, u)
BY DEF Keeps, SameRun, SameTimer, SameText, SameMoves, SameReel

LEMMA GoodShape == ASSUME NEW u, Good(u) PROVE Shape(u)
BY DEF Good, RunOk, ReelOk, Shape

-----------------------------------------------------------------------------
(* The helpers that keep it so.                                            *)

LEMMA WantKeeps == ASSUME NEW u, Shape(u), NEW F PROVE Keeps(u, want(u, F))
BY DEF Shape, Fields, want, Keeps, SameRun, SameTimer, SameText, SameMoves, SameReel

LEMMA AimKeeps == ASSUME NEW u, Shape(u) PROVE Keeps(u, aim(u))
BY DEF Shape, Fields, aim, Keeps, SameRun, SameTimer, SameText, SameMoves, SameReel

LEMMA LoadKeeps == ASSUME NEW u, Shape(u) PROVE Keeps(u, reel_load(u))
BY ZenonT(60) DEF Shape, Fields, reel_load, frames, Keeps, SameRun, SameTimer, SameText, SameMoves, SameReel

LEMMA AdvanceKeeps == ASSUME NEW u, Shape(u) PROVE Keeps(u, reel_advance(u))
<1> DEFINE v == [u EXCEPT !.reel.pos = @ + 1]
<1>1. Keeps(u, v)
  BY DEF Shape, Fields, Keeps, SameRun, SameTimer, SameText, SameMoves, SameReel
<1>2. Keeps(u, want(v, {"RF_DATASRC"}))
  BY <1>1, KeepsShape, WantKeeps, KeepsChain
<1> QED BY <1>2, KeepsSelf DEF reel_advance

LEMMA FlipKeeps == ASSUME NEW u, Shape(u), NEW S PROVE Keeps(u, opt_flip(u, S))
<1> DEFINE O == (u.st.opts \ S) \cup (S \ u.st.opts)
           on(o)  == o \in S /\ o \in O
           off(o) == o \in S /\ o \notin O
           v == [u EXCEPT !.st.opts = O,
                 !.held = IF on("STOP") THEN u.away ELSE @,
                 !.away = IF on("STOP") \/ "TWEEN" \in S THEN 0
                          ELSE IF off("STOP") THEN u.held ELSE @,
                 !.far  = IF off("NODEANIM") THEN 0 ELSE @,
                 !.rf   = @ \cup IF {"PIPES", "SUBSET"} \cap S # {} \/ off("NODEANIM") \/ off("STOP")
                                 THEN {"RF_CLUSTER"} ELSE {}]
<1>1. Keeps(u, v)
  <2> HIDE DEF O, on, off
  <2> QED BY DEF Shape, Fields, Keeps, SameRun, SameTimer, SameText, SameMoves, SameReel
<1>2. opt_flip(u, S) = IF on("REEL") THEN reel_load(v) ELSE v  BY DEF opt_flip
<1> HIDE DEF v, on
<1>3. Keeps(u, reel_load(v))  BY <1>1, KeepsShape, LoadKeeps, KeepsChain
<1> QED BY <1>1, <1>2, <1>3

LEMMA EnableKeeps == ASSUME NEW u, Shape(u), NEW S PROVE Keeps(u, opt_enable(u, S))
BY FlipKeeps DEF opt_enable

LEMMA DisableKeeps == ASSUME NEW u, Shape(u), NEW S PROVE Keeps(u, opt_disable(u, S))
BY FlipKeeps DEF opt_disable

(* Highlighting and selecting.                                             *)
LEMMA HideKeeps ==
    ASSUME NEW u, Shape(u), NEW H, NEW F PROVE Keeps(u, want([u EXCEPT !.hid = H], F))
<1>1. Keeps(u, [u EXCEPT !.hid = H])
  BY DEF Shape, Fields, Keeps, SameRun, SameTimer, SameText, SameMoves, SameReel
<1> QED BY <1>1, KeepsShape, WantKeeps, KeepsChain

LEMMA ShowKeeps ==
    ASSUME NEW u, Shape(u), NEW c
    PROVE  /\ Keeps(u, nc_runall_opaque(u)) /\ Keeps(u, nc_runall_setxparent(u))
           /\ Keeps(u, nc_apply_opaque(u, c)) /\ Keeps(u, nc_runsn_opaque(u))
<1>1. Keeps(u, nc_runall_opaque(u))  BY HideKeeps DEF nc_runall_opaque
<1>2. Keeps(u, nc_runall_setxparent(u))  BY HideKeeps DEF nc_runall_setxparent
<1>3. Keeps(u, nc_apply_opaque(u, c))  BY HideKeeps DEF nc_apply_opaque
<1>4. Keeps(u, nc_runsn_opaque(u))  BY HideKeeps DEF nc_runsn_opaque
<1> QED BY <1>1, <1>2, <1>3, <1>4

LEMMA SelectKeeps == ASSUME NEW u, Shape(u), NEW S PROVE Keeps(u, sn_change(u, S))
BY DEF sn_change, Shape, Fields, Keeps, SameRun, SameTimer, SameText, SameMoves, SameReel

-----------------------------------------------------------------------------
(* What an action has to leave behind.  Idle(u): none of the statics holds *)
(* anything of it; that is what it must see to before it says it is done.  *)

Idle(u) ==
    ~u.torn => /\ ~u.set /\ u.cap = None /\ ~u.reel.loaded /\ u.ncby = None
               /\ u.orbit.t = 0 /\ u.screw.t = 0 /\ u.move.t = 0
               /\ u.winsp.t = 0 /\ u.wioff.t = 0

Running(u) == Good(u) /\ u.active /\ u.cur # 0 /\ u.de = action(u).do

Ends(r) == Good(r.w) /\ r.w.active /\ r.w.cur # 0 /\ (r.ret => Idle(r.w))

Timed == {"stall", "playreel", "cyclenc"}
Lasting == Timed \cup {"refresh", "orbit", "curlyq", "corkscrew", "move", "winsp", "wioff"}

LEMMA Runs ==
    ASSUME NEW u, Running(u)
    PROVE  /\ doing(u) = u.de /\ action(u) \in Action /\ u.de \in Directives /\ Shape(u)
BY ActionType, GoodShape DEF Running, doing, Good

(* Nobody but the running action has left anything.                        *)
LEMMA QuietParts ==
    ASSUME NEW u, Running(u), ~u.torn
    PROVE  /\ u.de \notin Timed => ~u.set
           /\ u.de # "refresh" => u.cap = None
           /\ u.de # "playreel" => ~u.reel.loaded
           /\ u.de # "cyclenc" => u.ncby = None
           /\ u.de \notin {"orbit", "curlyq"} => u.orbit.t = 0
           /\ u.de # "corkscrew" => u.screw.t = 0
           /\ u.de # "move" => u.move.t = 0
           /\ u.de # "winsp" => u.winsp.t = 0
           /\ u.de # "wioff" => u.wioff.t = 0
<1>1. doing(u) = u.de  BY Runs
<1>2. u.de \notin Timed => ~u.set  BY <1>1 DEF Running, Good, TimerOwn, Timed
<1>3. u.de # "refresh" => u.cap = None  BY <1>1 DEF Running, Good, TextOk
<1>4. u.de # "playreel" => ~u.reel.loaded  BY <1>1 DEF Running, Good, ReelOk
<1>5. u.de # "cyclenc" => u.ncby = None  BY <1>1 DEF Running, Good, CycleOk
<1>6. /\ u.de \notin {"orbit", "curlyq"} => u.orbit.t = 0
      /\ u.de # "corkscrew" => u.screw.t = 0
      /\ u.de # "move" => u.move.t = 0
      /\ u.de # "winsp" => u.winsp.t = 0
      /\ u.de # "wioff" => u.wioff.t = 0
  BY <1>1 DEF Running, Good, MoveOk, Progress
<1> QED BY <1>2, <1>3, <1>4, <1>5, <1>6

LEMMA Quiet == ASSUME NEW u, Running(u), u.de \notin Lasting PROVE Idle(u)
BY QuietParts DEF Idle, Lasting, Timed

LEMMA KeepsIdle == ASSUME NEW u, NEW v, Keeps(u, v), Idle(u) PROVE Idle(v)
BY DEF Keeps, SameRun, SameTimer, SameText, SameMoves, SameReel, Idle

(* An action that keeps all of it, and that keeps nothing from one frame   *)
(* to the next, may be done at any time.                                   *)
LEMMA Plain ==
    ASSUME NEW u, Running(u), u.de \notin Lasting, NEW v, Keeps(u, v)
    PROVE  Ends(yes(v)) /\ Ends(no(v)) /\ \A b : Ends([w |-> v, ret |-> b])
<1>1. Good(v)  BY KeepsGood DEF Running
<1>2. v.active /\ v.cur # 0  BY DEF Running, Keeps, SameRun
<1>3. Idle(v)  BY Quiet, KeepsIdle
<1> QED BY <1>1, <1>2, <1>3 DEF Ends, yes, no

LEMMA PlainCamera ==
    ASSUME NEW u, Running(u), u.de \notin Lasting, NEW a
    PROVE  /\ \A r \in dxp_bird(u, a) : Ends(r)
           /\ \A r \in dxp_refocus(u, a) : Ends(r)
           /\ \A r \in dxp_camlook(u, a) : Ends(r)
           /\ \A r \in dxp_campos(u, a) : Ends(r)
           /\ \A r \in dxp_camuprot(u, a) : Ends(r)
           /\ \A r \in dxp_camsync(u, a) : Ends(r)
           /\ \A r \in dxp_nodesync(u, a) : Ends(r)
           /\ \A r \in dxp_focus(u, a) : Ends(r)
<1>1. Shape(u)  BY Runs
<1>2. Keeps(u, aim(u)) /\ Keeps(u, u)  BY <1>1, AimKeeps, KeepsSelf
<1>3. Ends(yes(aim(u))) /\ Ends(yes(u)) /\ \A b : Ends([w |-> u, ret |-> b])  BY <1>2, Plain
<1> QED BY <1>3 DEF dxp_bird, dxp_refocus, dxp_camlook, dxp_campos, dxp_camuprot, dxp_camsync,
                    dxp_nodesync, dxp_focus

LEMMA PlainEnd ==
    ASSUME NEW u, Running(u), u.de \notin Lasting, NEW a
    PROVE  /\ \A r \in dxp_exit(u, a) : Ends(r)
           /\ \A r \in dxp_cuban8(u, a) : Ends(r)
<1>1. Keeps(u, [u EXCEPT !.dead = TRUE])
  BY Runs DEF Shape, Fields, Keeps, SameRun, SameTimer, SameText, SameMoves, SameReel
<1> QED BY <1>1, Plain DEF dxp_exit, dxp_cuban8

LEMMA PlainSelect ==
    ASSUME NEW u, Running(u), u.de \notin Lasting, NEW a
    PROVE  /\ \A r \in dxp_selnode(u, a) : Ends(r)
           /\ \A r \in dxp_clrsn(u, a) : Ends(r)
           /\ \A r \in dxp_subsel(u, a) : Ends(r)
<1>1. Shape(u)  BY Runs
<1>2. \A S : Ends(yes(sn_change(u, S)))  BY <1>1, SelectKeeps, Plain
<1>3. ASSUME NEW S PROVE Ends(yes(want([u EXCEPT !.sub = S], {"RF_CLUSTER"})))
  <2>1. Keeps(u, [u EXCEPT !.sub = S])
    BY <1>1 DEF Shape, Fields, Keeps, SameRun, SameTimer, SameText, SameMoves, SameReel
  <2>2. Keeps(u, want([u EXCEPT !.sub = S], {"RF_CLUSTER"}))
    BY <1>1, <2>1, KeepsShape, WantKeeps, KeepsChain
  <2> QED BY <2>2, Plain
<1>4. \A r \in dxp_selnode(u, a) : Ends(r)  BY <1>2, Zenon DEF dxp_selnode
<1>5. \A r \in dxp_subsel(u, a) : Ends(r)  BY <1>3, Zenon DEF dxp_subsel
<1> QED BY <1>2, <1>4, <1>5 DEF dxp_clrsn

LEMMA PlainShow ==
    ASSUME NEW u, Running(u), u.de \notin Lasting, NEW a
    PROVE  /\ \A r \in dxp_hl(u, a) : Ends(r)
           /\ \A r \in dxp_selnc(u, a) : Ends(r)
<1>1. Shape(u)  BY Runs
<1> DEFINE shown(v) == nc_runsn_opaque(nc_runall_setxparent(v))
<1>2. ASSUME NEW v, Keeps(u, v) PROVE Keeps(u, shown(v))
  <2>1. Shape(v)  BY <1>1, <1>2, KeepsShape
  <2>2. Keeps(u, nc_runall_setxparent(v))  BY <1>2, <2>1, ShowKeeps, KeepsChain
  <2>3. Shape(nc_runall_setxparent(v))  BY <1>1, <2>2, KeepsShape
  <2> QED BY <2>2, <2>3, ShowKeeps, KeepsChain
<1>3. Keeps(u, u) /\ Keeps(u, shown(u)) /\ Keeps(u, nc_runall_opaque(u))
  BY <1>1, <1>2, ShowKeeps, KeepsSelf
<1>4. \A n : Keeps(u, shown(sn_change(u, u.sel \cup {n})))  BY <1>1, <1>2, SelectKeeps
<1>5. Keeps(u, [u EXCEPT !.spin = TRUE])
  BY <1>1 DEF Shape, Fields, Keeps, SameRun, SameTimer, SameText, SameMoves, SameReel
<1> HIDE DEF shown
<1>6. \A r \in dxp_hl(u, a) : Ends(r)
  <2>1. \A r \in dxp_hl(u, a) : r = yes(nc_runall_opaque(u)) \/ r = yes(shown(u))
    BY DEF dxp_hl, shown
  <2> QED BY <2>1, <1>3, Plain
<1>7. \A r \in dxp_selnc(u, a) : Ends(r)
  <2>1. \A r \in dxp_selnc(u, a) :
           \/ r = yes(shown(u)) \/ r = yes(u) \/ r = no([u EXCEPT !.spin = TRUE])
           \/ \E n : r = yes(shown(sn_change(u, u.sel \cup {n})))
    BY Zenon DEF dxp_selnc, shown
  <2> QED BY <2>1, <1>3, <1>4, <1>5, Plain
<1> QED BY <1>6, <1>7

LEMMA PlainState ==
    ASSUME NEW u, Running(u), u.de \notin Lasting, NEW a \in Action
    PROVE  /\ \A r \in dxp_opt(u, a) : Ends(r)
           /\ \A r \in dxp_vmode(u, a) : Ends(r)
           /\ \A r \in dxp_dmode(u, a) : Ends(r)
           /\ \A r \in dxp_pipemode(u, a) : Ends(r)
           /\ \A r \in dxp_panel(u, a) : Ends(r)
           /\ \A r \in dxp_pstick(u, a) : Ends(r)
<1>1. Shape(u)  BY Runs
<1>2. \A r \in dxp_opt(u, a) : Ends(r)
  <2>1. a.mode \in {"set", "on", "off"}  BY DEF Action
  <2>2. \A r \in dxp_opt(u, a) : \/ \E S : r = yes(opt_enable(u, S))
                                 \/ \E S : r = yes(opt_disable(u, S))
                                 \/ \E S : r = yes(opt_flip(u, S))
    BY <2>1, Zenon DEF dxp_opt
  <2> QED BY <1>1, <2>2, FlipKeeps, EnableKeeps, DisableKeeps, Plain
<1>3. ASSUME NEW s, NEW F
      PROVE  /\ Keeps(u, [u EXCEPT !.st = s]) /\ Keeps(u, want([u EXCEPT !.st = s], F))
  <2>1. Keeps(u, [u EXCEPT !.st = s])
    BY <1>1 DEF Shape, Fields, Keeps, SameRun, SameTimer, SameText, SameMoves, SameReel
  <2> QED BY <1>1, <2>1, KeepsShape, WantKeeps, KeepsChain
<1>4. \A r \in dxp_vmode(u, a) : Ends(r)  BY <1>3, Plain DEF dxp_vmode
<1>5. \A r \in dxp_dmode(u, a) : Ends(r)  BY <1>3, Plain DEF dxp_dmode
<1>6. \A r \in dxp_pipemode(u, a) : Ends(r)  BY <1>3, Plain DEF dxp_pipemode
<1>7. ASSUME NEW P PROVE Keeps(u, [u EXCEPT !.panels = P]) /\ Keeps(u, [u EXCEPT !.stick = P])
  BY <1>1 DEF Shape, Fields, Keeps, SameRun, SameTimer, SameText, SameMoves, SameReel
<1>8. \A r \in dxp_panel(u, a) : Ends(r)
  <2>1. \A r \in dxp_panel(u, a) : \E P : r = yes([u EXCEPT !.panels = P])
    BY Zenon DEF dxp_panel
  <2> QED BY <2>1, <1>7, Plain
<1>9. \A r \in dxp_pstick(u, a) : Ends(r)
  <2>1. \A r \in dxp_pstick(u, a) : \E P : r = yes([u EXCEPT !.stick = P])
    BY Zenon DEF dxp_pstick
  <2> QED BY <2>1, <1>7, Plain
<1> QED BY <1>2, <1>4, <1>5, <1>6, <1>8, <1>9

-----------------------------------------------------------------------------
(* The actions that do keep something.                                     *)

LEMMA RunningKept ==
    ASSUME NEW u, Running(u), NEW v, SameRun(u, v)
    PROVE  /\ RunOk(v) /\ v.active /\ v.cur # 0 /\ v.torn = u.torn /\ v.gen = u.gen
           /\ doing(v) = u.de /\ me(v) = me(u)
           /\ SameTimer(u, v) => TimerOk(v)
           /\ SameTimer(u, v) /\ v.reel.loaded = u.reel.loaded => TimerOwn(v)
           /\ SameText(u, v) => TextOk(v)
           /\ SameMoves(u, v) => MoveOk(v)
           /\ SameReel(u, v) => ReelOk(v)
           /\ v.set = u.set /\ v.ncby = u.ncby => CycleOk(v)
<1>1. v.active /\ v.cur # 0 /\ v.torn = u.torn /\ v.gen = u.gen  BY DEF Running, SameRun
<1>2. doing(v) = u.de /\ me(v) = me(u)  BY SameDoing, Runs
<1> QED BY <1>1, <1>2, KeepsRun, KeepsTimer, KeepsTimerOwn, KeepsText, KeepsMoves, KeepsReel,
           KeepsCycle DEF Running, Good

LEMMA CaptionEnds ==
    ASSUME NEW u, Running(u), u.de = "setcap", NEW a
    PROVE  \A r \in dxp_caption(u, a) : Ends(r)
<1> DEFINE v == [u EXCEPT !.caption = <<u.gen, u.cur>>]
<1>1. /\ SameRun(u, v) /\ SameTimer(u, v) /\ SameMoves(u, v) /\ SameReel(u, v)
      /\ v.ncby = u.ncby /\ v.caption = <<u.gen, u.cur>> /\ v.cap = u.cap /\ v.capby = u.capby
      /\ v.oldcap = u.oldcap /\ v.kept = u.kept
  BY Runs DEF Shape, Fields, SameRun, SameTimer, SameMoves, SameReel
<1>0. \A r \in dxp_caption(u, a) : r = yes(v)  BY DEF dxp_caption
<1> HIDE DEF v
<1>2. TextOk(v)
  <2>1. TextOk(u)  BY DEF Running, Good
  <2>2. ~u.torn => u.cap = None  BY QuietParts
  <2>3. <<u.gen, u.cur>>[1] = u.gen  OBVIOUS
  <2>4. v.active /\ v.gen = u.gen /\ v.torn = u.torn /\ doing(v) = u.de /\ me(v) = me(u)
    BY <1>1, RunningKept
  <2>5. ~v.torn => v.cap = None /\ v.capby = None  BY <1>1, <2>1, <2>2, <2>4 DEF TextOk
  <2> HIDE DEF None
  <2> QED BY <1>1, <2>1, <2>3, <2>4, <2>5 DEF TextOk
<1>3. Good(v) /\ v.active /\ v.cur # 0
  BY <1>1, <1>2, RunningKept DEF Good, SameReel, SameTimer
<1>4. Idle(u)  BY Quiet DEF Lasting, Timed
<1>5. Idle(v)
  BY <1>4, <1>1 DEF Idle, SameRun, SameTimer, SameMoves, SameReel
<1> QED BY <1>0, <1>3, <1>5 DEF Ends, yes

LEMMA RefreshEnds ==
    ASSUME NEW u, Running(u), u.de = "refresh", NEW a
    PROVE  \A r \in dxp_refresh(u, a) : Ends(r)
<1>s. Shape(u)  BY Runs
<1> DEFINE v == [u EXCEPT !.caption = u.cap, !.cap = None, !.capby = None]
           x == [u EXCEPT !.cap = u.caption, !.capby = IF u.caption = None THEN None ELSE me(u)]
           y == want(x, {"RF_DATASRC"})
<1>1. /\ SameRun(u, v) /\ SameTimer(u, v) /\ SameMoves(u, v) /\ SameReel(u, v)
      /\ v.ncby = u.ncby /\ v.caption = u.cap /\ v.cap = None /\ v.capby = None
      /\ v.oldcap = u.oldcap /\ v.kept = u.kept
  BY <1>s DEF Shape, Fields, SameRun, SameTimer, SameMoves, SameReel
<1>2. /\ SameRun(u, y) /\ SameTimer(u, y) /\ SameMoves(u, y) /\ SameReel(u, y)
      /\ y.ncby = u.ncby /\ y.caption = u.caption /\ y.cap = u.caption
      /\ y.capby = (IF u.caption = None THEN None ELSE me(u)) /\ y.oldcap = u.oldcap
      /\ y.kept = u.kept
  BY <1>s DEF want, Shape, Fields, SameRun, SameTimer, SameMoves, SameReel
<1>3. \A r \in dxp_refresh(u, a) : r = yes(v) \/ r = no(y)  BY DEF dxp_refresh
<1> HIDE DEF v, y
<1>t. TextOk(u)  BY DEF Running, Good
<1>4. TextOk(v)  BY <1>1, <1>t, RunningKept DEF TextOk, Running
<1>5. TextOk(y)  BY <1>2, <1>t, RunningKept DEF TextOk, Running
<1>6. Good(v) /\ v.active /\ v.cur # 0
  BY <1>1, <1>4, RunningKept DEF Good, SameReel, SameTimer
<1>7. Good(y) /\ y.active /\ y.cur # 0
  BY <1>2, <1>5, RunningKept DEF Good, SameReel, SameTimer
<1>8. Idle(v)
  <2>1. SUFFICES ASSUME ~u.torn PROVE Idle(v)  BY <1>1, RunningKept DEF Idle
  <2> QED BY <2>1, <1>1, QuietParts DEF Idle, SameTimer, SameMoves, SameReel, Timed
<1> QED BY <1>3, <1>6, <1>7, <1>8 DEF Ends, yes, no

(* The movements of the camera.                                            *)
LEMMA KeepsRunning == ASSUME NEW u, Running(u), NEW v, Keeps(u, v) PROVE Running(v)
<1>1. Good(v)  BY KeepsGood DEF Running
<1>2. SameRun(u, v)  BY DEF Keeps
<1> QED BY <1>1, <1>2, SameDoing DEF Running, SameRun

LEMMA TurnAny ==
    ASSUME NEW u, NEW s, s.t \in Nat, {"t", "by"} \subseteq DOMAIN s, NEW x \in turn(u, s)
    PROVE  /\ x.s.t \in Nat \ {0} /\ DOMAIN x.s = DOMAIN s
           /\ x.s.by = IF s.t = 0 THEN me(u) ELSE s.by
<1>1. PICK o \in BOOLEAN :
         x = [s |-> [s EXCEPT !.t = IF s.t = Frames THEN s.t ELSE s.t + 1,
                              !.by = IF s.t = 0 THEN me(u) ELSE s.by], over |-> o]
  BY DEF turn
<1>2. x.s = [s EXCEPT !.t = IF s.t = Frames THEN s.t ELSE s.t + 1,
                      !.by = IF s.t = 0 THEN me(u) ELSE s.by]
  BY <1>1
<1>3. Frames \in Nat \ {0}  BY DeusExAssumption
<1> QED BY <1>2, <1>3

(* Where other movements than those of D have not begun, the world v is as *)
(* good as u if what it has of its own is.                                 *)
LEMMA MovedEnds ==
    ASSUME NEW u, Running(u), NEW v, SameRun(u, v), SameTimer(u, v), SameText(u, v),
           SameReel(u, v), v.ncby = u.ncby, MoveOk(v)
    PROVE  /\ Good(v) /\ v.active /\ v.cur # 0
           /\ Ends(no(v))
           /\ /\ u.de \notin Timed /\ u.de # "refresh"
              /\ ~u.torn => /\ v.orbit.t = 0 /\ v.screw.t = 0 /\ v.move.t = 0
                            /\ v.winsp.t = 0 /\ v.wioff.t = 0
              => Ends(yes(v))
<1>1. Good(v) /\ v.active /\ v.cur # 0
  BY RunningKept DEF Good, SameReel, SameTimer
<1>2. ASSUME u.de \notin Timed, u.de # "refresh",
             ~u.torn => /\ v.orbit.t = 0 /\ v.screw.t = 0 /\ v.move.t = 0
                        /\ v.winsp.t = 0 /\ v.wioff.t = 0
      PROVE  Idle(v)
  <2>1. SUFFICES ASSUME ~u.torn PROVE Idle(v)  BY RunningKept DEF Idle
  <2>2. ~u.set /\ u.cap = None /\ ~u.reel.loaded /\ u.ncby = None
    BY <2>1, <1>2, QuietParts DEF Timed
  <2> QED BY <2>1, <2>2, <1>2 DEF Idle, SameTimer, SameText, SameReel
<1> QED BY <1>1, <1>2 DEF Ends, yes, no

LEMMA OrbitEnds ==
    ASSUME NEW u, Running(u), u.de \in {"orbit", "curlyq"}, NEW a
    PROVE  \A r \in dxp_orbit(u, a) : Ends(r)
<1>s. Shape(u) /\ doing(u) = u.de  BY Runs
<1>m. MoveOk(u)  BY DEF Running, Good
<1>a. Keeps(u, aim(u))  BY <1>s, AimKeeps
<1>b. Shape(aim(u))  BY <1>a, <1>s, KeepsShape
<1> DEFINE s == [u.orbit EXCEPT !.sample = FPS]
           v == [u EXCEPT !.orbit.sample = @ + 1]
           e == ended(aim(u))
           g(z) == [aim(u) EXCEPT !.orbit = z]
<1>1. \A r \in dxp_orbit(u, a) : r = no(v) \/ r = yes(e) \/ \E x \in turn(u, s) : r = no(g(x.s))
  BY Zenon DEF dxp_orbit
<1>2. Ends(no(v))
  <2>1. /\ SameRun(u, v) /\ SameTimer(u, v) /\ SameText(u, v) /\ SameReel(u, v)
        /\ v.ncby = u.ncby /\ v.screw = u.screw /\ v.move = u.move /\ v.winsp = u.winsp
        /\ v.wioff = u.wioff /\ v.orbit.t = u.orbit.t /\ v.orbit.by = u.orbit.by
        /\ DOMAIN v.orbit = DOMAIN u.orbit
    BY <1>s, <1>m DEF MoveOk, Shape, Fields, SameRun, SameTimer, SameText, SameReel
  <2> HIDE DEF v
  <2>2. MoveOk(v)  BY <2>1, <1>m, <1>s, RunningKept DEF MoveOk, Progress
  <2> QED BY <2>1, <2>2, MovedEnds
<1>3. Ends(yes(e))
  <2>1. /\ SameRun(aim(u), e) /\ SameTimer(aim(u), e) /\ SameText(aim(u), e)
        /\ SameReel(aim(u), e) /\ e.ncby = aim(u).ncby /\ e.screw = aim(u).screw
        /\ e.move = aim(u).move /\ e.winsp = aim(u).winsp /\ e.wioff = aim(u).wioff
        /\ e.orbit = [t |-> 0, sample |-> 0, by |-> None]
    BY <1>b DEF ended, Shape, Fields, SameRun, SameTimer, SameText, SameReel
  <2> HIDE DEF e
  <2>2. Running(aim(u)) /\ aim(u).de = u.de /\ MoveOk(aim(u)) /\ doing(aim(u)) = u.de
    BY <1>a, KeepsRunning, Runs DEF Keeps, SameRun, Running, Good
  <2>3. MoveOk(e)  BY <2>1, <2>2, RunningKept DEF MoveOk, Progress
  <2>4. ~aim(u).torn => /\ e.orbit.t = 0 /\ e.screw.t = 0 /\ e.move.t = 0
                        /\ e.winsp.t = 0 /\ e.wioff.t = 0
    BY <2>1, <2>2, QuietParts
  <2> QED BY <2>1, <2>2, <2>3, <2>4, MovedEnds DEF Timed
<1>4. ASSUME NEW x \in turn(u, s) PROVE Ends(no(g(x.s)))
  <2> DEFINE y == g(x.s)
  <2>1. /\ SameRun(aim(u), y) /\ SameTimer(aim(u), y) /\ SameText(aim(u), y)
        /\ SameReel(aim(u), y) /\ y.ncby = aim(u).ncby /\ y.screw = aim(u).screw
        /\ y.move = aim(u).move /\ y.winsp = aim(u).winsp /\ y.wioff = aim(u).wioff
        /\ y.orbit = x.s
    BY <1>b DEF Shape, Fields, SameRun, SameTimer, SameText, SameReel
  <2>2. Running(aim(u)) /\ aim(u).de = u.de /\ MoveOk(aim(u)) /\ doing(aim(u)) = u.de
        /\ aim(u).torn = u.torn /\ me(aim(u)) = me(u)
    BY <1>a, KeepsRunning, Runs, SameDoing DEF Keeps, SameRun, Running, Good
  <2>3. /\ s.t = u.orbit.t /\ s.by = u.orbit.by /\ DOMAIN s = {"t", "sample", "by"}
        /\ s.t \in Nat
    BY <1>m DEF MoveOk
  <2>4. ~u.torn => Progress(u, s, {"orbit", "curlyq"})  BY <2>3, <1>m DEF MoveOk, Progress
  <2> HIDE DEF y, s
  <2>5. x.s.t \in Nat \ {0} /\ DOMAIN x.s = DOMAIN s
        /\ x.s.by = IF s.t = 0 THEN me(u) ELSE s.by
    BY <2>3, TurnAny
  <2>6. ~u.torn => x.s.by = me(u)  BY <2>4, <2>5 DEF Progress
  <2>7. MoveOk(y)  BY <2>1, <2>2, <2>3, <2>5, <2>6, RunningKept DEF MoveOk, Progress
  <2> QED BY <2>1, <2>2, <2>7, MovedEnds DEF y
<1> QED BY <1>1, <1>2, <1>3, <1>4

LEMMA Aimed ==
    ASSUME NEW u, Running(u)
    PROVE  /\ Running(aim(u)) /\ Shape(aim(u)) /\ MoveOk(aim(u)) /\ MoveOk(u)
           /\ aim(u).de = u.de /\ doing(u) = u.de /\ doing(aim(u)) = u.de
           /\ aim(u).torn = u.torn /\ me(aim(u)) = me(u)
<1>1. Keeps(u, aim(u))  BY Runs, AimKeeps
<1>2. Running(aim(u))  BY <1>1, KeepsRunning
<1>3. SameRun(u, aim(u))  BY <1>1 DEF Keeps
<1>4. aim(u).de = u.de /\ aim(u).torn = u.torn  BY <1>3 DEF SameRun
<1> QED BY <1>2, <1>3, <1>4, Runs, SameDoing DEF Running, Good

LEMMA CurlyEnds ==
    ASSUME NEW u, Running(u), u.de = "curlyq", NEW a
    PROVE  \A r \in dxp_curlyq(u, a) : Ends(r)
BY Aimed, OrbitEnds DEF dxp_curlyq

LEMMA ScrewEnds ==
    ASSUME NEW u, Running(u), u.de = "corkscrew", NEW a
    PROVE  \A r \in dxp_corkscrew(u, a) : Ends(r)
<1> DEFINE e == [aim(u) EXCEPT !.screw = At]
           g(z) == [aim(u) EXCEPT !.screw = z]
<1>1. \A r \in dxp_corkscrew(u, a) : r = yes(e) \/ \E x \in turn(u, u.screw) : r = no(g(x.s))
  BY Zenon DEF dxp_corkscrew
<1>2. /\ Running(aim(u)) /\ Shape(aim(u)) /\ MoveOk(aim(u)) /\ MoveOk(u)
      /\ aim(u).de = u.de /\ doing(u) = u.de /\ doing(aim(u)) = u.de
      /\ aim(u).torn = u.torn /\ me(aim(u)) = me(u)
  BY Aimed
<1>3. ASSUME NEW z
      PROVE  /\ SameRun(aim(u), g(z)) /\ SameTimer(aim(u), g(z)) /\ SameText(aim(u), g(z))
             /\ SameReel(aim(u), g(z)) /\ g(z).ncby = aim(u).ncby
             /\ g(z).orbit = aim(u).orbit /\ g(z).move = aim(u).move
             /\ g(z).winsp = aim(u).winsp /\ g(z).wioff = aim(u).wioff
             /\ g(z).screw = z
  BY <1>2 DEF Shape, Fields, SameRun, SameTimer, SameText, SameReel
<1> HIDE DEF g
<1>4. Ends(yes(e))
  <2>1. MoveOk(g(At))  BY <1>2, <1>3, RunningKept DEF MoveOk, Progress, At
  <2>2. ~aim(u).torn => /\ g(At).orbit.t = 0 /\ g(At).screw.t = 0 /\ g(At).move.t = 0
                        /\ g(At).winsp.t = 0 /\ g(At).wioff.t = 0
    BY <1>2, <1>3, QuietParts DEF At
  <2> QED BY <1>2, <1>3, <2>1, <2>2, MovedEnds DEF Timed, g
<1>5. ASSUME NEW x \in turn(u, u.screw) PROVE Ends(no(g(x.s)))
  <2>1. /\ x.s.t \in Nat \ {0} /\ DOMAIN x.s = {"t", "by"}
        /\ x.s.by = IF u.screw.t = 0 THEN me(u) ELSE u.screw.by
    BY <1>2, TurnAny DEF MoveOk
  <2>2. ~u.torn => x.s.by = me(u)  BY <1>2, <2>1 DEF MoveOk, Progress
  <2>3. MoveOk(g(x.s))  BY <1>2, <1>3, <2>1, <2>2, RunningKept DEF MoveOk, Progress
  <2> QED BY <1>2, <1>3, <2>3, MovedEnds
<1> QED BY <1>1, <1>4, <1>5

LEMMA MoveEnds ==
    ASSUME NEW u, Running(u), u.de = "move", NEW a
    PROVE  \A r \in dxp_cam_move(u, a) : Ends(r)
<1> DEFINE e == [aim(u) EXCEPT !.move = At]
           g(z) == [aim(u) EXCEPT !.move = z]
<1>1. \A r \in dxp_cam_move(u, a) : r = yes(e) \/ \E x \in turn(u, u.move) : r = no(g(x.s))
  BY Zenon DEF dxp_cam_move
<1>2. /\ Running(aim(u)) /\ Shape(aim(u)) /\ MoveOk(aim(u)) /\ MoveOk(u)
      /\ aim(u).de = u.de /\ doing(u) = u.de /\ doing(aim(u)) = u.de
      /\ aim(u).torn = u.torn /\ me(aim(u)) = me(u)
  BY Aimed
<1>3. ASSUME NEW z
      PROVE  /\ SameRun(aim(u), g(z)) /\ SameTimer(aim(u), g(z)) /\ SameText(aim(u), g(z))
             /\ SameReel(aim(u), g(z)) /\ g(z).ncby = aim(u).ncby
             /\ g(z).orbit = aim(u).orbit /\ g(z).screw = aim(u).screw
             /\ g(z).winsp = aim(u).winsp /\ g(z).wioff = aim(u).wioff
             /\ g(z).move = z
  BY <1>2 DEF Shape, Fields, SameRun, SameTimer, SameText, SameReel
<1> HIDE DEF g
<1>4. Ends(yes(e))
  <2>1. MoveOk(g(At))  BY <1>2, <1>3, RunningKept DEF MoveOk, Progress, At
  <2>2. ~aim(u).torn => /\ g(At).orbit.t = 0 /\ g(At).screw.t = 0 /\ g(At).move.t = 0
                        /\ g(At).winsp.t = 0 /\ g(At).wioff.t = 0
    BY <1>2, <1>3, QuietParts DEF At
  <2> QED BY <1>2, <1>3, <2>1, <2>2, MovedEnds DEF Timed, g
<1>5. ASSUME NEW x \in turn(u, u.move) PROVE Ends(no(g(x.s)))
  <2>1. /\ x.s.t \in Nat \ {0} /\ DOMAIN x.s = {"t", "by"}
        /\ x.s.by = IF u.move.t = 0 THEN me(u) ELSE u.move.by
    BY <1>2, TurnAny DEF MoveOk
  <2>2. ~u.torn => x.s.by = me(u)  BY <1>2, <2>1 DEF MoveOk, Progress
  <2>3. MoveOk(g(x.s))  BY <1>2, <1>3, <2>1, <2>2, RunningKept DEF MoveOk, Progress
  <2> QED BY <1>2, <1>3, <2>3, MovedEnds
<1> QED BY <1>1, <1>4, <1>5

(* Worlds that differ in nothing kept but the adjustment of winsp.         *)
Only_winsp(u, z) ==
    /\ SameRun(u, z) /\ SameTimer(u, z) /\ SameText(u, z) /\ SameReel(u, z) /\ z.ncby = u.ncby
    /\ z.orbit = u.orbit /\ z.screw = u.screw /\ z.move = u.move /\ z.wioff = u.wioff
    /\ DOMAIN z.winsp = {"t", "iv", "by"}

LEMMA SpacingEnds ==
    ASSUME NEW u, Running(u), u.de = "winsp", NEW a
    PROVE  \A r \in dxp_winsp(u, a) : Ends(r)
<1> DEFINE b == [u EXCEPT !.winsp = [t |-> 0, iv |-> a.n, by |-> me(u)], !.base = u.st.winsp]
           v == IF u.winsp.t # 0 THEN u ELSE b
           x == winsp_step(v, a)
           e == [x EXCEPT !.winsp.t = 0, !.winsp.by = None]
           y == [x EXCEPT !.winsp.t = 1]
<1>1. \A r \in dxp_winsp(u, a) : r = yes(e) \/ r = no(y)  BY Zenon DEF dxp_winsp
<1>s. Shape(u) /\ doing(u) = u.de /\ MoveOk(u)  BY Runs DEF Running, Good
<1>2. Only_winsp(u, u)
  BY <1>s DEF Only_winsp, MoveOk, SameRun, SameTimer, SameText, SameReel
<1>3. Only_winsp(u, b) /\ b.winsp.t = 0 /\ b.winsp.by = me(u)
  BY <1>s DEF Only_winsp, Shape, Fields, SameRun, SameTimer, SameText, SameReel
<1>4. /\ Only_winsp(u, v) /\ v.winsp.t \in Nat
      /\ ~u.torn => v.winsp.by = me(u)
  <2> HIDE DEF b
  <2>1. CASE u.winsp.t # 0  BY <2>1, <1>2, <1>s DEF MoveOk, Progress
  <2>2. CASE u.winsp.t = 0  BY <2>2, <1>3
  <2> QED BY <2>1, <2>2
<1> HIDE DEF v
<1>5. /\ Only_winsp(u, x) /\ x.winsp.t \in Nat
      /\ ~u.torn => x.winsp.by = me(u)
  <2> DEFINE n == adjust(v.st.winsp, v.winsp.iv, a.mode)
             m == [v EXCEPT !.st.winsp = n[1], !.winsp.iv = n[2]]
             q == want(m, {"RF_CLUSTER", "RF_VMODE"})
  <2>1. x = v \/ x = q  BY DEF winsp_step
  <2>2. Shape(v)  BY <1>4, <1>s DEF Only_winsp, Shape, SameRun, SameReel
  <2>3. /\ Only_winsp(u, q) /\ q.winsp.t = v.winsp.t /\ q.winsp.by = v.winsp.by
    <3> HIDE DEF n
    <3>1. Keeps(v, v) /\ Shape(v)  BY <2>2, AimKeeps, KeepsShape, KeepsSelf
    <3>2. Only_winsp(u, v) /\ v.winsp = v.winsp
      BY <1>4, <3>1 DEF Keeps, Only_winsp, SameRun, SameTimer, SameText, SameMoves, SameReel
    <3>3. /\ SameRun(v, m) /\ SameTimer(v, m) /\ SameText(v, m)
          /\ SameReel(v, m) /\ m.ncby = v.ncby /\ m.orbit = v.orbit
          /\ m.screw = v.screw /\ m.move = v.move /\ m.wioff = v.wioff
          /\ DOMAIN m.winsp = DOMAIN v.winsp
          /\ m.winsp.t = v.winsp.t /\ m.winsp.by = v.winsp.by
      BY <3>1, <3>2 DEF Only_winsp, Shape, Fields, SameRun, SameTimer, SameText, SameReel
    <3> HIDE DEF m
    <3>4. Only_winsp(u, m) /\ m.winsp.t = v.winsp.t /\ m.winsp.by = v.winsp.by
      BY <3>2, <3>3 DEF Only_winsp, SameRun, SameTimer, SameText, SameReel
    <3>5. Shape(m)  BY <3>1, <3>3 DEF Shape, SameRun, SameReel
    <3>6. Keeps(m, q)  BY <3>5, WantKeeps
    <3> HIDE DEF q
    <3> QED BY <3>4, <3>6
        DEF Keeps, Only_winsp, SameRun, SameTimer, SameText, SameMoves, SameReel
  <2> HIDE DEF q
  <2> QED BY <2>1, <2>3, <1>4
<1> HIDE DEF x
<1>6. Shape(x)  BY <1>5, <1>s DEF Only_winsp, Shape, SameRun, SameReel
<1>7. Only_winsp(x, e) /\ e.winsp.t = 0 /\ e.winsp.by = None
  BY <1>5, <1>6, ZenonT(60) DEF Only_winsp, Shape, Fields, SameRun, SameTimer, SameText, SameReel
<1>8. Only_winsp(x, y) /\ y.winsp.t \in Nat \ {0} /\ y.winsp.by = x.winsp.by
  BY <1>5, <1>6, DeusExAssumption
  DEF Only_winsp, Shape, Fields, SameRun, SameTimer, SameText, SameReel
<1> HIDE DEF e, y
<1>9. Only_winsp(u, e) /\ Only_winsp(u, y)
  BY <1>5, <1>7, <1>8 DEF Only_winsp, SameRun, SameTimer, SameText, SameReel
<1>10. MoveOk(e)
  BY <1>s, <1>7, <1>9, RunningKept DEF Only_winsp, MoveOk, Progress
<1>11. MoveOk(y)
  BY <1>s, <1>5, <1>8, <1>9, RunningKept DEF Only_winsp, MoveOk, Progress
<1>12. ~u.torn => /\ e.orbit.t = 0 /\ e.screw.t = 0 /\ e.move.t = 0
                  /\ e.winsp.t = 0 /\ e.wioff.t = 0
  BY <1>7, <1>9, QuietParts DEF Only_winsp
<1>13. Ends(no(y))  BY <1>9, <1>11, MovedEnds DEF Only_winsp
<1>14. Ends(yes(e))  BY <1>9, <1>10, <1>12, MovedEnds DEF Only_winsp, Timed
<1> QED BY <1>1, <1>13, <1>14

(* Worlds that differ in nothing kept but the adjustment of wioff.         *)
Only_wioff(u, z) ==
    /\ SameRun(u, z) /\ SameTimer(u, z) /\ SameText(u, z) /\ SameReel(u, z) /\ z.ncby = u.ncby
    /\ z.orbit = u.orbit /\ z.screw = u.screw /\ z.move = u.move /\ z.winsp = u.winsp
    /\ DOMAIN z.wioff = {"t", "iv", "by"}

LEMMA OffsetEnds ==
    ASSUME NEW u, Running(u), u.de = "wioff", NEW a
    PROVE  \A r \in dxp_wioff(u, a) : Ends(r)
<1> DEFINE b == [u EXCEPT !.wioff = [t |-> 0, iv |-> a.n, by |-> me(u)], !.base = u.st.wioff]
           v == IF u.wioff.t # 0 THEN u ELSE b
           x == wioff_step(v, a)
           e == [x EXCEPT !.wioff.t = 0, !.wioff.by = None]
           y == [x EXCEPT !.wioff.t = IF @ = Tenth THEN 1 ELSE @ + 1]
<1>1. \A r \in dxp_wioff(u, a) : r = yes(e) \/ r = no(y)  BY Zenon DEF dxp_wioff
<1>s. Shape(u) /\ doing(u) = u.de /\ MoveOk(u)  BY Runs DEF Running, Good
<1>2. Only_wioff(u, u)
  BY <1>s DEF Only_wioff, MoveOk, SameRun, SameTimer, SameText, SameReel
<1>3. Only_wioff(u, b) /\ b.wioff.t = 0 /\ b.wioff.by = me(u)
  BY <1>s DEF Only_wioff, Shape, Fields, SameRun, SameTimer, SameText, SameReel
<1>4. /\ Only_wioff(u, v) /\ v.wioff.t \in Nat
      /\ ~u.torn => v.wioff.by = me(u)
  <2> HIDE DEF b
  <2>1. CASE u.wioff.t # 0  BY <2>1, <1>2, <1>s DEF MoveOk, Progress
  <2>2. CASE u.wioff.t = 0  BY <2>2, <1>3
  <2> QED BY <2>1, <2>2
<1> HIDE DEF v
<1>5. /\ Only_wioff(u, x) /\ x.wioff.t \in Nat
      /\ ~u.torn => x.wioff.by = me(u)
  <2> DEFINE n == adjust(v.st.wioff, v.wioff.iv, a.mode)
             m == [aim(v) EXCEPT !.st.wioff = n[1], !.wioff.iv = n[2]]
             q == want(m, {"RF_CLUSTER", "RF_VMODE"})
  <2>1. x = v \/ x = q  BY DEF wioff_step
  <2>2. Shape(v)  BY <1>4, <1>s DEF Only_wioff, Shape, SameRun, SameReel
  <2>3. /\ Only_wioff(u, q) /\ q.wioff.t = v.wioff.t /\ q.wioff.by = v.wioff.by
    <3> HIDE DEF n
    <3>1. Keeps(v, aim(v)) /\ Shape(aim(v))  BY <2>2, AimKeeps, KeepsShape, KeepsSelf
    <3>2. Only_wioff(u, aim(v)) /\ aim(v).wioff = v.wioff
      BY <1>4, <3>1 DEF Keeps, Only_wioff, SameRun, SameTimer, SameText, SameMoves, SameReel
    <3>3. /\ SameRun(aim(v), m) /\ SameTimer(aim(v), m) /\ SameText(aim(v), m)
          /\ SameReel(aim(v), m) /\ m.ncby = aim(v).ncby /\ m.orbit = aim(v).orbit
          /\ m.screw = aim(v).screw /\ m.move = aim(v).move /\ m.winsp = aim(v).winsp
          /\ DOMAIN m.wioff = DOMAIN aim(v).wioff
          /\ m.wioff.t = aim(v).wioff.t /\ m.wioff.by = aim(v).wioff.by
      BY <3>1, <3>2 DEF Only_wioff, Shape, Fields, SameRun, SameTimer, SameText, SameReel
    <3> HIDE DEF m
    <3>4. Only_wioff(u, m) /\ m.wioff.t = v.wioff.t /\ m.wioff.by = v.wioff.by
      BY <3>2, <3>3 DEF Only_wioff, SameRun, SameTimer, SameText, SameReel
    <3>5. Shape(m)  BY <3>1, <3>3 DEF Shape, SameRun, SameReel
    <3>6. Keeps(m, q)  BY <3>5, WantKeeps
    <3> HIDE DEF q
    <3> QED BY <3>4, <3>6
        DEF Keeps, Only_wioff, SameRun, SameTimer, SameText, SameMoves, SameReel
  <2> HIDE DEF q
  <2> QED BY <2>1, <2>3, <1>4
<1> HIDE DEF x
<1>6. Shape(x)  BY <1>5, <1>s DEF Only_wioff, Shape, SameRun, SameReel
<1>7. Only_wioff(x, e) /\ e.wioff.t = 0 /\ e.wioff.by = None
  BY <1>5, <1>6, ZenonT(60) DEF Only_wioff, Shape, Fields, SameRun, SameTimer, SameText, SameReel
<1>8. Only_wioff(x, y) /\ y.wioff.t \in Nat \ {0} /\ y.wioff.by = x.wioff.by
  BY <1>5, <1>6, DeusExAssumption
  DEF Only_wioff, Shape, Fields, SameRun, SameTimer, SameText, SameReel
<1> HIDE DEF e, y
<1>9. Only_wioff(u, e) /\ Only_wioff(u, y)
  BY <1>5, <1>7, <1>8 DEF Only_wioff, SameRun, SameTimer, SameText, SameReel
<1>10. MoveOk(e)
  BY <1>s, <1>7, <1>9, RunningKept DEF Only_wioff, MoveOk, Progress
<1>11. MoveOk(y)
  BY <1>s, <1>5, <1>8, <1>9, RunningKept DEF Only_wioff, MoveOk, Progress
<1>12. ~u.torn => /\ e.orbit.t = 0 /\ e.screw.t = 0 /\ e.move.t = 0
                  /\ e.winsp.t = 0 /\ e.wioff.t = 0
  BY <1>7, <1>9, QuietParts DEF Only_wioff
<1>13. Ends(no(y))  BY <1>9, <1>11, MovedEnds DEF Only_wioff
<1>14. Ends(yes(e))  BY <1>9, <1>10, <1>12, MovedEnds DEF Only_wioff, Timed
<1> QED BY <1>1, <1>13, <1>14

(* The timer.                                                              *)
SameRest(u, v) ==
    SameRun(u, v) /\ SameText(u, v) /\ SameMoves(u, v) /\ SameReel(u, v) /\ v.ncby = u.ncby

LEMMA Armed ==
    ASSUME NEW u, Shape(u), TimerOk(u), NEW cb \in Callback
    PROVE  /\ SameRest(u, arm(u, cb)) /\ TimerOk(arm(u, cb))
           /\ arm(u, cb).set /\ arm(u, cb).done = u.done /\ arm(u, cb).by = u.by
           /\ u.set \in BOOLEAN
           /\ arm(u, cb).set = TRUE
           /\ IF u.set THEN arm(u, cb).timers = u.timers ELSE arm(u, cb).timers[1].by = me(u)
<1>1. CASE u.set
  <2>1. arm(u, cb) = u /\ u.set = TRUE  BY <1>1 DEF arm, TimerOk
  <2> QED BY <1>1, <2>1 DEF SameRest, SameRun, SameText, SameMoves, SameReel, TimerOk
<1>2. CASE ~u.set
  <2> DEFINE t == [cb |-> cb, by |-> me(u)]
             v == [u EXCEPT !.set = TRUE, !.timers = Append(@, t)]
  <2>1. arm(u, cb) = v  BY <1>2 DEF arm
  <2>2. u.timers = <<>> /\ u.done = FALSE  BY <1>2 DEF TimerOk
  <2>3. v.set = TRUE /\ v.done = u.done /\ v.by = u.by /\ v.timers = Append(u.timers, t)
        /\ SameRest(u, v)
    BY DEF Shape, Fields, SameRest, SameRun, SameText, SameMoves, SameReel
  <2>4. Append(<<>>, t) = <<t>> /\ <<t>>[1] = t /\ t.cb = cb /\ t.by = me(u)  OBVIOUS
  <2> HIDE DEF t, v
  <2>5. v.timers = <<t>>  BY <2>2, <2>3, <2>4
  <2>6. TimerOk(v)  BY <2>2, <2>3, <2>4, <2>5 DEF TimerOk
  <2> QED BY <1>2, <2>1, <2>3, <2>4, <2>5, <2>6 DEF TimerOk
<1> QED BY <1>1, <1>2

LEMMA Taken ==
    ASSUME NEW u, Shape(u), TimerOk(u), u.done
    PROVE  SameRest(u, take(u)) /\ TimerOk(take(u)) /\ take(u).set = FALSE
<1>1. take(u).set = FALSE /\ take(u).done = FALSE /\ take(u).timers = u.timers
      /\ SameRest(u, take(u))
  BY DEF take, Shape, Fields, SameRest, SameRun, SameText, SameMoves, SameReel
<1>2. u.timers = <<>>  BY DEF TimerOk
<1> QED BY <1>1, <1>2 DEF TimerOk

LEMMA RestShape == ASSUME NEW u, NEW v, SameRest(u, v), Shape(u) PROVE Shape(v)
BY DEF SameRest, SameRun, SameReel, Shape

LEMMA RestChain == ASSUME NEW u, NEW v, NEW x, SameRest(u, v), SameRest(v, x) PROVE SameRest(u, x)
BY DEF SameRest, SameRun, SameText, SameMoves, SameReel

LEMMA KeepsRest == ASSUME NEW u, NEW v, Keeps(u, v) PROVE SameRest(u, v)
BY DEF Keeps, SameRest

(* An action that waits for the timer goes on waiting.                     *)
LEMMA WaitsOn ==
    ASSUME NEW u, Running(u), u.de \in Timed, NEW v, SameRest(u, v), TimerOk(v), v.set = TRUE,
           ~u.torn => /\ IF v.done THEN v.by = me(u) ELSE v.timers[1].by = me(u)
                      /\ u.de = "playreel" => u.reel.loaded
    PROVE  Ends(no(v))
<1>1. TimerOwn(v)  BY RunningKept DEF SameRest, SameReel, TimerOwn, Timed
<1>2. CycleOk(v)
  <2>1. ~u.torn => u.ncby = None \/ (u.ncby = me(u) /\ u.de = "cyclenc")
    BY Runs DEF Running, Good, CycleOk
  <2> QED BY <2>1, RunningKept DEF SameRest, CycleOk
<1>3. Good(v) /\ v.active /\ v.cur # 0  BY <1>1, <1>2, RunningKept DEF Good, SameRest
<1> QED BY <1>3 DEF Ends, no

(* It is done when the timer is free and it has nothing else.              *)
LEMMA WaitedEnds ==
    ASSUME NEW u, Running(u), u.de \in Timed, NEW v, SameRun(u, v), SameText(u, v),
           SameMoves(u, v), ReelOk(v), TimerOk(v), v.set = FALSE,
           ~u.torn => v.ncby = None /\ ~v.reel.loaded
    PROVE  Ends(yes(v))
<1>1. TimerOwn(v)  BY DEF TimerOwn
<1>2. CycleOk(v)  BY RunningKept DEF CycleOk
<1>3. Good(v) /\ v.active /\ v.cur # 0  BY <1>1, <1>2, RunningKept DEF Good
<1>4. Idle(v)
  <2>1. SUFFICES ASSUME ~u.torn PROVE Idle(v)  BY RunningKept DEF Idle
  <2> QED BY <2>1, QuietParts DEF Idle, SameText, SameMoves, Timed
<1> QED BY <1>3, <1>4 DEF Ends, yes

LEMMA StallEnds ==
    ASSUME NEW u, Running(u), u.de = "stall", NEW a
    PROVE  \A r \in dxp_stall(u, a) : Ends(r)
<1>1. Shape(u) /\ TimerOk(u) /\ ReelOk(u) /\ TimerOwn(u)  BY Runs DEF Running, Good
<1>2. CASE u.done
  <2>1. SameRest(u, take(u)) /\ TimerOk(take(u)) /\ take(u).set = FALSE  BY <1>1, <1>2, Taken
  <2>2. ReelOk(take(u))  BY <2>1, RunningKept DEF SameRest
  <2>3. ~u.torn => u.ncby = None /\ ~u.reel.loaded  BY QuietParts
  <2>4. Ends(yes(take(u)))  BY <2>1, <2>2, <2>3, WaitedEnds DEF SameRest, SameReel, Timed
  <2> QED BY <1>2, <2>4 DEF dxp_stall
<1>3. CASE ~u.done
  <2> DEFINE v == arm(u, "dxpcb_stall")
  <2>1. /\ SameRest(u, v) /\ TimerOk(v) /\ v.set = TRUE /\ v.done = u.done
        /\ IF u.set THEN v.timers = u.timers ELSE v.timers[1].by = me(u)
    BY <1>1, Armed DEF Callback
  <2>2. ~u.torn /\ u.set => u.timers[1].by = me(u)  BY <1>1, <1>3 DEF TimerOwn
  <2> HIDE DEF v
  <2>3. Ends(no(v))  BY <1>3, <2>1, <2>2, WaitsOn DEF Timed
  <2> QED BY <1>3, <2>3 DEF dxp_stall, v
<1> QED BY <1>2, <1>3

LEMMA ReelStart ==
    ASSUME NEW u, Running(u), u.de = "playreel", ~u.reel.loaded, NEW dir
    PROVE  Running(reel_start(u, dir)) /\ reel_start(u, dir).de = "playreel"
<1> DEFINE b == [u EXCEPT !.reel.dir = dir, !.seen = {}, !.base = u.reel.save]
           v == reel_load(b)
           p == [v EXCEPT !.reel.pos = -1]
           q == reel_advance(p)
           l == [q EXCEPT !.reel.loaded = TRUE, !.reel.by = me(u)]
           z == opt_enable(l, {"REEL"})
           Held(x) == /\ SameRun(u, x) /\ SameTimer(u, x) /\ SameText(u, x) /\ SameMoves(u, x)
                      /\ x.ncby = u.ncby /\ DOMAIN x.reel = DOMAIN u.reel
<1>s. Shape(u) /\ doing(u) = u.de  BY Runs
<1>r. u.reel.loaded = FALSE /\ (~u.torn => u.reel.by = None)  BY DEF Running, Good, ReelOk
<1>1. Held(b) /\ b.reel.dir = dir /\ b.reel.loaded = FALSE /\ b.reel.by = u.reel.by
  BY <1>s, <1>r DEF Shape, Fields, SameRun, SameTimer, SameText, SameMoves
<1>2. Shape(b)  BY <1>1, <1>s DEF Shape, SameRun
<1> HIDE DEF b
<1>3. /\ Held(v) /\ v.reel.dir = dir /\ v.reel.loaded = FALSE /\ v.reel.by = u.reel.by
      /\ v.reel.len = frames(dir)
  <2>1. Keeps(b, v)  BY <1>2, LoadKeeps
  <2>2. v.reel.len = frames(dir)  BY <1>1, <1>2 DEF reel_load, frames, Shape, Fields
  <2> HIDE DEF v
  <2> QED BY <1>1, <2>1, <2>2 DEF Keeps, SameRun, SameTimer, SameText, SameMoves, SameReel
<1>4. Shape(v)  BY <1>3, <1>s DEF Shape, SameRun
<1> HIDE DEF v
<1>5. Held(p) /\ p.reel.dir = dir /\ p.reel.len = frames(dir)
  BY <1>3, <1>4 DEF Shape, Fields, SameRun, SameTimer, SameText, SameMoves
<1>6. Shape(p)  BY <1>5, <1>s DEF Shape, SameRun
<1> HIDE DEF p
<1>7. Held(q) /\ q.reel.dir = dir /\ q.reel.len = frames(dir)
  <2>1. Keeps(p, q)  BY <1>6, AdvanceKeeps
  <2> HIDE DEF q
  <2> QED BY <1>5, <2>1 DEF Keeps, SameRun, SameTimer, SameText, SameMoves, SameReel
<1>8. Shape(q)  BY <1>7, <1>s DEF Shape, SameRun
<1> HIDE DEF q
<1>9. /\ Held(l) /\ l.reel.dir = dir /\ l.reel.len = frames(dir)
      /\ l.reel.loaded = TRUE /\ l.reel.by = me(u)
  BY <1>7, <1>8, ZenonT(60) DEF Shape, Fields, SameRun, SameTimer, SameText, SameMoves
<1>10. Shape(l)  BY <1>9, <1>s DEF Shape, SameRun
<1> HIDE DEF l
<1>11. /\ Held(z) /\ z.reel.len = frames(z.reel.dir) /\ z.reel.loaded = TRUE
       /\ z.reel.by = me(u)
  <2>1. Keeps(l, z)  BY <1>10, EnableKeeps
  <2> HIDE DEF z
  <2> QED BY <1>9, <2>1 DEF Keeps, SameRun, SameTimer, SameText, SameMoves, SameReel
<1> HIDE DEF z
<1>12. ASSUME NEW x, Held(x), ReelOk(x) PROVE Running(x) /\ x.de = "playreel"
  <2>1. TimerOwn(x)
    <3>1. ~u.torn => ~u.set  BY <1>s, <1>r DEF Running, Good, TimerOwn
    <3> QED BY <1>12, <3>1, RunningKept DEF TimerOwn, SameTimer
  <2>2. Good(x)  BY <1>12, <2>1, RunningKept DEF Good, SameTimer
  <2>3. action(x) = action(u)  BY <1>12, SameDoing
  <2> QED BY <1>12, <2>2, <2>3 DEF Running, SameRun
<1>13. CASE v.reel.len = 0
  <2>1. reel_start(u, dir) = v  BY <1>13 DEF reel_start, v, b
  <2>2. ReelOk(v)  BY <1>3, <1>r, <1>s, RunningKept DEF ReelOk, Shape
  <2> QED BY <1>3, <1>12, <2>1, <2>2
<1>14. CASE v.reel.len # 0
  <2>1. reel_start(u, dir) = z  BY <1>14 DEF reel_start, z, l, q, p, v, b
  <2>2. z.reel.dir = dir  BY <1>9, <1>10, EnableKeeps DEF z, Keeps, SameReel
  <2>3. ReelOk(z)  BY <1>3, <1>11, <1>14, <1>s, <2>2, RunningKept DEF ReelOk, Shape
  <2> QED BY <1>11, <1>12, <2>1, <2>3
<1> QED BY <1>13, <1>14

LEMMA ReelWaits ==
    ASSUME NEW u, Running(u), u.de = "playreel"
    PROVE  Ends(reel_wait(u))
<1>1. Shape(u) /\ TimerOk(u) /\ ReelOk(u) /\ TimerOwn(u) /\ doing(u) = u.de
  BY Runs DEF Running, Good
<1>c. ~u.torn => u.ncby = None  BY QuietParts
<1> DEFINE t == [take(u) EXCEPT !.reel.save = u.reel.pos]
           m == [t EXCEPT !.reel.loaded = FALSE, !.reel.by = None]
           n == want(m, {"RF_DATASRC"})
           e == opt_disable(n, {"REEL"})
           x == IF u.done THEN t ELSE u
           y == arm(x, "dxpcb_playreel")
<1>2. ASSUME u.done
      PROVE  /\ SameRest(u, t) /\ TimerOk(t) /\ t.set = FALSE /\ Shape(t) /\ Shape(take(u))
  <2>1. SameRest(u, take(u)) /\ TimerOk(take(u)) /\ take(u).set = FALSE /\ Shape(take(u))
    BY <1>1, <1>2, Taken, RestShape
  <2>2. SameRest(take(u), t) /\ SameTimer(take(u), t)
    BY <2>1 DEF Shape, Fields, SameRest, SameRun, SameTimer, SameText, SameMoves, SameReel
  <2>3. SameRest(u, t)  BY <2>1, <2>2, RestChain
  <2> HIDE DEF t
  <2>4. TimerOk(t) /\ t.set = FALSE  BY <2>1, <2>2, KeepsTimer DEF SameTimer
  <2> QED BY <1>1, <2>1, <2>3, <2>4, RestShape
<1>3. CASE ~u.reel.loaded \/ u.reel.len = 0
  <2>1. reel_wait(u) = yes(u)  BY <1>3 DEF reel_wait
  <2>2. ~u.torn => ~u.reel.loaded /\ ~u.set  BY <1>1, <1>3 DEF ReelOk, TimerOwn
  <2>3. Idle(u)  BY <2>2, QuietParts DEF Idle, Timed
  <2> QED BY <2>1, <2>3 DEF Ends, yes, Running
<1>4. CASE u.reel.loaded /\ u.reel.len # 0 /\ u.done /\ u.reel.save = u.reel.pos
  <2>1. reel_wait(u) = yes(e)  BY <1>4 DEF reel_wait
  <2>2. Shape(t) /\ SameRest(u, t) /\ TimerOk(t) /\ t.set = FALSE  BY <1>2, <1>4
  <2> HIDE DEF t
  <2>3. /\ SameRun(t, m) /\ SameTimer(t, m) /\ SameText(t, m) /\ SameMoves(t, m)
        /\ m.ncby = t.ncby /\ m.reel.loaded = FALSE /\ m.reel.by = None
        /\ DOMAIN m.reel = DOMAIN t.reel
    BY <2>2, ZenonT(60) DEF Shape, Fields, SameRun, SameTimer, SameText, SameMoves
  <2>4. Shape(m)  BY <2>2, <2>3 DEF Shape, SameRun
  <2> HIDE DEF m
  <2>5. Keeps(m, n)  BY <2>4, WantKeeps
  <2>6. Keeps(n, e)  BY <2>4, <2>5, KeepsShape, DisableKeeps
  <2>7. Keeps(m, e)  BY <2>5, <2>6, KeepsChain
  <2> HIDE DEF e
  <2>8. /\ SameRun(u, e) /\ SameText(u, e) /\ SameMoves(u, e) /\ e.ncby = u.ncby
        /\ SameTimer(t, e) /\ e.reel.loaded = FALSE /\ e.reel.by = None
        /\ DOMAIN e.reel = DOMAIN u.reel
    BY <2>2, <2>3, <2>7
    DEF Keeps, SameRest, SameRun, SameTimer, SameText, SameMoves, SameReel
  <2>9. ReelOk(e)  BY <1>1, <2>8 DEF ReelOk
  <2>10. TimerOk(e) /\ e.set = FALSE  BY <2>2, <2>8, KeepsTimer DEF SameTimer
  <2>11. Ends(yes(e))  BY <1>c, <2>8, <2>9, <2>10, WaitedEnds DEF Timed
  <2> QED BY <2>1, <2>11
<1>5. CASE u.reel.loaded /\ u.reel.len # 0 /\ ~(u.done /\ u.reel.save = u.reel.pos)
  <2>1. reel_wait(u) = no(y)  BY <1>5 DEF reel_wait
  <2>2. SameRest(u, u)  BY KeepsSelf, KeepsRest
  <2> HIDE DEF t
  <2>3. SameRest(u, x) /\ TimerOk(x) /\ Shape(x)  BY <1>1, <1>2, <2>2
  <2>4. ~u.torn => IF x.set THEN x.timers[1].by = me(u) ELSE TRUE
    BY <1>1, <1>2, <2>3 DEF TimerOwn
  <2>5. x.done = FALSE  BY <1>1, <1>2, <2>3 DEF TimerOk
  <2> HIDE DEF x
  <2>6. /\ SameRest(x, y) /\ TimerOk(y) /\ y.set = TRUE /\ y.done = FALSE
        /\ IF x.set THEN y.timers = x.timers ELSE y.timers[1].by = me(x)
    BY <2>3, <2>5, Armed DEF Callback
  <2>7. SameRest(u, y) /\ me(x) = me(u)
    BY <2>3, <2>6, RestChain, RunningKept DEF SameRest
  <2> HIDE DEF y
  <2>8. Ends(no(y))  BY <1>5, <2>4, <2>6, <2>7, WaitsOn DEF Timed
  <2> QED BY <2>1, <2>8
<1> QED BY <1>3, <1>4, <1>5

LEMMA ReelEnds ==
    ASSUME NEW u, Running(u), u.de = "playreel", NEW a
    PROVE  \A r \in dxp_playreel(u, a) : Ends(r)
<1>1. Ends(reel_wait(u))  BY ReelWaits
<1>2. ~u.reel.loaded => Ends(reel_wait(reel_start(u, a.who)))  BY ReelStart, ReelWaits
<1>3. \A r \in dxp_playreel(u, a) :
         r = reel_wait(u) \/ (~u.reel.loaded /\ r = reel_wait(reel_start(u, a.who)))
  BY Zenon DEF dxp_playreel
<1> QED BY <1>1, <1>2, <1>3

LEMMA CycleEnds ==
    ASSUME NEW u, Running(u), u.de = "cyclenc", NEW a
    PROVE  \A r \in dxp_cyclenc(u, a) : Ends(r)
<1>1. /\ Shape(u) /\ TimerOk(u) /\ ReelOk(u) /\ TimerOwn(u) /\ doing(u) = u.de
      /\ ~u.torn => ~u.reel.loaded
  BY Runs, QuietParts DEF Running, Good
<1>2. CASE ~u.done
  <2> DEFINE v == arm(u, "dxpcb_cyclenc")
  <2>1. /\ SameRest(u, v) /\ TimerOk(v) /\ v.set = TRUE /\ v.done = u.done
        /\ IF u.set THEN v.timers = u.timers ELSE v.timers[1].by = me(u)
    BY <1>1, Armed DEF Callback
  <2>2. ~u.torn /\ u.set => u.timers[1].by = me(u)  BY <1>1, <1>2 DEF TimerOwn
  <2>3. dxp_cyclenc(u, a) = {no(v)}  BY <1>2 DEF dxp_cyclenc
  <2> HIDE DEF v
  <2>4. Ends(no(v))  BY <1>2, <2>1, <2>2, WaitsOn DEF Timed
  <2> QED BY <2>3, <2>4
<1>3. CASE u.done
  <2> DEFINE at(c) == [IF u.nc = 0 /\ a.who = "grow" THEN nc_runall_setxparent(u) ELSE u
                           EXCEPT !.nc = c]
  <2>1. ASSUME NEW c PROVE Keeps(u, at(c))
    <3> DEFINE z == IF u.nc = 0 /\ a.who = "grow" THEN nc_runall_setxparent(u) ELSE u
    <3>1. Keeps(u, z)  BY <1>1, ShowKeeps, KeepsSelf
    <3>2. Shape(z)  BY <1>1, <3>1, KeepsShape
    <3> HIDE DEF z
    <3>3. Keeps(z, [z EXCEPT !.nc = c])
      BY <3>2 DEF Shape, Fields, Keeps, SameRun, SameTimer, SameText, SameMoves, SameReel
    <3> QED BY <3>1, <3>3, KeepsChain DEF z
  <2>2. ASSUME NEW v, Keeps(u, v), NEW c, NEW grow PROVE Keeps(u, show_class(v, c, grow).w)
    <3>1. Shape(v)  BY <1>1, <2>2, KeepsShape
    <3>2. Keeps(u, nc_runall_opaque(v)) /\ Keeps(u, nc_apply_opaque(v, c))
      BY <2>2, <3>1, ShowKeeps, KeepsChain
    <3>3. Keeps(u, nc_apply_opaque(nc_runall_setxparent(v), c))
      <4>1. Keeps(u, nc_runall_setxparent(v))  BY <2>2, <3>1, ShowKeeps, KeepsChain
      <4>2. Shape(nc_runall_setxparent(v))  BY <1>1, <4>1, KeepsShape
      <4> QED BY <4>1, <4>2, ShowKeeps, KeepsChain
    <3> QED BY <2>2, <3>2, <3>3 DEF show_class, yes, no
  <2>3. \A r \in dxp_cyclenc(u, a) : \E c, grow : r = cycled(u, show_class(at(c), c, grow), c)
    <3> DEFINE C == IF u.nc = -1 THEN {-1, next_class(u, 0)} ELSE {next_class(u, u.nc)}
               R(c) == {cycled(u, r, c) :
                           r \in {show_class(v, c, a.who = "grow") : v \in {at(c)}}}
    <3>1. dxp_cyclenc(u, a) = UNION {R(c) : c \in C}  BY <1>3, Zenon DEF dxp_cyclenc
    <3> HIDE DEF C
    <3>2. \A c : R(c) = {cycled(u, show_class(at(c), c, a.who = "grow"), c)}
      <4> HIDE DEF at
      <4> QED OBVIOUS
    <3> HIDE DEF R, at
    <3>3. ASSUME NEW r \in dxp_cyclenc(u, a)
          PROVE  \E c, grow : r = cycled(u, show_class(at(c), c, grow), c)
      <4>1. PICK c : r \in R(c)  BY <3>1
      <4>2. r = cycled(u, show_class(at(c), c, a.who = "grow"), c)  BY <3>2, <4>1
      <4> QED BY <4>2
    <3> QED BY <3>3
  <2>4. ASSUME NEW x, Keeps(u, x.w), NEW c PROVE Ends(cycled(u, x, c))
    <3>1. Running(x.w) /\ Shape(x.w) /\ x.w.done /\ x.w.set /\ TimerOk(x.w) /\ ReelOk(x.w)
      BY <1>1, <1>3, <2>4, KeepsRunning, KeepsShape
      DEF Keeps, SameTimer, TimerOk, Running, Good
    <3>2. SameRun(u, x.w)  BY <2>4 DEF Keeps
    <3>3. x.w.de = "cyclenc" /\ me(x.w) = me(u) /\ x.w.torn = u.torn
      BY <3>2, SameDoing DEF SameRun
    <3>4. CASE x.ret
      <4> DEFINE o == nc_runall_opaque(x.w)
                 m == [o EXCEPT !.nc = -1, !.ncby = None]
                 v == take(m)
      <4>1. Keeps(u, o)  BY <2>4, <3>1, ShowKeeps, KeepsChain
      <4>2. Shape(o) /\ Running(o) /\ o.de = "cyclenc"
        BY <1>1, <4>1, KeepsShape, KeepsRunning DEF Keeps, SameRun
      <4> HIDE DEF o
      <4>3. /\ SameRun(o, m) /\ SameTimer(o, m) /\ SameText(o, m) /\ SameMoves(o, m)
            /\ SameReel(o, m) /\ m.ncby = None
        BY <4>2 DEF Shape, Fields, SameRun, SameTimer, SameText, SameMoves, SameReel
      <4>4. TimerOk(m) /\ Shape(m) /\ m.done
        BY <1>3, <4>1, <4>2, <4>3, RunningKept
        DEF Shape, SameRun, SameReel, SameTimer, Keeps, Running, Good
      <4> HIDE DEF m
      <4>5. SameRest(m, v) /\ TimerOk(v) /\ v.set = FALSE  BY <4>4, Taken
      <4> HIDE DEF v
      <4>6. SameRun(o, v) /\ SameText(o, v) /\ SameMoves(o, v) /\ SameReel(o, v) /\ v.ncby = None
        BY <4>3, <4>5 DEF SameRest, SameRun, SameText, SameMoves, SameReel
      <4>7. ~o.torn => ~o.reel.loaded  BY <4>2, QuietParts
      <4>8. Ends(yes(v))  BY <4>2, <4>5, <4>6, <4>7, RunningKept, WaitedEnds DEF Timed, SameReel
      <4> QED BY <3>4, <4>8 DEF cycled, v, m, o
    <3>5. CASE ~x.ret
      <4> DEFINE S == (IF u.nc = 0 THEN {} ELSE x.w.seen) \cup {c}
                 m == [x.w EXCEPT !.seen = S, !.ncby = me(u)]
                 t == take(m)
                 v == arm(t, "dxpcb_cyclenc")
                 q == [x.w EXCEPT !.seen = S]
      <4>0. cycled(u, x, c) = no(v)  BY <3>5, Zenon DEF cycled
      <4> HIDE DEF S
      <4>1. /\ SameRun(x.w, m) /\ SameTimer(x.w, m) /\ SameText(x.w, m) /\ SameMoves(x.w, m)
            /\ SameReel(x.w, m) /\ m.ncby = me(u)
        BY <3>1, ZenonT(60) DEF Shape, Fields, SameRun, SameTimer, SameText, SameMoves, SameReel
      <4>2. TimerOk(m) /\ Shape(m) /\ m.done
        BY <3>1, <4>1, RunningKept DEF Shape, SameRun, SameReel, SameTimer
      <4> HIDE DEF m
      <4>3. SameRest(m, t) /\ TimerOk(t) /\ t.set = FALSE /\ Shape(t)
        BY <4>2, Taken, RestShape
      <4> HIDE DEF t
      <4>4. /\ SameRest(t, v) /\ TimerOk(v) /\ v.set = TRUE /\ v.done = t.done
            /\ v.timers[1].by = me(t)
        BY <4>3, Armed DEF Callback
      <4> HIDE DEF v
      <4>5. /\ SameRun(x.w, t) /\ SameRun(x.w, v) /\ SameText(x.w, v) /\ SameMoves(x.w, v)
            /\ SameReel(x.w, v) /\ v.ncby = me(u)
        BY <4>1, <4>3, <4>4 DEF SameRest, SameRun, SameText, SameMoves, SameReel
      <4>6. /\ RunOk(v) /\ TextOk(v) /\ MoveOk(v) /\ ReelOk(v) /\ doing(v) = "cyclenc"
            /\ me(v) = me(u) /\ me(t) = me(u) /\ v.active /\ v.cur # 0
        BY <3>1, <3>3, <4>5, RunningKept
      <4>7. v.done = FALSE  BY <4>3, <4>4 DEF TimerOk
      <4>8. TimerOwn(v)  BY <4>4, <4>6, <4>7 DEF TimerOwn
      <4>9. CycleOk(v)  BY <4>4, <4>5, <4>6 DEF CycleOk
      <4> QED BY <4>0, <4>4, <4>6, <4>8, <4>9 DEF Good, Ends, no
    <3> QED BY <3>4, <3>5
  <2>5. ASSUME NEW r \in dxp_cyclenc(u, a) PROVE Ends(r)
    <3>1. PICK c, grow : r = cycled(u, show_class(at(c), c, grow), c)  BY <2>3
    <3> QED BY <3>1, <2>1, <2>2, <2>4
  <2> QED BY <2>5
<1> QED BY <1>2, <1>3

-----------------------------------------------------------------------------
(* A frame.                                                                *)

(* Every action of dxtab[] keeps the world good, and has nothing left when *)
(* it says that it is done.                                                *)
LEMMA UpdateEnds ==
    ASSUME NEW u, Running(u)
    PROVE  \A r \in de_update(u, u.de, action(u)) : Ends(r)
<1> DEFINE a == action(u)
<1>1. a \in Action /\ u.de \in Directives  BY Runs
<1> HIDE DEF a
<1>2. SUFFICES \A r \in de_update(u, u.de, a) : Ends(r)  BY DEF a
<1>3. ASSUME u.de \notin Lasting
      PROVE  /\ \A r \in dxp_bird(u, a) : Ends(r)
             /\ \A r \in dxp_refocus(u, a) : Ends(r)
             /\ \A r \in dxp_camlook(u, a) : Ends(r)
             /\ \A r \in dxp_campos(u, a) : Ends(r)
             /\ \A r \in dxp_camuprot(u, a) : Ends(r)
             /\ \A r \in dxp_camsync(u, a) : Ends(r)
             /\ \A r \in dxp_nodesync(u, a) : Ends(r)
             /\ \A r \in dxp_focus(u, a) : Ends(r)
  BY <1>1, <1>3, PlainCamera
<1>4. ASSUME u.de \notin Lasting
      PROVE  /\ \A r \in dxp_exit(u, a) : Ends(r)
             /\ \A r \in dxp_cuban8(u, a) : Ends(r)
  BY <1>1, <1>4, PlainEnd
<1>5. ASSUME u.de \notin Lasting
      PROVE  /\ \A r \in dxp_selnode(u, a) : Ends(r)
             /\ \A r \in dxp_clrsn(u, a) : Ends(r)
             /\ \A r \in dxp_subsel(u, a) : Ends(r)
  BY <1>1, <1>5, PlainSelect
<1>6. ASSUME u.de \notin Lasting
      PROVE  /\ \A r \in dxp_hl(u, a) : Ends(r)
             /\ \A r \in dxp_selnc(u, a) : Ends(r)
  BY <1>1, <1>6, PlainShow
<1>7. ASSUME u.de \notin Lasting
      PROVE  /\ \A r \in dxp_opt(u, a) : Ends(r)
             /\ \A r \in dxp_vmode(u, a) : Ends(r)
             /\ \A r \in dxp_dmode(u, a) : Ends(r)
             /\ \A r \in dxp_pipemode(u, a) : Ends(r)
             /\ \A r \in dxp_panel(u, a) : Ends(r)
             /\ \A r \in dxp_pstick(u, a) : Ends(r)
  BY <1>1, <1>7, PlainState
<1>8. CASE u.de = "bird"
  <2>1. de_update(u, u.de, a) = dxp_bird(u, a)  BY <1>8 DEF de_update
  <2>2. u.de \notin Lasting  BY <1>8 DEF Lasting, Timed
  <2> QED BY <2>1, <2>2, <1>3
<1>9. CASE u.de = "camsync"
  <2>1. de_update(u, u.de, a) = dxp_camsync(u, a)  BY <1>9 DEF de_update
  <2>2. u.de \notin Lasting  BY <1>9 DEF Lasting, Timed
  <2> QED BY <2>1, <2>2, <1>3
<1>10. CASE u.de = "camlook"
  <2>1. de_update(u, u.de, a) = dxp_camlook(u, a)  BY <1>10 DEF de_update
  <2>2. u.de \notin Lasting  BY <1>10 DEF Lasting, Timed
  <2> QED BY <2>1, <2>2, <1>3
<1>11. CASE u.de = "campos"
  <2>1. de_update(u, u.de, a) = dxp_campos(u, a)  BY <1>11 DEF de_update
  <2>2. u.de \notin Lasting  BY <1>11 DEF Lasting, Timed
  <2> QED BY <2>1, <2>2, <1>3
<1>12. CASE u.de = "camuprot"
  <2>1. de_update(u, u.de, a) = dxp_camuprot(u, a)  BY <1>12 DEF de_update
  <2>2. u.de \notin Lasting  BY <1>12 DEF Lasting, Timed
  <2> QED BY <2>1, <2>2, <1>3
<1>13. CASE u.de = "clrsn"
  <2>1. de_update(u, u.de, a) = dxp_clrsn(u, a)  BY <1>13 DEF de_update
  <2>2. u.de \notin Lasting  BY <1>13 DEF Lasting, Timed
  <2> QED BY <2>1, <2>2, <1>5
<1>14. CASE u.de = "corkscrew"
  <2>1. de_update(u, u.de, a) = dxp_corkscrew(u, a)  BY <1>14 DEF de_update
  <2> QED BY <2>1, <1>14, <1>1, ScrewEnds
<1>15. CASE u.de = "cuban8"
  <2>1. de_update(u, u.de, a) = dxp_cuban8(u, a)  BY <1>15 DEF de_update
  <2>2. u.de \notin Lasting  BY <1>15 DEF Lasting, Timed
  <2> QED BY <2>1, <2>2, <1>4
<1>16. CASE u.de = "curlyq"
  <2>1. de_update(u, u.de, a) = dxp_curlyq(u, a)  BY <1>16 DEF de_update
  <2> QED BY <2>1, <1>16, <1>1, CurlyEnds
<1>17. CASE u.de = "cyclenc"
  <2>1. de_update(u, u.de, a) = dxp_cyclenc(u, a)  BY <1>17 DEF de_update
  <2> QED BY <2>1, <1>17, <1>1, CycleEnds
<1>18. CASE u.de = "dmode"
  <2>1. de_update(u, u.de, a) = dxp_dmode(u, a)  BY <1>18 DEF de_update
  <2>2. u.de \notin Lasting  BY <1>18 DEF Lasting, Timed
  <2> QED BY <2>1, <2>2, <1>7
<1>19. CASE u.de = "exit"
  <2>1. de_update(u, u.de, a) = dxp_exit(u, a)  BY <1>19 DEF de_update
  <2>2. u.de \notin Lasting  BY <1>19 DEF Lasting, Timed
  <2> QED BY <2>1, <2>2, <1>4
<1>20. CASE u.de = "focus"
  <2>1. de_update(u, u.de, a) = dxp_focus(u, a)  BY <1>20 DEF de_update
  <2>2. u.de \notin Lasting  BY <1>20 DEF Lasting, Timed
  <2> QED BY <2>1, <2>2, <1>3
<1>21. CASE u.de = "hl"
  <2>1. de_update(u, u.de, a) = dxp_hl(u, a)  BY <1>21 DEF de_update
  <2>2. u.de \notin Lasting  BY <1>21 DEF Lasting, Timed
  <2> QED BY <2>1, <2>2, <1>6
<1>22. CASE u.de = "move"
  <2>1. de_update(u, u.de, a) = dxp_cam_move(u, a)  BY <1>22 DEF de_update
  <2> QED BY <2>1, <1>22, <1>1, MoveEnds
<1>23. CASE u.de = "nodesync"
  <2>1. de_update(u, u.de, a) = dxp_nodesync(u, a)  BY <1>23 DEF de_update
  <2>2. u.de \notin Lasting  BY <1>23 DEF Lasting, Timed
  <2> QED BY <2>1, <2>2, <1>3
<1>24. CASE u.de = "opt"
  <2>1. de_update(u, u.de, a) = dxp_opt(u, a)  BY <1>24 DEF de_update
  <2>2. u.de \notin Lasting  BY <1>24 DEF Lasting, Timed
  <2> QED BY <2>1, <2>2, <1>7
<1>25. CASE u.de = "orbit"
  <2>1. de_update(u, u.de, a) = dxp_orbit(u, a)  BY <1>25 DEF de_update
  <2> QED BY <2>1, <1>25, <1>1, OrbitEnds
<1>26. CASE u.de = "panel"
  <2>1. de_update(u, u.de, a) = dxp_panel(u, a)  BY <1>26 DEF de_update
  <2>2. u.de \notin Lasting  BY <1>26 DEF Lasting, Timed
  <2> QED BY <2>1, <2>2, <1>7
<1>27. CASE u.de = "pipemode"
  <2>1. de_update(u, u.de, a) = dxp_pipemode(u, a)  BY <1>27 DEF de_update
  <2>2. u.de \notin Lasting  BY <1>27 DEF Lasting, Timed
  <2> QED BY <2>1, <2>2, <1>7
<1>28. CASE u.de = "pstick"
  <2>1. de_update(u, u.de, a) = dxp_pstick(u, a)  BY <1>28 DEF de_update
  <2>2. u.de \notin Lasting  BY <1>28 DEF Lasting, Timed
  <2> QED BY <2>1, <2>2, <1>7
<1>29. CASE u.de = "playreel"
  <2>1. de_update(u, u.de, a) = dxp_playreel(u, a)  BY <1>29 DEF de_update
  <2> QED BY <2>1, <1>29, <1>1, ReelEnds
<1>30. CASE u.de = "refocus"
  <2>1. de_update(u, u.de, a) = dxp_refocus(u, a)  BY <1>30 DEF de_update
  <2>2. u.de \notin Lasting  BY <1>30 DEF Lasting, Timed
  <2> QED BY <2>1, <2>2, <1>3
<1>31. CASE u.de = "refresh"
  <2>1. de_update(u, u.de, a) = dxp_refresh(u, a)  BY <1>31 DEF de_update
  <2> QED BY <2>1, <1>31, <1>1, RefreshEnds
<1>32. CASE u.de = "seljob"
  <2>1. de_update(u, u.de, a) = dxp_selnc(u, a)  BY <1>32 DEF de_update
  <2>2. u.de \notin Lasting  BY <1>32 DEF Lasting, Timed
  <2> QED BY <2>1, <2>2, <1>6
<1>33. CASE u.de = "selnode"
  <2>1. de_update(u, u.de, a) = dxp_selnode(u, a)  BY <1>33 DEF de_update
  <2>2. u.de \notin Lasting  BY <1>33 DEF Lasting, Timed
  <2> QED BY <2>1, <2>2, <1>5
<1>34. CASE u.de = "setcap"
  <2>1. de_update(u, u.de, a) = dxp_caption(u, a)  BY <1>34 DEF de_update
  <2> QED BY <2>1, <1>34, <1>1, CaptionEnds
<1>35. CASE u.de = "stall"
  <2>1. de_update(u, u.de, a) = dxp_stall(u, a)  BY <1>35 DEF de_update
  <2> QED BY <2>1, <1>35, <1>1, StallEnds
<1>36. CASE u.de = "subsel"
  <2>1. de_update(u, u.de, a) = dxp_subsel(u, a)  BY <1>36 DEF de_update
  <2>2. u.de \notin Lasting  BY <1>36 DEF Lasting, Timed
  <2> QED BY <2>1, <2>2, <1>5
<1>37. CASE u.de = "vmode"
  <2>1. de_update(u, u.de, a) = dxp_vmode(u, a)  BY <1>37 DEF de_update
  <2>2. u.de \notin Lasting  BY <1>37 DEF Lasting, Timed
  <2> QED BY <2>1, <2>2, <1>7
<1>38. CASE u.de = "winsp"
  <2>1. de_update(u, u.de, a) = dxp_winsp(u, a)  BY <1>38 DEF de_update
  <2> QED BY <2>1, <1>38, <1>1, SpacingEnds
<1>39. CASE u.de = "wioff"
  <2>1. de_update(u, u.de, a) = dxp_wioff(u, a)  BY <1>39 DEF de_update
  <2> QED BY <2>1, <1>39, <1>1, OffsetEnds
<1> QED BY <1>1, <1>8, <1>9, <1>10, <1>11, <1>12, <1>13, <1>14, <1>15, <1>16, <1>17, <1>18, <1>19, <1>20, <1>21, <1>22, <1>23, <1>24, <1>25, <1>26, <1>27, <1>28, <1>29, <1>30, <1>31, <1>32, <1>33, <1>34, <1>35, <1>36, <1>37, <1>38, <1>39 DEF Directives

(* Going from one action, or one script, to another: whatever is still     *)
(* kept must be nothing.                                                   *)
LEMMA Switch ==
    ASSUME NEW u, Good(u), NEW v, ~v.torn => ~u.torn /\ Idle(u), RunOk(v), SameTimer(u, v),
           SameMoves(u, v), SameReel(u, v), v.ncby = u.ncby, TextOk(v)
    PROVE  Good(v)
<1>1. TimerOk(v)  BY KeepsTimer DEF Good
<1>2. TimerOwn(v)  BY DEF TimerOwn, Idle, SameTimer
<1>3. MoveOk(v)
  <2>1. MoveOk(u)  BY DEF Good
  <2>2. ~v.torn => /\ Progress(v, v.orbit, {"orbit", "curlyq"})
                   /\ Progress(v, v.screw, {"corkscrew"}) /\ Progress(v, v.move, {"move"})
                   /\ Progress(v, v.winsp, {"winsp"}) /\ Progress(v, v.wioff, {"wioff"})
    BY <2>1 DEF MoveOk, Progress, Idle, SameMoves
  <2> QED BY <2>1, <2>2 DEF MoveOk, SameMoves
<1>4. ReelOk(v)  BY DEF ReelOk, Idle, SameReel, Good
<1>5. CycleOk(v)  BY DEF CycleOk, Idle
<1> QED BY <1>1, <1>2, <1>3, <1>4, <1>5 DEF Good

LEMMA Resting == ASSUME NEW u, Good(u), ~u.active \/ u.cur = 0 PROVE Idle(u)
<1>1. doing(u) = ""  BY DEF doing
<1>2. ~u.torn => ~u.set  BY <1>1 DEF Good, TimerOwn
<1>3. ~u.torn => u.cap = None  BY <1>1 DEF Good, TextOk
<1>4. ~u.torn => ~u.reel.loaded  BY <1>1 DEF Good, ReelOk
<1>5. ~u.torn => u.ncby = None  BY <1>1 DEF Good, CycleOk
<1>6. ~u.torn => /\ u.orbit.t = 0 /\ u.screw.t = 0 /\ u.move.t = 0
                 /\ u.winsp.t = 0 /\ u.wioff.t = 0
  BY <1>1 DEF Good, MoveOk, Progress
<1> QED BY <1>2, <1>3, <1>4, <1>5, <1>6 DEF Idle

(* dx_action and de only.                                                  *)
goto(u, c, de) == [u EXCEPT !.cur = c, !.de = de]

LEMMA MoveOn ==
    ASSUME NEW u, Good(u), u.active, Idle(u), NEW c \in 0 .. Len(dxlist(u)), NEW de,
           c # 0 /\ de # "" => de = dxlist(u)[c].do
    PROVE  /\ Good(goto(u, c, de)) /\ goto(u, c, de).active /\ goto(u, c, de).cur = c
           /\ goto(u, c, de).de = de /\ action(goto(u, c, de)) = dxlist(u)[c]
<1> DEFINE v == goto(u, c, de)
<1>s. Shape(u)  BY GoodShape
<1>1. /\ v.cur = c /\ v.de = de /\ DOMAIN v = DOMAIN u
      /\ v.fn = u.fn /\ v.built = u.built /\ v.parsed = u.parsed /\ v.gen = u.gen
      /\ v.active = u.active /\ v.freed = u.freed /\ v.run = u.run /\ v.torn = u.torn
      /\ SameTimer(u, v) /\ SameText(u, v) /\ SameMoves(u, v) /\ SameReel(u, v)
      /\ v.ncby = u.ncby
  BY <1>s, ZenonT(60) DEF goto, Shape, Fields, SameTimer, SameText, SameMoves, SameReel
<1> HIDE DEF v
<1>2. dxlist(u) \in Seq(Action)  BY ListType DEF Good, RunOk
<1>b. dxlist(v) = dxlist(u)  BY <1>1 DEF dxlist
<1>3. action(v) = dxlist(u)[c]  BY <1>1, <1>b DEF action
<1>a. Len(dxlist(u)) \in Nat  BY ONLY <1>2
<1>c. c \in 0 .. Len(dxlist(u))  OBVIOUS
<1>4. c \in Nat /\ c <= Len(dxlist(u))  BY ONLY <1>a, <1>c
<1>5. RunOk(v)  BY <1>1, <1>b, <1>3, <1>4 DEF Good, RunOk
<1>6. TextOk(v)
  <2>1. TextOk(u)  BY DEF Good
  <2>2. ~u.torn => u.cap = None  BY DEF Idle
  <2> QED BY <1>1, <2>1, <2>2 DEF TextOk, SameText
<1>7. Good(v)  BY <1>1, <1>5, <1>6, Switch
<1> QED BY <1>1, <1>3, <1>7 DEF v

LEMMA NextGood ==
    ASSUME NEW u, Good(u), u.active, u.cur # 0, Idle(u)
    PROVE  Good(dx_next(u))
<1>1. dxlist(u) \in Seq(Action) /\ u.cur \in Nat /\ u.cur <= Len(dxlist(u)) /\ Shape(u)
  BY ListType, GoodShape DEF Good, RunOk
<1> DEFINE c == IF u.cur = Len(dxlist(u)) THEN 0 ELSE u.cur + 1
<1>2. c \in 0 .. Len(dxlist(u))  BY <1>1
<1>3. dx_next(u) = goto(u, c, "")  BY DEF dx_next, goto
<1> HIDE DEF c
<1>4. c # 0 /\ "" # "" => "" = dxlist(u)[c].do  OBVIOUS
<1>5. Good(goto(u, c, ""))  BY <1>2, <1>4, MoveOn
<1> QED BY <1>3, <1>5

(* A frame that runs an action runs the one it was at, or the first.       *)
LEMMA FrameRuns ==
    ASSUME NEW u, Good(u), u.active, ~has(u, "STOP"), ~(u.cur = 0 /\ dxlist(u) = <<>>)
    PROVE  \E x :
              /\ Running(x)
              /\ \E f : x = goto(u, IF u.cur = 0 THEN 1 ELSE u.cur, f)
              /\ dx_update(u) =
                    {IF r.ret THEN dx_next(r.w) ELSE r.w : r \in de_update(x, x.de, action(x))}
<1> DEFINE i == IF u.cur = 0 THEN 1 ELSE u.cur
           f == IF u.cur = 0 \/ u.de = "" THEN dxlist(u)[i].do ELSE u.de
           x == [u EXCEPT !.cur = i, !.de = f]
<1>1. dx_update(u) = {IF r.ret THEN dx_next(r.w) ELSE r.w : r \in de_update(x, x.de, action(x))}
  <2>1. dx_update(u) = {IF r.ret THEN dx_next(r.w) ELSE r.w :
                           r \in UNION {de_update(y, y.de, action(y)) : y \in {x}}}
    BY Zenon DEF dx_update
  <2> HIDE DEF x
  <2>2. UNION {de_update(y, y.de, action(y)) : y \in {x}} = de_update(x, x.de, action(x))
    OBVIOUS
  <2> QED BY <2>1, <2>2
<1>2. dxlist(u) \in Seq(Action) /\ u.cur \in Nat /\ u.cur <= Len(dxlist(u)) /\ Shape(u)
  BY ListType, GoodShape DEF Good, RunOk
<1>3. u.cur = 0 => Len(dxlist(u)) # 0  BY <1>2
<1>4. i \in 1 .. Len(dxlist(u))
  <2>1. Len(dxlist(u)) \in Nat  BY <1>2
  <2> QED BY <1>2, <1>3, <2>1
<1>5. u.cur # 0 /\ u.de # "" => u.de = dxlist(u)[u.cur].do  BY DEF Good, RunOk, action
<1>6. f = dxlist(u)[i].do  BY <1>5
<1>7. Running(x)
  <2>1. CASE u.cur = 0
    <3>1. Idle(u)  BY <2>1, Resting
    <3>2. x = goto(u, i, f)  BY DEF goto
    <3>3. i \in 0 .. Len(dxlist(u)) /\ i # 0  BY <1>4
    <3> HIDE DEF i, f, x
    <3>4. /\ Good(goto(u, i, f)) /\ goto(u, i, f).active /\ goto(u, i, f).cur = i
          /\ goto(u, i, f).de = f /\ action(goto(u, i, f)) = dxlist(u)[i]
      <4>1. i # 0 /\ f # "" => f = dxlist(u)[i].do  BY <1>6
      <4>2. i \in 0 .. Len(dxlist(u))  BY <3>3
      <4>3. \A c \in 0 .. Len(dxlist(u)) : \A de :
               (c # 0 /\ de # "" => de = dxlist(u)[c].do) =>
               /\ Good(goto(u, c, de)) /\ goto(u, c, de).active /\ goto(u, c, de).cur = c
               /\ goto(u, c, de).de = de /\ action(goto(u, c, de)) = dxlist(u)[c]
        BY <3>1, MoveOn
      <4> QED BY <4>1, <4>2, <4>3
    <3> QED BY <1>6, <3>2, <3>3, <3>4 DEF Running
  <2>2. CASE u.cur # 0
    <3>1. i = u.cur  BY <2>2
    <3> HIDE DEF i, f
    <3>2. /\ DOMAIN x = DOMAIN u /\ x.cur = u.cur /\ x.de = f
          /\ x.fn = u.fn /\ x.built = u.built /\ x.parsed = u.parsed /\ x.gen = u.gen
          /\ x.active = u.active /\ x.freed = u.freed /\ x.run = u.run /\ x.torn = u.torn
          /\ SameTimer(u, x) /\ SameText(u, x) /\ SameMoves(u, x) /\ SameReel(u, x)
          /\ x.ncby = u.ncby
      BY <3>1, <1>2, ZenonT(60) DEF Shape, Fields, SameTimer, SameText, SameMoves, SameReel
    <3> HIDE DEF x
    <3>3. action(x) = action(u) /\ dxlist(x) = dxlist(u) /\ f = action(u).do
      BY <1>6, <3>1, <3>2 DEF action, dxlist
    <3>4. doing(x) = doing(u) /\ me(x) = me(u)  BY <3>2, <3>3 DEF doing, me
    <3>5. RunOk(x)  BY <3>2, <3>3 DEF RunOk, Good
    <3>6. TimerOk(x)  BY <3>2, KeepsTimer DEF Good
    <3>7. TimerOwn(x)  BY <3>2, <3>4 DEF Good, TimerOwn, SameTimer, SameReel
    <3>8. TextOk(x)  BY <3>2, <3>4 DEF Good, TextOk, SameText
    <3>9. MoveOk(x)  BY <3>2, <3>4 DEF Good, MoveOk, Progress, SameMoves
    <3>10. ReelOk(x)  BY <3>2, <3>4 DEF Good, ReelOk, SameReel
    <3>11. CycleOk(x)  BY <3>2, <3>4 DEF Good, CycleOk, SameTimer
    <3> QED BY <2>2, <3>2, <3>3, <3>5, <3>6, <3>7, <3>8, <3>9, <3>10, <3>11
        DEF Running, Good
  <2> QED BY <2>1, <2>2
<1>8. x = goto(u, i, f)  BY DEF goto
<1> HIDE DEF x, f
<1> QED BY <1>1, <1>7, <1>8

LEMMA FrameGood ==
    ASSUME NEW u, Good(u), u.active
    PROVE  \A v \in dx_update(u) : Good(v)
<1>1. CASE has(u, "STOP") \/ (u.cur = 0 /\ dxlist(u) = <<>>)
  BY <1>1 DEF dx_update
<1>2. CASE ~has(u, "STOP") /\ ~(u.cur = 0 /\ dxlist(u) = <<>>)
  <2>1. PICK x : /\ Running(x)
                 /\ dx_update(u) = {IF r.ret THEN dx_next(r.w) ELSE r.w :
                                       r \in de_update(x, x.de, action(x))}
    BY <1>2, FrameRuns
  <2>2. \A r \in de_update(x, x.de, action(x)) : Ends(r)  BY <2>1, UpdateEnds
  <2> QED BY <2>1, <2>2, NextGood DEF Ends
<1> QED BY <1>1, <1>2

LEMMA TweenKeeps == ASSUME NEW u, Shape(u) PROVE Keeps(u, tween_update(u))
BY DEF tween_update, Shape, Fields, Keeps, SameRun, SameTimer, SameText, SameMoves, SameReel

LEMMA RebuildGood == ASSUME NEW u, Good(u) PROVE \A v \in rebuild(u) : Good(v)
<1>s. Shape(u)  BY GoodShape
<1>1. ASSUME NEW A, NEW F, NEW c \in {u.caption, None}, NEW d, NEW e, NEW s, NEW h
      PROVE  Good([u EXCEPT !.far = A, !.rf = F, !.caption = c, !.data = d, !.fetched = e,
                            !.seen = s, !.hid = h])
  <2> DEFINE x == [u EXCEPT !.far = A, !.rf = F, !.caption = c, !.data = d, !.fetched = e,
                            !.seen = s, !.hid = h]
  <2>1. /\ SameRun(u, x) /\ SameTimer(u, x) /\ SameMoves(u, x) /\ SameReel(u, x)
        /\ x.ncby = u.ncby /\ x.caption = c /\ x.cap = u.cap /\ x.capby = u.capby
        /\ x.oldcap = u.oldcap /\ x.kept = u.kept
    BY <1>s DEF Shape, Fields, SameRun, SameTimer, SameMoves, SameReel
  <2> HIDE DEF x
  <2>2. doing(x) = doing(u) /\ me(x) = me(u)  BY <2>1, SameDoing
  <2>3. TextOk(x)  BY <1>1, <2>1, <2>2 DEF TextOk, Good, SameRun
  <2>4. Good(x)
    BY <2>1, <2>3, KeepsRun, KeepsTimer, KeepsTimerOwn, KeepsMoves, KeepsReel, KeepsCycle
    DEF Good, SameTimer, SameReel
  <2> QED BY <2>4 DEF x
<1>2. ASSUME NEW A, NEW F PROVE Good([u EXCEPT !.far = A, !.rf = F])
  <2>0. u.caption \in {u.caption, None}  OBVIOUS
  <2>2. Good([u EXCEPT !.far = A, !.rf = F, !.caption = u.caption, !.data = u.data,
                      !.fetched = u.fetched, !.seen = u.seen, !.hid = u.hid])
    BY ONLY <1>1, <2>0
  <2>1. [u EXCEPT !.far = A, !.rf = F] =
            [u EXCEPT !.far = A, !.rf = F, !.caption = u.caption, !.data = u.data,
                      !.fetched = u.fetched, !.seen = u.seen, !.hid = u.hid]
    BY <1>s DEF Shape, Fields
  <2> QED BY <2>1, <2>2
<1>3. ASSUME NEW A, NEW F, NEW d, NEW s, NEW h
      PROVE  Good([[u EXCEPT !.far = A, !.rf = F] EXCEPT !.caption = None, !.data = d,
                             !.fetched = TRUE, !.seen = s, !.hid = h])
  <2>0. None \in {u.caption, None}  OBVIOUS
  <2>2. Good([u EXCEPT !.far = A, !.rf = F, !.caption = None, !.data = d,
                             !.fetched = TRUE, !.seen = s, !.hid = h])
    BY ONLY <1>1, <2>0
  <2>1. [[u EXCEPT !.far = A, !.rf = F] EXCEPT !.caption = None, !.data = d,
                             !.fetched = TRUE, !.seen = s, !.hid = h] =
            [u EXCEPT !.far = A, !.rf = F, !.caption = None, !.data = d,
                             !.fetched = TRUE, !.seen = s, !.hid = h]
    BY <1>s DEF Shape, Fields
  <2> QED BY <2>1, <2>2
<1> DEFINE moving == has(u, "NODEANIM") /\ u.st.vmode # "wired"
           G == u.rf \cup (IF "RF_DATASRC" \in u.rf THEN {"RF_VMODE"} ELSE {})
           far == IF ~moving THEN 0 ELSE IF "RF_VMODE" \in G THEN Frames ELSE u.far
           step == moving /\ G # {} /\ far > 0 /\ ~has(u, "STOP")
           AA == IF step THEN far - 1 ELSE far
           FF == IF step THEN {"RF_CLUSTER"} ELSE {}
           b == [u EXCEPT !.far = AA, !.rf = FF]
           S == IF u.reel.loaded THEN b.seen \cup {u.reel.pos} ELSE b.seen
           H(d) == {c \in b.hid : c[1] # "job" \/ c[2] < NSC + d.jobs}
           g(d) == [b EXCEPT !.caption = None, !.data = d, !.fetched = TRUE, !.seen = S,
                             !.hid = H(d)]
<1>4. rebuild(u) = IF "RF_DATASRC" \notin G THEN {b} ELSE {g(d) : d \in Data}
  BY DEF rebuild
<1>5. Good(b)
  <2> HIDE DEF AA, FF
  <2> QED BY <1>2
<1>6. ASSUME NEW d PROVE Good(g(d))
  <2> DEFINE q(s, h) == [[u EXCEPT !.far = AA, !.rf = FF] EXCEPT !.caption = None, !.data = d,
                             !.fetched = TRUE, !.seen = s, !.hid = h]
  <2>1. g(d) = q(S, H(d))  OBVIOUS
  <2> HIDE DEF AA, FF, S, H
  <2>2. \A s, h : Good(q(s, h))  BY <1>3
  <2> HIDE DEF g, q
  <2> QED BY <2>1, <2>2
<1> HIDE DEF b, g, G
<1> QED BY <1>4, <1>5, <1>6

-----------------------------------------------------------------------------
(* A timer, and the keys.                                                  *)

LEMMA FrameStep == ASSUME Good(w), frame PROVE Good(w')
<1>1. PICK v \in {tween_update(u) : u \in IF w.active THEN dx_update(w) ELSE {w}} :
         w' \in rebuild(v)
  BY DEF frame
<1>2. PICK u \in IF w.active THEN dx_update(w) ELSE {w} : v = tween_update(u)  BY <1>1
<1>3. Good(u)  BY <1>2, FrameGood
<1>4. Good(v)  BY <1>2, <1>3, GoodShape, TweenKeeps, KeepsGood
<1> QED BY <1>1, <1>4, RebuildGood

LEMMA RemoveOnly == ASSUME NEW t PROVE RemoveAt(<<t>>, 1) = <<>>
BY DEF RemoveAt

LEMMA ExpiredGood ==
    ASSUME NEW u, Good(u), NEW i \in DOMAIN u.timers,
           NEW v, v = expire([u EXCEPT !.timers = RemoveAt(@, i)], u.timers[i])
    PROVE  Good(v)
<1>s. Shape(u) /\ TimerOk(u)  BY GoodShape DEF Good
<1>1. u.timers # <<>>
  <2>1. DOMAIN (<<>>) = {}  OBVIOUS
  <2> QED BY <2>1
<1>2. u.set /\ ~u.done /\ u.timers = <<u.timers[1]>>  BY <1>s, <1>1 DEF TimerOk
<1>3. i = 1
  <2> DEFINE t == u.timers[1]
  <2>1. u.timers = <<t>>  BY <1>2
  <2> HIDE DEF t
  <2>2. DOMAIN <<t>> = {1}  OBVIOUS
  <2> QED BY <2>1, <2>2
<1>4. RemoveAt(u.timers, i) = <<>>  BY <1>2, <1>3, RemoveOnly
<1>5. /\ SameRest(u, v) /\ v.done = TRUE /\ v.set = u.set /\ v.by = u.timers[1].by
      /\ v.timers = RemoveAt(u.timers, i)
  BY <1>s, <1>3 DEF expire, Shape, Fields, SameRest, SameRun, SameText, SameMoves, SameReel
<1>6. TimerOk(v)  BY <1>2, <1>4, <1>5, <1>s DEF TimerOk
<1>7. doing(v) = doing(u) /\ me(v) = me(u)  BY <1>5, SameDoing DEF SameRest
<1>8. TimerOwn(v)
  BY <1>2, <1>5, <1>7 DEF Good, TimerOwn, SameRest, SameReel, SameRun
<1> QED BY <1>5, <1>6, <1>8, KeepsRun, KeepsText, KeepsMoves, KeepsReel, KeepsCycle
    DEF Good, SameRest

(* What an expired timer leaves: u, and what the callback makes of it.     *)
LEMMA Expiry ==
    ASSUME Good(w), timer
    PROVE  /\ w.set /\ ~w.done /\ w.timers[1].cb \in Callback
           /\ \E u :
                 /\ Good(u) /\ SameRun(w, u) /\ SameMoves(w, u) /\ u.reel = w.reel
                 /\ u.set = w.set /\ u.done = TRUE /\ u.st = w.st /\ u.saved = w.saved
                 /\ u.base = w.base /\ u.nc = w.nc /\ u.data = w.data /\ u.seen = w.seen
                 /\ u.fetched = w.fetched /\ u.rf = w.rf
                 /\ w.timers[1].cb = "dxpcb_stall" => w' = u
                 /\ w.timers[1].cb = "dxpcb_playreel" => w' = reel_advance(u)
                 /\ w.timers[1].cb = "dxpcb_cyclenc" =>
                       w' = [u EXCEPT !.nc = IF @ < MaxClass THEN @ + 1 ELSE @,
                                      !.fetched = IF u.nc = -1 THEN FALSE ELSE @]
<1>s. Shape(w)  BY GoodShape
<1>1. PICK i \in DOMAIN w.timers :
         LET t == w.timers[i]
             u == expire([w EXCEPT !.timers = RemoveAt(@, i)], t)
         IN  w' = CASE t.cb = "dxpcb_stall"    -> u
                    [] t.cb = "dxpcb_playreel" -> reel_advance(u)
                    [] t.cb = "dxpcb_cyclenc"  ->
                         [u EXCEPT !.nc = IF @ < MaxClass THEN @ + 1 ELSE @,
                                   !.fetched = IF u.nc = -1 THEN FALSE ELSE @]
  BY DEF timer
<1> DEFINE t == w.timers[i]
           u == expire([w EXCEPT !.timers = RemoveAt(@, i)], t)
           F == IF u.nc = -1 THEN FALSE ELSE u.fetched
           c == [u EXCEPT !.nc = IF @ < MaxClass THEN @ + 1 ELSE @, !.fetched = F]
<1>2. Good(u)  BY ExpiredGood
<1>3. /\ w.set /\ ~w.done /\ t = w.timers[1] /\ t.cb \in Callback
  <2>1. w.timers # <<>>
    <3>1. DOMAIN (<<>>) = {}  OBVIOUS
    <3> QED BY <3>1
  <2>2. /\ w.set /\ ~w.done /\ w.timers = <<w.timers[1]>> /\ w.timers[1].cb \in Callback
    BY <2>1 DEF Good, TimerOk
  <2>3. i = 1
    <3> DEFINE s == w.timers[1]
    <3>1. w.timers = <<s>>  BY <2>2
    <3> HIDE DEF s
    <3>2. DOMAIN <<s>> = {1}  OBVIOUS
    <3> QED BY <3>1, <3>2
  <2> QED BY <2>2, <2>3
<1>4. /\ SameRun(w, u) /\ SameMoves(w, u) /\ u.reel = w.reel /\ u.set = w.set
      /\ u.done = TRUE /\ u.st = w.st /\ u.saved = w.saved /\ u.base = w.base
      /\ u.nc = w.nc /\ u.data = w.data /\ u.seen = w.seen /\ u.fetched = w.fetched
      /\ u.rf = w.rf
  <2> HIDE DEF t
  <2> QED BY <1>s DEF expire, Shape, Fields, SameRun, SameMoves
<1>5. /\ t.cb = "dxpcb_stall" => w' = u
      /\ t.cb = "dxpcb_playreel" => w' = reel_advance(u)
      /\ t.cb = "dxpcb_cyclenc" => w' = c
  <2> HIDE DEF u
  <2> QED BY <1>1, <1>3 DEF Callback, u
<1> HIDE DEF t, u
<1> QED BY <1>2, <1>3, <1>4, <1>5

LEMMA TimerStep == ASSUME Good(w), timer PROVE Good(w') /\ w'.cur = w.cur
<1>1. PICK u :
         /\ Good(u) /\ SameRun(w, u)
         /\ w.timers[1].cb = "dxpcb_stall" => w' = u
         /\ w.timers[1].cb = "dxpcb_playreel" => w' = reel_advance(u)
         /\ w.timers[1].cb = "dxpcb_cyclenc" =>
               w' = [u EXCEPT !.nc = IF @ < MaxClass THEN @ + 1 ELSE @,
                              !.fetched = IF u.nc = -1 THEN FALSE ELSE @]
  BY Expiry
<1> DEFINE F == IF u.nc = -1 THEN FALSE ELSE u.fetched
           N == IF u.nc < MaxClass THEN u.nc + 1 ELSE u.nc
           c == [u EXCEPT !.nc = N, !.fetched = F]
<1>2. w' = u \/ w' = reel_advance(u) \/ w' = c  BY <1>1, Expiry DEF Callback
<1> HIDE DEF F, N
<1>3. Keeps(u, reel_advance(u))  BY <1>1, GoodShape, AdvanceKeeps
<1>4. Keeps(u, c)
  BY <1>1, GoodShape DEF Shape, Fields, Keeps, SameRun, SameTimer, SameText, SameMoves, SameReel
<1> HIDE DEF c
<1>5. Keeps(u, w')  BY <1>2, <1>3, <1>4, KeepsSelf
<1> QED BY <1>1, <1>5, KeepsGood DEF Keeps, SameRun

LEMMA LoadStateKeeps == ASSUME NEW u, Shape(u), NEW s PROVE Keeps(u, load_state(u, s))
<1> DEFINE F == (IF s.dmode # u.st.dmode THEN {"RF_DMODE"} ELSE {})
                \cup (IF s.vmode # u.st.vmode THEN {"RF_VMODE"} ELSE {})
                \cup (IF s.pipemode # u.st.pipemode THEN {"RF_CLUSTER"} ELSE {})
                \cup (IF s.winsp # u.st.winsp \/ s.wioff # u.st.wioff
                      THEN {"RF_CLUSTER", "RF_VMODE"} ELSE {})
           b == [u EXCEPT !.st = [s EXCEPT !.opts = u.st.opts], !.rf = F]
           D == (u.st.opts \ s.opts) \cup (s.opts \ u.st.opts)
           v == opt_flip(b, D)
           A == IF "TWEEN" \in s.opts THEN Frames ELSE v.away
           x == [v EXCEPT !.away = A]
<1>1. load_state(u, s) = x  BY DEF load_state
<1> HIDE DEF F
<1>2. Keeps(u, b)
  BY DEF Shape, Fields, Keeps, SameRun, SameTimer, SameText, SameMoves, SameReel
<1> HIDE DEF b, D
<1>3. Keeps(u, v)  BY <1>2, KeepsShape, FlipKeeps, KeepsChain
<1>4. Shape(v)  BY <1>3, KeepsShape
<1> HIDE DEF v, A
<1>5. Keeps(v, x)
  BY <1>4 DEF Shape, Fields, Keeps, SameRun, SameTimer, SameText, SameMoves, SameReel
<1> HIDE DEF x
<1> QED BY <1>1, <1>3, <1>5, KeepsChain

LEMMA EndGood == ASSUME NEW u, Good(u), u.active PROVE Good(dx_end(u))
<1>s. Shape(u)  BY GoodShape
<1> DEFINE b == [u EXCEPT !.active = FALSE]
           l == load_state(b, u.saved)
           T == l.torn \/ unfinished(u)
           K == l.kept \cup ({u.cap} \ {None})
           v == [l EXCEPT !.caption = u.oldcap, !.torn = T, !.kept = K]
<1>1. dx_end(u) = v  BY DEF dx_end
<1>2. /\ DOMAIN b = DOMAIN u /\ b.active = FALSE
      /\ b.fn = u.fn /\ b.built = u.built /\ b.parsed = u.parsed /\ b.gen = u.gen
      /\ b.cur = u.cur /\ b.de = u.de /\ b.freed = u.freed /\ b.run = u.run
      /\ b.torn = u.torn /\ SameTimer(u, b) /\ SameText(u, b) /\ SameMoves(u, b)
      /\ SameReel(u, b) /\ b.ncby = u.ncby
  BY <1>s DEF Shape, Fields, SameTimer, SameText, SameMoves, SameReel
<1>3. Shape(b)  BY <1>2, <1>s DEF Shape, SameReel
<1> HIDE DEF b
<1>4. Keeps(b, l)  BY <1>3, LoadStateKeeps
<1>5. Shape(l)  BY <1>3, <1>4, KeepsShape
<1> HIDE DEF l
<1>6. T \in BOOLEAN /\ (T <=> u.torn \/ unfinished(u))
  BY <1>2, <1>4 DEF Keeps, SameRun
<1>k. K = u.kept \cup ({u.cap} \ {None})
  BY <1>2, <1>4 DEF Keeps, SameText
<1> HIDE DEF T, K
<1>7. /\ DOMAIN v = DOMAIN l /\ v.active = l.active /\ v.kept = K
      /\ v.fn = l.fn /\ v.built = l.built /\ v.parsed = l.parsed /\ v.gen = l.gen
      /\ v.cur = l.cur /\ v.de = l.de /\ v.freed = l.freed /\ v.run = l.run
      /\ v.torn = T /\ SameTimer(l, v) /\ v.cap = l.cap /\ v.capby = l.capby
      /\ v.oldcap = l.oldcap /\ v.caption = u.oldcap /\ SameMoves(l, v)
      /\ SameReel(l, v) /\ v.ncby = l.ncby
  BY <1>5 DEF Shape, Fields, SameTimer, SameMoves, SameReel
<1> HIDE DEF v
<1>8. /\ DOMAIN v = DOMAIN u /\ v.active = FALSE /\ v.kept = u.kept \cup ({u.cap} \ {None})
      /\ v.fn = u.fn /\ v.built = u.built /\ v.parsed = u.parsed /\ v.gen = u.gen
      /\ v.cur = u.cur /\ v.de = u.de /\ v.freed = u.freed /\ v.run = u.run
      /\ v.torn = T /\ SameTimer(u, v) /\ v.cap = u.cap /\ v.capby = u.capby
      /\ v.oldcap = u.oldcap /\ v.caption = u.oldcap /\ SameMoves(u, v)
      /\ SameReel(u, v) /\ v.ncby = u.ncby
  BY <1>2, <1>4, <1>7, <1>k DEF Keeps, SameRun, SameTimer, SameText, SameMoves, SameReel
<1>9. RunOk(v)  BY <1>6, <1>8 DEF Good, RunOk
<1>10. ~v.torn => /\ ~u.torn /\ ~u.set /\ u.cap = None /\ ~u.reel.loaded
                  /\ u.orbit.t = 0 /\ u.screw.t = 0 /\ u.move.t = 0
                  /\ u.winsp.t = 0 /\ u.wioff.t = 0
  BY <1>6, <1>8 DEF unfinished
<1>11. ~v.torn => Idle(u)  BY <1>10 DEF Idle, Good, CycleOk
<1>12. TextOk(v)
  <2>1. TextOk(u)  BY DEF Good
  <2>2. ~v.torn => ~u.torn /\ u.cap = None  BY <1>10
  <2>3. {v.caption, v.cap, v.oldcap} \subseteq {None} \cup v.kept  BY <1>8, <2>1 DEF TextOk
  <2> QED BY <1>8, <2>1, <2>2, <2>3 DEF TextOk
<1>13. Good(v)  BY <1>8, <1>9, <1>10, <1>11, <1>12, Switch
<1> QED BY <1>1, <1>13

LEMMA StartGood ==
    ASSUME NEW u, Good(u), ~u.active
    PROVE  Good(dx_start(u))
<1>s. Shape(u) /\ Idle(u)  BY GoodShape, Resting
<1>t. /\ {u.caption, u.cap, u.oldcap} \subseteq {None} \cup u.kept
      /\ ~u.torn => u.cap = None /\ u.capby = None
  BY <1>s DEF Good, TextOk, Idle
<1>0. u.fn \in DOMAIN Scripts /\ u.fn # 0
  <2>1. u.fn \in DOMAIN Scripts  BY DEF Good, RunOk
  <2>2. Scripts \in Seq(Seq(Command))  BY DeusExAssumption
  <2>3. 0 \notin DOMAIN Scripts  BY ONLY <2>2
  <2> QED BY ONLY <2>1, <2>3
<1> DEFINE p == [u EXCEPT !.parsed = u.fn, !.gen = @ + 1, !.freed = u.cur # 0]
           q == [p EXCEPT !.built = TRUE]
<1>1. ASSUME NEW x, Shape(x), x.torn = u.torn, x.fn = u.fn, x.parsed = u.fn, x.built = TRUE,
             x.gen \in Nat, x.run = u.run, SameTimer(u, x), SameText(u, x), SameMoves(u, x),
             SameReel(u, x), x.ncby = u.ncby
      PROVE  Good(start(x))
  <2> DEFINE v == start(x)
  <2>1. /\ DOMAIN v = Fields /\ v.active = TRUE /\ v.cur = 0 /\ v.freed = FALSE
        /\ v.run = x.run + 1 /\ v.oldcap = x.caption /\ v.caption = x.caption
        /\ v.cap = x.cap /\ v.capby = x.capby
        /\ v.torn = x.torn /\ v.fn = x.fn /\ v.parsed = x.parsed /\ v.built = x.built
        /\ v.gen = x.gen /\ SameTimer(x, v) /\ SameMoves(x, v) /\ SameReel(x, v)
        /\ v.ncby = x.ncby /\ v.kept = x.kept
    BY <1>1 DEF start, Shape, Fields, SameTimer, SameMoves, SameReel
  <2> HIDE DEF v
  <2>2. SameTimer(u, v) /\ SameMoves(u, v) /\ v.ncby = u.ncby /\ v.torn = u.torn
    BY <1>1, <2>1 DEF SameTimer, SameMoves
  <2>3. SameReel(u, v)  BY <1>1, <2>1 DEF SameReel
  <2>4. Len(dxlist(v)) \in Nat
    <3>1. dxlist(v) \in Seq(Action)  BY <1>0, <1>1, <2>1, ListType
    <3> QED BY <3>1
  <2>a. u.run \in Nat /\ {u.torn} \subseteq BOOLEAN  BY DEF Good, RunOk
  <2>b. u.run + 1 \in Nat /\ 0 \in Nat /\ 0 <= Len(dxlist(v))  BY ONLY <2>a, <2>4
  <2>5. RunOk(v)  BY <1>0, <1>1, <2>1, <2>a, <2>b DEF RunOk
  <2>6. TextOk(v)  BY <1>1, <1>t, <2>1 DEF TextOk, SameText
  <2>7. Good(v)  BY <1>s, <2>2, <2>3, <2>5, <2>6, Switch
  <2> QED BY <2>7 DEF v
<1>2. CASE u.built
  <2>1. dx_start(u) = start(u)  BY <1>2 DEF dx_start
  <2>2. u.parsed = u.fn /\ u.built = TRUE /\ u.gen \in Nat  BY <1>2 DEF Good, RunOk
  <2>3. SameTimer(u, u) /\ SameText(u, u) /\ SameMoves(u, u) /\ SameReel(u, u)
    BY KeepsSelf DEF Keeps
  <2> QED BY <1>1, <1>s, <2>1, <2>2, <2>3
<1>3. /\ DOMAIN p = Fields /\ p.active = u.active /\ p.cur = u.cur /\ p.freed = (u.cur # 0)
      /\ p.run = u.run /\ p.torn = u.torn /\ p.fn = u.fn /\ p.parsed = u.fn
      /\ p.built = u.built /\ p.gen = u.gen + 1 /\ p.de = u.de
      /\ SameTimer(u, p) /\ SameText(u, p) /\ SameMoves(u, p) /\ SameReel(u, p)
      /\ p.ncby = u.ncby
  BY <1>s DEF Shape, Fields, SameTimer, SameText, SameMoves, SameReel
<1>h. u.gen \in Nat  BY DEF Good, RunOk
<1>g. u.gen \in Nat /\ u.gen + 1 \in Nat  BY ONLY <1>h
<1>4. CASE ~u.built /\ errors(Scripts[u.fn]) # {}
  <2>1. dx_start(u) = p  BY <1>4 DEF dx_start
  <2> HIDE DEF p
  <2>2. RunOk(p)  BY <1>0, <1>3, <1>4, <1>g DEF Good, RunOk
  <2>3. TextOk(p)  BY <1>3, <1>t DEF TextOk, SameText
  <2>4. Good(p)  BY <1>s, <1>3, <2>2, <2>3, Switch
  <2> QED BY <2>1, <2>4
<1>5. CASE ~u.built /\ errors(Scripts[u.fn]) = {}
  <2>1. dx_start(u) = start(q)  BY <1>5 DEF dx_start
  <2>2. Shape(p)  BY <1>3, <1>s DEF Shape, SameReel
  <2> HIDE DEF p
  <2>3. /\ Shape(q) /\ q.torn = p.torn /\ q.fn = p.fn /\ q.parsed = p.parsed /\ q.built = TRUE
        /\ q.gen = p.gen /\ q.run = p.run /\ SameTimer(p, q) /\ SameText(p, q)
        /\ SameMoves(p, q) /\ SameReel(p, q) /\ q.ncby = p.ncby
    BY <2>2 DEF Shape, Fields, SameTimer, SameText, SameMoves, SameReel
  <2> HIDE DEF q
  <2>4. SameTimer(u, q) /\ SameText(u, q) /\ SameMoves(u, q) /\ q.ncby = u.ncby
    BY <1>3, <2>3 DEF SameTimer, SameText, SameMoves
  <2>5. SameReel(u, q)  BY <1>3, <2>3 DEF SameReel
  <2>6. Good(start(q))  BY <1>1, <1>3, <1>g, <2>3, <2>4, <2>5
  <2> QED BY <2>1, <2>6
<1> QED BY <1>2, <1>4, <1>5

LEMMA KeyStep ==
    ASSUME Good(w), key_x \/ key_space \/ key_R \/ dx_set
    PROVE  Good(w')
<1>s. Shape(w)  BY GoodShape
<1>1. CASE key_x
  <2>1. w' = IF w.active THEN dx_end(w) ELSE dx_start(w)  BY <1>1 DEF key_x, press
  <2>2. w.active \in BOOLEAN  BY DEF Good, RunOk
  <2> QED BY <2>1, <2>2, EndGood, StartGood
<1>2. CASE key_space
  <2>1. w' = opt_flip(w, {"STOP"})  BY <1>2 DEF key_space, press
  <2> QED BY <2>1, <1>s, FlipKeeps, KeepsGood
<1>3. CASE key_R
  <2>1. w' = want(w, {"RF_DATASRC"})  BY <1>3 DEF key_R, press
  <2> QED BY <2>1, <1>s, WantKeeps, KeepsGood
<1>4. CASE dx_set
  <2>1. PICK f \in DOMAIN Scripts : w' = [w EXCEPT !.fn = f, !.built = FALSE]
    BY <1>4 DEF dx_set, press
  <2> DEFINE v == [w EXCEPT !.fn = f, !.built = FALSE]
  <2>2. /\ DOMAIN v = DOMAIN w /\ v.fn = f /\ v.built = FALSE /\ v.parsed = w.parsed
        /\ v.gen = w.gen /\ v.active = w.active /\ v.cur = w.cur /\ v.de = w.de
        /\ v.freed = w.freed /\ v.run = w.run /\ v.torn = w.torn
        /\ SameTimer(w, v) /\ SameText(w, v) /\ SameMoves(w, v) /\ SameReel(w, v)
        /\ v.ncby = w.ncby
    BY <1>s DEF Shape, Fields, SameTimer, SameText, SameMoves, SameReel
  <2> HIDE DEF v
  <2>3. dxlist(v) = dxlist(w) /\ action(v) = action(w)  BY <2>2 DEF action, dxlist
  <2>4. doing(v) = doing(w) /\ me(v) = me(w)  BY <2>2, <2>3 DEF doing, me
  <2>5. RunOk(v)  BY <2>1, <2>2, <2>3 DEF RunOk, Good
  <2>6. TimerOk(v)  BY <2>2, KeepsTimer DEF Good
  <2>7. TimerOwn(v)  BY <2>2, <2>4 DEF Good, TimerOwn, SameTimer, SameReel
  <2>8. TextOk(v)  BY <2>2, <2>4 DEF Good, TextOk, SameText
  <2>9. MoveOk(v)  BY <2>2, <2>4 DEF Good, MoveOk, Progress, SameMoves
  <2>10. ReelOk(v)  BY <2>2, <2>4 DEF Good, ReelOk, SameReel
  <2>11. CycleOk(v)  BY <2>2, <2>4 DEF Good, CycleOk, SameTimer
  <2> QED BY <2>1, <2>5, <2>6, <2>7, <2>8, <2>9, <2>10, <2>11 DEF Good, v
<1> QED BY <1>1, <1>2, <1>3, <1>4

-----------------------------------------------------------------------------
(* The theorems.                                                           *)

LEMMA InitGood == Init => Good(w)
<1> SUFFICES ASSUME Init PROVE Good(w)  OBVIOUS
<1>0. PICK d \in Data, f \in DOMAIN Scripts : w = initial(d, f)  BY DEF Init
<1>f. f \in DOMAIN Scripts  OBVIOUS
<1>1. DOMAIN w = Fields  BY <1>0 DEF initial, Fields
<1>2. /\ w.fn = f /\ w.built = FALSE /\ w.parsed = 0 /\ w.gen = 0 /\ w.active = FALSE
      /\ w.cur = 0 /\ w.freed = FALSE /\ w.run = 0 /\ w.torn = FALSE
  BY <1>0 DEF initial
<1>3. /\ w.set = FALSE /\ w.done = FALSE /\ w.timers = <<>>
      /\ w.cap = None /\ w.capby = None /\ w.caption = None /\ w.oldcap = None
      /\ w.ncby = None /\ w.kept = {}
  BY <1>0 DEF initial
<1>a. w.orbit = [t |-> 0, sample |-> 0, by |-> None]  BY <1>0 DEF initial
<1>b. w.screw = [t |-> 0, by |-> None] /\ w.move = [t |-> 0, by |-> None]
  BY <1>0 DEF initial, At
<1>c. w.winsp = [t |-> 0, iv |-> 0, by |-> None] /\ w.wioff = [t |-> 0, iv |-> 0, by |-> None]
  BY <1>0 DEF initial
<1>d. w.reel = [loaded |-> FALSE, save |-> 0, pos |-> -1, len |-> 0, dir |-> "", by |-> None]
  BY <1>0 DEF initial
<1>4. doing(w) = ""  BY <1>2 DEF doing
<1>5. RunOk(w)
  <2>1. {w.active, w.freed, w.built, w.torn} \subseteq BOOLEAN  BY <1>2
  <2>2. w.fn \in DOMAIN Scripts /\ w.parsed \in {0} \cup DOMAIN Scripts  BY <1>2, <1>f
  <2>3. w.gen \in Nat /\ w.run \in Nat /\ w.cur \in Nat  BY <1>2
  <2> QED BY <1>1, <1>2, <2>1, <2>2, <2>3 DEF RunOk
<1>6. TimerOk(w) /\ TimerOwn(w)  BY <1>3 DEF TimerOk, TimerOwn
<1>7. TextOk(w)  BY <1>2, <1>3 DEF TextOk
<1>8. MoveOk(w)  BY <1>a, <1>b, <1>c DEF MoveOk, Progress
<1>9. ReelOk(w)
  <2>1. w.reel.loaded = FALSE /\ w.reel.by = None  BY <1>0 DEF initial
  <2>2. DOMAIN w.reel = {"loaded", "save", "pos", "len", "dir", "by"}  BY <1>d
  <2> QED BY <2>1, <2>2 DEF ReelOk
<1>10. CycleOk(w)  BY <1>3 DEF CycleOk
<1> QED BY <1>5, <1>6, <1>7, <1>8, <1>9, <1>10 DEF Good

LEMMA NextGoodStep == Good(w) /\ [Next]_vars => Good(w')
<1> SUFFICES ASSUME Good(w), [Next]_vars PROVE Good(w')  OBVIOUS
<1>1. CASE frame  BY <1>1, FrameStep
<1>2. CASE timer  BY <1>2, TimerStep
<1>3. CASE key_x \/ key_space \/ key_R \/ dx_set  BY <1>3, KeyStep
<1>4. CASE UNCHANGED vars
  <2>1. w' = w  BY <1>4 DEF vars
  <2> QED BY <2>1
<1> QED BY <1>1, <1>2, <1>3, <1>4 DEF Next

LEMMA AlwaysGood == Spec => []Good(w)
<1>1. Init => Good(w)  BY InitGood
<1>2. Good(w) /\ [Next]_vars => Good(w)'  BY NextGoodStep
<1> QED BY <1>1, <1>2, PTL DEF Spec

(* At most one timer of the scripts' runs, and dxt_set and dxt_done say    *)
(* whether it does, whatever keys are pressed and whatever the scripts are *)
(* (dxp_stall, dxp_playreel, dxp_cyclenc, their callbacks, dx_end()).      *)
THEOREM OneTimer == Spec => []TimerAccounted
<1>1. Good(w) => TimerAccounted
  <2> SUFFICES ASSUME Good(w) PROVE TimerAccounted  OBVIOUS
  <2>1. CASE w.set /\ ~w.done
    <3> DEFINE t == w.timers[1]
    <3>1. w.timers = <<t>>  BY <2>1 DEF Good, TimerOk
    <3> HIDE DEF t
    <3>2. Len(<<t>>) = 1  OBVIOUS
    <3> QED BY <2>1, <3>1, <3>2 DEF TimerAccounted
  <2>2. CASE ~(w.set /\ ~w.done)
    <3>1. w.timers = <<>> /\ (w.done => w.set)  BY <2>2 DEF Good, TimerOk
    <3>2. Len(<<>>) = 0  OBVIOUS
    <3> QED BY <2>2, <3>1, <3>2 DEF TimerAccounted
  <2> QED BY <2>1, <2>2
<1> QED BY <1>1, AlwaysGood, PTL

(* dx_action, the function that runs it and the captions never point into  *)
(* a list that dx_start() has freed (deusex.c, dxa_clear() in dx_parse()), *)
(* but for the captions that refresh was keeping when its script was ended *)
(* (deusex.c:439-448).                                                     *)
THEOREM NothingDangles == Spec => []NoDangling
<1>1. Good(w) => NoDangling
  <2> SUFFICES ASSUME Good(w) PROVE NoDangling  OBVIOUS
  <2>1. w.active => /\ ~w.freed
                    /\ w.cur # 0 /\ w.de # "" => w.de = action(w).do
    BY DEF Good, RunOk
  <2>2. TextOk(w)  BY DEF Good
  <2>3. \A c \in {w.caption, w.cap, w.oldcap} : c = None \/ c[1] = w.gen \/ c \in w.kept
    <3>1. w.oldcap = None \/ w.oldcap \in w.kept  BY <2>2 DEF TextOk
    <3>2. \A c \in {w.caption, w.cap} : c = None \/ c[1] = w.gen \/ c \in w.kept
      BY <2>2 DEF TextOk
    <3> QED BY <3>1, <3>2
  <2> QED BY <2>1, <2>3 DEF NoDangling
<1> QED BY <1>1, AlwaysGood, PTL

(* What the statics of the actions keep belongs to the running one, unless *)
(* a script was ended halfway an action (dx_end() resets none of them).    *)
THEOREM ProgressOwned == Spec => []OwnProgress
<1>1. Good(w) => OwnProgress
  <2> SUFFICES ASSUME Good(w), w.active, ~w.torn PROVE OwnProgress  BY DEF OwnProgress
  <2>1. {w.orbit.by, w.screw.by, w.move.by, w.winsp.by, w.wioff.by} \subseteq {None, me(w)}
    BY DEF Good, MoveOk, Progress
  <2>2. w.reel.by \in {None, me(w)}  BY DEF Good, ReelOk
  <2>3. w.ncby \in {None, me(w)}  BY DEF Good, CycleOk
  <2>4. w.capby \in {None, me(w)}  BY DEF Good, TextOk
  <2>5. w.done => w.by = me(w)  BY DEF Good, TimerOwn, TimerOk
  <2>6. ASSUME NEW i \in DOMAIN w.timers PROVE w.timers[i].by = me(w)
    <3>1. w.timers # <<>>
      <4>1. DOMAIN (<<>>) = {}  OBVIOUS
      <4> QED BY <4>1
    <3>2. w.set /\ ~w.done /\ w.timers = <<w.timers[1]>>  BY <3>1 DEF Good, TimerOk
    <3>3. w.timers[1].by = me(w)  BY <3>2 DEF Good, TimerOwn
    <3>4. i = 1
      <4> DEFINE t == w.timers[1]
      <4>1. w.timers = <<t>>  BY <3>2
      <4> HIDE DEF t
      <4>2. DOMAIN <<t>> = {1}  OBVIOUS
      <4> QED BY <4>1, <4>2
    <3> QED BY <3>3, <3>4
  <2> QED BY <2>1, <2>2, <2>3, <2>4, <2>5, <2>6 DEF OwnProgress
<1> QED BY <1>1, AlwaysGood, PTL

-----------------------------------------------------------------------------
(* How far they are.  The three action properties say what has become of   *)
(* an adjustment, a cycle or a reel when it is done; Sound says what it    *)
(* has come to after each step of it, and ReelDue that no step but a frame *)
(* may find a frame of the reel that has not been fetched.                 *)

StFields == {"vmode", "dmode", "pipemode", "winsp", "wioff", "opts"}

Typed(u) ==
    /\ DOMAIN u.st = StFields /\ DOMAIN u.saved = StFields
    /\ {u.st.winsp, u.st.wioff, u.saved.winsp, u.saved.wioff} \subseteq Int
    /\ u.nc \in Nat \cup {-1} /\ {u.reel.pos, u.reel.save} \subseteq Int
    /\ {u.st.dmode, u.saved.dmode} \subseteq Modes
    /\ u.data \in Data

(* The timer calls back what the running action armed it for.              *)
Tied(u) == ~u.torn /\ u.set /\ ~u.done =>
    /\ doing(u) = "playreel" => u.timers[1].cb = "dxpcb_playreel"
    /\ doing(u) = "cyclenc"  => u.timers[1].cb = "dxpcb_cyclenc"
    /\ doing(u) = "stall"    => u.timers[1].cb = "dxpcb_stall"

(* What is left, n, of an adjustment of b that has come to v.              *)
Left(b, v, n, a) ==
    /\ b \in Int /\ n \in Nat \ {0}
    /\ a.mode = "on"  => v + n = b + a.n
    /\ a.mode = "off" => v - n = b - a.n
    /\ a.mode = "set" => n = a.n

(* The statics s of an adjustment that the directive do has brought to v,  *)
(* whatever scripts were ended: they are those of a script before, or the  *)
(* running action's own.                                                   *)
Foreign(u, s) == s.by = None \/ (s.by[1] \in Nat /\ s.by[1] < u.run)

Tuning(u, s, do, v) ==
    \/ Foreign(u, s)
    \/ s.by = me(u) /\ (u.active => doing(u) = do /\ Left(u.base, v, s.iv, action(u)))

Tuned(u) ==
    Tuning(u, u.winsp, "winsp", u.st.winsp) /\ Tuning(u, u.wioff, "wioff", u.st.wioff)
Loose(u) == Foreign(u, u.winsp) /\ Foreign(u, u.wioff)

(* All frames before the one that is played have been fetched, and that    *)
(* one has or will be; save_reel_pos is the last one the action waited at. *)
Reeled(u) == ~u.torn /\ u.reel.loaded =>
    /\ u.reel.len \in Nat /\ u.reel.pos \in 0 .. u.reel.len - 1
    /\ u.seen \subseteq 0 .. u.reel.pos
    /\ \A i \in 0 .. u.reel.pos - 1 : i \in u.seen
    /\ u.reel.pos \in u.seen \/ "RF_DATASRC" \in u.rf
    /\ IF u.done THEN u.reel.save = u.reel.pos => u.reel.pos = u.reel.len - 1 \/ u.base = 1
       ELSE u.reel.save = u.reel.pos \/ (u.reel.pos = 0 /\ u.reel.save = u.base)

(* Between frames it has been fetched, unless the timer has just expired.  *)
ReelDue(u) == ~u.torn /\ u.reel.loaded /\ u.reel.pos \notin u.seen =>
    u.done /\ (u.reel.save # u.reel.pos \/ u.base = 1)

(* The classes a cycle shows, and that it has up to the one it is at.      *)
Must(u, c) == u.st.dmode = "rte" \/ members(u, c) # {}

CycledTo(u, k) == ~u.fetched => \A c \in 0 .. k : Must(u, c) => c \in u.seen

Cycled(u) == ~u.torn =>
    \/ u.nc = -1 /\ (doing(u) = "cyclenc" => ~u.done)
    \/ /\ doing(u) = "cyclenc" /\ u.nc \in Nat
       /\ CycledTo(u, IF u.done THEN u.nc - 1 ELSE u.nc)

Sound(u) == Typed(u) /\ Tied(u) /\ Tuned(u) /\ Reeled(u) /\ Cycled(u)

-----------------------------------------------------------------------------
(* Most of the program leaves alone what they count with.                  *)

Form(u) == Shape(u) /\ DOMAIN u.st = StFields

Steady(u, v) ==
    /\ SameRun(u, v) /\ DOMAIN v.reel = DOMAIN u.reel /\ DOMAIN v.st = DOMAIN u.st
    /\ v.st.winsp = u.st.winsp /\ v.st.wioff = u.st.wioff /\ v.st.dmode = u.st.dmode
    /\ v.saved = u.saved /\ v.base = u.base /\ v.nc = u.nc /\ v.data = u.data
    /\ v.reel.pos = u.reel.pos /\ v.reel.save = u.reel.save
    /\ v.seen = u.seen /\ v.fetched = u.fetched /\ v.winsp = u.winsp /\ v.wioff = u.wioff
    /\ "RF_DATASRC" \in u.rf => "RF_DATASRC" \in v.rf

LEMMA SteadySelf == ASSUME NEW u PROVE Steady(u, u)
BY DEF SameRun, Steady

LEMMA SteadyChain ==
    ASSUME NEW u, NEW v, NEW x, Steady(u, v), Steady(v, x)
    PROVE  Steady(u, x)
BY DEF SameRun, Steady

LEMMA SteadyForm == ASSUME NEW u, NEW v, Steady(u, v), Form(u) PROVE Form(v)
BY DEF SameRun, Steady, Form, Shape

LEMMA SteadyType == ASSUME NEW u, NEW v, Steady(u, v), Typed(u) PROVE Typed(v)
BY DEF SameRun, Steady, Typed

LEMMA TypedForm == ASSUME NEW u, Good(u), Typed(u) PROVE Form(u)
BY GoodShape DEF Form, Typed

LEMMA WantSteady == ASSUME NEW u, Form(u), NEW F PROVE Steady(u, want(u, F))
BY DEF Form, Shape, Fields, want, SameRun, Steady

LEMMA AimSteady == ASSUME NEW u, Form(u) PROVE Steady(u, aim(u))
BY DEF Form, Shape, Fields, aim, SameRun, Steady

LEMMA LoadSteady == ASSUME NEW u, Form(u) PROVE Steady(u, reel_load(u))
BY ZenonT(60) DEF Form, Shape, Fields, reel_load, SameRun, Steady

LEMMA FlipSteady == ASSUME NEW u, Form(u), NEW S PROVE Steady(u, opt_flip(u, S))
<1> DEFINE O == (u.st.opts \ S) \cup (S \ u.st.opts)
           on(o)  == o \in S /\ o \in O
           off(o) == o \in S /\ o \notin O
           A == IF on("STOP") THEN u.away ELSE u.held
           B == IF on("STOP") \/ "TWEEN" \in S THEN 0
                ELSE IF off("STOP") THEN u.held ELSE u.away
           C == IF off("NODEANIM") THEN 0 ELSE u.far
           F == IF {"PIPES", "SUBSET"} \cap S # {} \/ off("NODEANIM") \/ off("STOP")
                THEN {"RF_CLUSTER"} ELSE {}
           v == [u EXCEPT !.st.opts = O, !.held = A, !.away = B, !.far = C, !.rf = @ \cup F]
<1>1. opt_flip(u, S) = IF on("REEL") THEN reel_load(v) ELSE v  BY DEF opt_flip
<1>2. Steady(u, v)
  <2> HIDE DEF O, A, B, C, F
  <2> QED BY DEF Form, Shape, Fields, StFields, SameRun, Steady
<1> HIDE DEF v, on
<1>3. Steady(u, reel_load(v))  BY <1>2, SteadyForm, LoadSteady, SteadyChain
<1> QED BY <1>1, <1>2, <1>3

LEMMA EnableSteady == ASSUME NEW u, Form(u), NEW S PROVE Steady(u, opt_enable(u, S))
BY FlipSteady DEF opt_enable

LEMMA DisableSteady == ASSUME NEW u, Form(u), NEW S PROVE Steady(u, opt_disable(u, S))
BY FlipSteady DEF opt_disable

LEMMA HideSteady ==
    ASSUME NEW u, Form(u), NEW H, NEW F PROVE Steady(u, want([u EXCEPT !.hid = H], F))
<1>1. Steady(u, [u EXCEPT !.hid = H])  BY DEF Form, Shape, Fields, SameRun, Steady
<1> QED BY <1>1, SteadyForm, WantSteady, SteadyChain

LEMMA ShowSteady ==
    ASSUME NEW u, Form(u), NEW c
    PROVE  /\ Steady(u, nc_runall_opaque(u)) /\ Steady(u, nc_runall_setxparent(u))
           /\ Steady(u, nc_apply_opaque(u, c)) /\ Steady(u, nc_runsn_opaque(u))
<1>1. Steady(u, nc_runall_opaque(u))  BY HideSteady DEF nc_runall_opaque
<1>2. Steady(u, nc_runall_setxparent(u))  BY HideSteady DEF nc_runall_setxparent
<1>3. Steady(u, nc_apply_opaque(u, c))  BY HideSteady DEF nc_apply_opaque
<1>4. Steady(u, nc_runsn_opaque(u))  BY HideSteady DEF nc_runsn_opaque
<1> QED BY <1>1, <1>2, <1>3, <1>4

LEMMA SelectSteady == ASSUME NEW u, Form(u), NEW S PROVE Steady(u, sn_change(u, S))
BY DEF sn_change, Form, Shape, Fields, SameRun, Steady

LEMMA TimerSteady ==
    ASSUME NEW u, Form(u), NEW cb
    PROVE  Steady(u, arm(u, cb)) /\ Steady(u, take(u))
BY DEF arm, take, Form, Shape, Fields, SameRun, Steady

LEMMA TweenSteady == ASSUME NEW u, Form(u) PROVE Steady(u, tween_update(u))
BY DEF tween_update, Form, Shape, Fields, SameRun, Steady

LEMMA CameraSteady ==
    ASSUME NEW u, Form(u), NEW a
    PROVE  /\ \A r \in dxp_bird(u, a) : Steady(u, r.w)
           /\ \A r \in dxp_refocus(u, a) : Steady(u, r.w)
           /\ \A r \in dxp_camlook(u, a) : Steady(u, r.w)
           /\ \A r \in dxp_campos(u, a) : Steady(u, r.w)
           /\ \A r \in dxp_camuprot(u, a) : Steady(u, r.w)
           /\ \A r \in dxp_camsync(u, a) : Steady(u, r.w)
           /\ \A r \in dxp_nodesync(u, a) : Steady(u, r.w)
           /\ \A r \in dxp_focus(u, a) : Steady(u, r.w)
BY AimSteady, SteadySelf
DEF dxp_bird, dxp_refocus, dxp_camlook, dxp_campos, dxp_camuprot, dxp_camsync, dxp_nodesync,
    dxp_focus, yes

(* Fields that Steady does not speak of.                                   *)
LEMMA OtherSteady ==
    ASSUME NEW u, Form(u)
    PROVE  /\ \A x : Steady(u, [u EXCEPT !.dead = x])
           /\ \A x : Steady(u, [u EXCEPT !.spin = x])
           /\ \A x : Steady(u, [u EXCEPT !.orbit = x])
           /\ \A x : Steady(u, [u EXCEPT !.orbit.sample = x])
           /\ \A x : Steady(u, [u EXCEPT !.screw = x])
           /\ \A x : Steady(u, [u EXCEPT !.move = x])
           /\ \A x : Steady(u, [u EXCEPT !.sub = x])
           /\ \A x : Steady(u, [u EXCEPT !.panels = x])
           /\ \A x : Steady(u, [u EXCEPT !.stick = x])
           /\ \A x : Steady(u, [u EXCEPT !.caption = x])
           /\ \A x, y : Steady(u, [u EXCEPT !.cap = x, !.capby = y])
           /\ \A x, y, z : Steady(u, [u EXCEPT !.caption = x, !.cap = y, !.capby = z])
<1> USE DEF Form, Shape, Fields, SameRun, Steady
<1>1. ASSUME NEW x
      PROVE  /\ Steady(u, [u EXCEPT !.dead = x]) /\ Steady(u, [u EXCEPT !.spin = x])
             /\ Steady(u, [u EXCEPT !.screw = x]) /\ Steady(u, [u EXCEPT !.move = x])
  OBVIOUS
<1>2. ASSUME NEW x
      PROVE  Steady(u, [u EXCEPT !.orbit = x]) /\ Steady(u, [u EXCEPT !.orbit.sample = x])
  OBVIOUS
<1>3. ASSUME NEW x
      PROVE  /\ Steady(u, [u EXCEPT !.sub = x]) /\ Steady(u, [u EXCEPT !.panels = x])
             /\ Steady(u, [u EXCEPT !.stick = x]) /\ Steady(u, [u EXCEPT !.caption = x])
  OBVIOUS
<1>4. ASSUME NEW x, NEW y PROVE Steady(u, [u EXCEPT !.cap = x, !.capby = y])
  OBVIOUS
<1>5. ASSUME NEW x, NEW y, NEW z
      PROVE  Steady(u, [u EXCEPT !.caption = x, !.cap = y, !.capby = z])
  OBVIOUS
<1> QED BY ONLY <1>1, <1>2, <1>3, <1>4, <1>5

LEMMA RestSteady ==
    ASSUME NEW u, Form(u), NEW a
    PROVE  /\ \A r \in dxp_exit(u, a) : Steady(u, r.w)
           /\ \A r \in dxp_cuban8(u, a) : Steady(u, r.w)
           /\ \A r \in dxp_caption(u, a) : Steady(u, r.w)
           /\ \A r \in dxp_refresh(u, a) : Steady(u, r.w)
           /\ \A r \in dxp_stall(u, a) : Steady(u, r.w)
<1>1. (\A r \in dxp_exit(u, a) : Steady(u, r.w)) /\ \A r \in dxp_cuban8(u, a) : Steady(u, r.w)
  <2> DEFINE v == [u EXCEPT !.dead = TRUE]
  <2>1. Steady(u, v)  BY OtherSteady, Zenon
  <2>2. dxp_exit(u, a) = {no(v)} /\ dxp_cuban8(u, a) = {no(v)}  BY DEF dxp_exit, dxp_cuban8
  <2> HIDE DEF v
  <2> QED BY <2>1, <2>2 DEF no
<1>3. \A r \in dxp_caption(u, a) : Steady(u, r.w)
  <2> DEFINE v == [u EXCEPT !.caption = <<u.gen, u.cur>>]
  <2>1. Steady(u, v)  BY OtherSteady, Zenon
  <2>2. dxp_caption(u, a) = {yes(v)}  BY DEF dxp_caption
  <2> HIDE DEF v
  <2> QED BY <2>1, <2>2 DEF yes
<1>4. \A r \in dxp_stall(u, a) : Steady(u, r.w)  BY TimerSteady DEF dxp_stall, yes, no
<1>5. \A r \in dxp_refresh(u, a) : Steady(u, r.w)
  <2> DEFINE v == [u EXCEPT !.caption = u.cap, !.cap = None, !.capby = None]
             x == [u EXCEPT !.cap = u.caption, !.capby = IF u.caption = None THEN None ELSE me(u)]
             y == want(x, {"RF_DATASRC"})
  <2>1. \A r \in dxp_refresh(u, a) : r = yes(v) \/ r = no(y)  BY DEF dxp_refresh
  <2>2. Steady(u, v) /\ Steady(u, x)  BY OtherSteady
  <2> HIDE DEF v, x
  <2>3. Steady(u, y)  BY <2>2, SteadyForm, WantSteady, SteadyChain
  <2> QED BY <2>1, <2>2, <2>3 DEF yes, no
<1> QED BY <1>1, <1>3, <1>4, <1>5

LEMMA TurnSteady ==
    ASSUME NEW u, Form(u), NEW a
    PROVE  /\ \A r \in dxp_orbit(u, a) : Steady(u, r.w)
           /\ \A r \in dxp_curlyq(u, a) : Steady(u, r.w)
           /\ \A r \in dxp_corkscrew(u, a) : Steady(u, r.w)
           /\ \A r \in dxp_cam_move(u, a) : Steady(u, r.w)
<1>1. ASSUME NEW v, Form(v)
      PROVE  Steady(v, aim(v)) /\ Form(aim(v)) /\
             \A z : /\ Steady(v, [aim(v) EXCEPT !.orbit = z])
                    /\ Steady(v, [aim(v) EXCEPT !.screw = z])
                    /\ Steady(v, [aim(v) EXCEPT !.move = z])
  <2>1. Steady(v, aim(v))  BY <1>1, AimSteady
  <2>2. Form(aim(v))  BY <1>1, <2>1, SteadyForm
  <2>3. ASSUME NEW z
        PROVE  /\ Steady(aim(v), [aim(v) EXCEPT !.orbit = z])
               /\ Steady(aim(v), [aim(v) EXCEPT !.screw = z])
               /\ Steady(aim(v), [aim(v) EXCEPT !.move = z])
    BY <2>2, OtherSteady
  <2> QED BY <2>1, <2>2, <2>3, SteadyChain
<1>2. ASSUME NEW v, Form(v) PROVE \A r \in dxp_orbit(v, a) : Steady(v, r.w)
  <2> DEFINE s == [v EXCEPT !.orbit.sample = @ + 1]
             g(z) == [aim(v) EXCEPT !.orbit = z]
  <2>1. \A r \in dxp_orbit(v, a) : r = no(s) \/ \E z : r = yes(g(z)) \/ r = no(g(z))
    BY Zenon DEF dxp_orbit, ended
  <2>2. Steady(v, s)  BY <1>2, OtherSteady, Zenon
  <2>3. \A z : Steady(v, g(z))  BY <1>1, <1>2
  <2> HIDE DEF s, g
  <2> QED BY <2>1, <2>2, <2>3 DEF yes, no
<1>3. \A r \in dxp_corkscrew(u, a) : Steady(u, r.w)
  <2> DEFINE g(z) == [aim(u) EXCEPT !.screw = z]
  <2>1. \A r \in dxp_corkscrew(u, a) : \E z : r = yes(g(z)) \/ r = no(g(z))
    BY Zenon DEF dxp_corkscrew
  <2>2. \A z : Steady(u, g(z))  BY <1>1
  <2> HIDE DEF g
  <2> QED BY <2>1, <2>2 DEF yes, no
<1>4. \A r \in dxp_cam_move(u, a) : Steady(u, r.w)
  <2> DEFINE g(z) == [aim(u) EXCEPT !.move = z]
  <2>1. \A r \in dxp_cam_move(u, a) : \E z : r = yes(g(z)) \/ r = no(g(z))
    BY Zenon DEF dxp_cam_move
  <2>2. \A z : Steady(u, g(z))  BY <1>1
  <2> HIDE DEF g
  <2> QED BY <2>1, <2>2 DEF yes, no
<1>5. \A r \in dxp_curlyq(u, a) : Steady(u, r.w)
  <2>1. Steady(u, aim(u)) /\ Form(aim(u))  BY <1>1
  <2>2. \A r \in dxp_orbit(aim(u), a) : Steady(aim(u), r.w)  BY <2>1, <1>2
  <2> QED BY <2>1, <2>2, SteadyChain DEF dxp_curlyq
<1> QED BY <1>2, <1>3, <1>4, <1>5

LEMMA PickSteady ==
    ASSUME NEW u, Form(u), NEW a
    PROVE  /\ \A r \in dxp_selnode(u, a) : Steady(u, r.w)
           /\ \A r \in dxp_clrsn(u, a) : Steady(u, r.w)
           /\ \A r \in dxp_subsel(u, a) : Steady(u, r.w)
           /\ \A r \in dxp_hl(u, a) : Steady(u, r.w)
           /\ \A r \in dxp_selnc(u, a) : Steady(u, r.w)
<1> DEFINE shown(v) == nc_runsn_opaque(nc_runall_setxparent(v))
<1>1. \A S : Steady(u, sn_change(u, S))  BY SelectSteady
<1>2. ASSUME NEW S PROVE Steady(u, want([u EXCEPT !.sub = S], {"RF_CLUSTER"}))
  <2>1. Steady(u, [u EXCEPT !.sub = S])  BY OtherSteady, Zenon
  <2> QED BY <2>1, SteadyForm, WantSteady, SteadyChain
<1>3. ASSUME NEW v, Steady(u, v) PROVE Steady(u, shown(v))
  <2>1. Form(v)  BY <1>3, SteadyForm
  <2>2. Steady(u, nc_runall_setxparent(v))  BY <1>3, <2>1, ShowSteady, SteadyChain
  <2>3. Form(nc_runall_setxparent(v))  BY <2>2, SteadyForm
  <2> QED BY <2>2, <2>3, ShowSteady, SteadyChain
<1>4. Steady(u, u) /\ Steady(u, shown(u)) /\ Steady(u, nc_runall_opaque(u))
  BY <1>3, ShowSteady, SteadySelf
<1>5. \A n : Steady(u, shown(sn_change(u, u.sel \cup {n})))  BY <1>1, <1>3
<1>6. Steady(u, [u EXCEPT !.spin = TRUE])  BY OtherSteady, Zenon
<1> HIDE DEF shown
<1>7. \A r \in dxp_selnode(u, a) : Steady(u, r.w)
  <2>1. \A r \in dxp_selnode(u, a) : \E S : r = yes(sn_change(u, S))
    BY Zenon DEF dxp_selnode
  <2> QED BY <2>1, <1>1 DEF yes
<1>8. \A r \in dxp_subsel(u, a) : Steady(u, r.w)
  <2> DEFINE g(S) == want([u EXCEPT !.sub = S], {"RF_CLUSTER"})
  <2>1. \A r \in dxp_subsel(u, a) : \E S : r = yes(g(S))  BY Zenon DEF dxp_subsel
  <2>2. \A S : Steady(u, g(S))  BY <1>2
  <2> HIDE DEF g
  <2> QED BY <2>1, <2>2 DEF yes
<1>9. \A r \in dxp_hl(u, a) : Steady(u, r.w)
  <2>1. \A r \in dxp_hl(u, a) : r = yes(nc_runall_opaque(u)) \/ r = yes(shown(u))
    BY DEF dxp_hl, shown
  <2> QED BY <2>1, <1>4 DEF yes
<1>10. \A r \in dxp_selnc(u, a) : Steady(u, r.w)
  <2> DEFINE v == [u EXCEPT !.spin = TRUE]
             g(n) == shown(sn_change(u, u.sel \cup {n}))
  <2>1. \A r \in dxp_selnc(u, a) :
           r = yes(shown(u)) \/ r = yes(u) \/ r = no(v) \/ \E n : r = yes(g(n))
    BY Zenon DEF dxp_selnc, shown
  <2>2. Steady(u, v)  BY <1>6
  <2>3. \A n : Steady(u, g(n))  BY <1>5
  <2> HIDE DEF v, g
  <2> QED BY <2>1, <2>2, <2>3, <1>4 DEF yes, no
<1> QED BY <1>1, <1>7, <1>8, <1>9, <1>10 DEF dxp_clrsn, yes

LEMMA ChooseSteady ==
    ASSUME NEW u, Form(u), NEW a \in Action
    PROVE  /\ \A r \in dxp_opt(u, a) : Steady(u, r.w)
           /\ \A r \in dxp_vmode(u, a) : Steady(u, r.w)
           /\ \A r \in dxp_pipemode(u, a) : Steady(u, r.w)
           /\ \A r \in dxp_panel(u, a) : Steady(u, r.w)
           /\ \A r \in dxp_pstick(u, a) : Steady(u, r.w)
<1>1. \A r \in dxp_opt(u, a) : Steady(u, r.w)
  <2>1. a.mode \in {"set", "on", "off"}  BY DEF Action
  <2>2. \A r \in dxp_opt(u, a) : \/ \E S : r = yes(opt_enable(u, S))
                                 \/ \E S : r = yes(opt_disable(u, S))
                                 \/ \E S : r = yes(opt_flip(u, S))
    BY <2>1, Zenon DEF dxp_opt
  <2> QED BY <2>2, FlipSteady, EnableSteady, DisableSteady DEF yes
<1>2. ASSUME NEW m
      PROVE  Steady(u, [u EXCEPT !.st.vmode = m]) /\ Steady(u, [u EXCEPT !.st.pipemode = m])
  BY DEF Form, Shape, Fields, StFields, SameRun, Steady
<1>3. \A r \in dxp_vmode(u, a) : Steady(u, r.w)
  <2> DEFINE v == [u EXCEPT !.st.vmode = a.who]
  <2>1. Steady(u, v)  BY <1>2
  <2>2. \A r \in dxp_vmode(u, a) : r = yes(want(v, {"RF_VMODE"}))  BY DEF dxp_vmode
  <2> HIDE DEF v
  <2> QED BY <2>1, <2>2, SteadyForm, WantSteady, SteadyChain DEF yes
<1>4. \A r \in dxp_pipemode(u, a) : Steady(u, r.w)
  <2> DEFINE v == [u EXCEPT !.st.pipemode = a.who]
  <2>1. Steady(u, v)  BY <1>2
  <2>2. \A r \in dxp_pipemode(u, a) : r = yes(want(v, {"RF_CLUSTER"}))  BY DEF dxp_pipemode
  <2> HIDE DEF v
  <2> QED BY <2>1, <2>2, SteadyForm, WantSteady, SteadyChain DEF yes
<1>5. \A r \in dxp_panel(u, a) : Steady(u, r.w)
  <2> DEFINE g(P) == [u EXCEPT !.panels = P]
  <2>1. \A r \in dxp_panel(u, a) : \E P : r = yes(g(P))  BY Zenon DEF dxp_panel
  <2>2. \A P : Steady(u, g(P))  BY OtherSteady, Zenon
  <2> HIDE DEF g
  <2> QED BY <2>1, <2>2 DEF yes
<1>6. \A r \in dxp_pstick(u, a) : Steady(u, r.w)
  <2> DEFINE g(P) == [u EXCEPT !.stick = P]
  <2>1. \A r \in dxp_pstick(u, a) : \E P : r = yes(g(P))  BY Zenon DEF dxp_pstick
  <2>2. \A P : Steady(u, g(P))  BY OtherSteady, Zenon
  <2> HIDE DEF g
  <2> QED BY <2>1, <2>2 DEF yes
<1> QED BY <1>1, <1>3, <1>4, <1>5, <1>6

(* An action that is no adjustment finds what others have left of theirs,  *)
(* and leaves it alone.                                                    *)
LEMMA LooseTuned == ASSUME NEW u, Loose(u) PROVE Tuned(u)
BY DEF Loose, Tuned, Tuning

LEMMA Owner ==
    ASSUME NEW u, u.run \in Nat, u.cur # 0, NEW s, s.by = me(u)
    PROVE  ~Foreign(u, s)
<1>1. me(u)[1] = u.run /\ me(u)[2] = u.cur  BY DEF me
<1>2. None[2] = 0  BY DEF None
<1> QED BY <1>1, <1>2 DEF Foreign

LEMMA ForeignKept ==
    ASSUME NEW u, NEW v, SameRun(u, v), NEW s, Foreign(u, s)
    PROVE  Foreign(v, s)
BY DEF SameRun, Foreign

LEMMA LooseKept ==
    ASSUME NEW u, Running(u), Tuned(u), u.de \notin {"winsp", "wioff"}, NEW v, SameRun(u, v),
           v.winsp = u.winsp, v.wioff = u.wioff
    PROVE  Loose(v)
<1>1. doing(u) = u.de /\ u.active  BY Runs DEF Running
<1>2. Foreign(u, u.winsp) /\ Foreign(u, u.wioff)  BY <1>1 DEF Tuned, Tuning
<1> QED BY <1>2, ForeignKept DEF Loose

LEMMA TunedKept ==
    ASSUME NEW u, NEW v, Tuned(u), SameRun(u, v), v.winsp = u.winsp, v.wioff = u.wioff,
           v.base = u.base, v.st.winsp = u.st.winsp, v.st.wioff = u.st.wioff
    PROVE  Tuned(v)
<1>1. doing(v) = doing(u) /\ action(v) = action(u) /\ me(v) = me(u) /\ v.active = u.active
  BY SameDoing DEF SameRun
<1>2. \A s : Foreign(u, s) => Foreign(v, s)  BY ForeignKept
<1> QED BY <1>1, <1>2 DEF Tuned, Tuning

(* Whatever it was, there is nothing left of it.                           *)
LEMMA IdleSound ==
    ASSUME NEW v, Good(v), Typed(v), Idle(v), Tuned(v), ~v.torn => v.nc = -1
    PROVE  Sound(v)
<1>1. Tied(v)    BY DEF Tied, Idle
<1>2. Tuned(v)   OBVIOUS
<1>3. Reeled(v)  BY DEF Reeled, Idle
<1>4. Cycled(v)  BY DEF Cycled, Idle, Good, TimerOk
<1> QED BY <1>1, <1>2, <1>3, <1>4 DEF Sound

LEMMA KeptLen ==
    ASSUME NEW u, NEW v, Good(u), SameRun(u, v), SameReel(u, v)
    PROVE  ~u.torn /\ u.reel.loaded => v.reel.len = u.reel.len /\ v.reel.loaded
BY DEF Good, ReelOk, SameReel

LEMMA KeepsSound ==
    ASSUME NEW u, NEW v, Good(u), Sound(u), Keeps(u, v), Steady(u, v)
    PROVE  Sound(v)
<1>1. SameRun(u, v) /\ SameTimer(u, v) /\ SameMoves(u, v) /\ SameReel(u, v)  BY DEF Keeps
<1>2. doing(v) = doing(u) /\ action(v) = action(u) /\ v.torn = u.torn
  BY <1>1, SameDoing DEF SameRun
<1>3. Typed(v)  BY SteadyType DEF Sound
<1>4. Tied(v)   BY <1>1, <1>2 DEF Sound, Tied, SameTimer
<1>5. Tuned(v)  BY TunedKept DEF Sound, Steady
<1>6. Reeled(v)
  <2>1. SUFFICES ASSUME ~u.torn, v.reel.loaded PROVE Reeled(v)  BY <1>2 DEF Reeled
  <2>2. u.reel.loaded /\ v.reel.len = u.reel.len  BY <1>1, <2>1, KeptLen DEF SameReel
  <2> QED BY <1>1, <1>2, <2>1, <2>2 DEF Sound, Reeled, SameTimer, Steady
<1>7. Cycled(v)
  <2>1. \A c : Must(v, c) <=> Must(u, c)  BY DEF Must, members, Steady
  <2>2. \A k : CycledTo(u, k) => CycledTo(v, k)  BY <2>1 DEF CycledTo, Steady
  <2>3. v.nc = u.nc /\ v.done = u.done  BY <1>1 DEF SameTimer, Steady
  <2> HIDE DEF CycledTo
  <2> QED BY <1>2, <2>2, <2>3 DEF Sound, Cycled
<1> QED BY <1>3, <1>4, <1>5, <1>6, <1>7 DEF Sound

-----------------------------------------------------------------------------
(* What an action comes to.                                                *)

wanted(b, a) == IF ZeroSet(a) THEN b ELSE target(b, a)

Reached(u, v) ==
    /\ doing(u) = "winsp" /\ own(u, u.winsp) => v.st.winsp = wanted(v.base, action(u))
    /\ doing(u) = "wioff" /\ own(u, u.wioff) => v.st.wioff = wanted(v.base, action(u))
    /\ doing(u) = "cyclenc" /\ ~u.fetched /\ ~u.torn =>
          /\ {c \in 0 .. size(u) - 1 : Must(u, c)} \subseteq u.seen
          /\ v.hid \cap classes(u) = {}
    /\ doing(u) = "playreel" /\ u.reel.loaded /\ ~u.torn => u.done /\ u.reel.save = u.reel.pos

Outcome(u, r) ==
    /\ SameRun(u, r.w) /\ Sound(r.w)
    /\ r.ret => Loose(r.w) /\ Reached(u, r.w)
    /\ r.ret /\ ~u.torn => r.w.nc = -1

Counting == {"winsp", "wioff", "playreel", "cyclenc", "stall"}

LEMMA PlainOutcome ==
    ASSUME NEW u, Running(u), Sound(u), u.de \notin Counting, NEW r, Ends(r),
           SameRun(u, r.w), Typed(r.w), r.w.nc = u.nc, r.w.winsp = u.winsp, r.w.wioff = u.wioff
    PROVE  Outcome(u, r)
<1> DEFINE v == r.w
<1>0. Loose(v) /\ Tuned(v)  BY LooseKept, LooseTuned DEF Sound, Counting
<1>1. Running(v) /\ v.de = u.de /\ v.torn = u.torn
  BY SameDoing DEF Ends, Running, SameRun
<1>2. doing(v) = u.de /\ doing(u) = u.de  BY <1>1, Runs
<1>3. ~u.torn => u.nc = -1  BY <1>2 DEF Sound, Cycled, Counting
<1> HIDE DEF v
<1>4. Tied(v)   BY <1>2 DEF Tied, Counting
<1>5. ~v.torn => ~v.reel.loaded  BY <1>1, QuietParts DEF Counting
<1>6. Reeled(v)  BY <1>5 DEF Reeled
<1>7. Cycled(v)  BY <1>1, <1>2, <1>3 DEF Cycled, Counting, v
<1>8. Sound(v)  BY <1>0, <1>4, <1>6, <1>7 DEF Sound, v
<1> QED BY <1>0, <1>1, <1>2, <1>3, <1>8 DEF Outcome, Reached, Counting, v

LEMMA SteadyOutcome ==
    ASSUME NEW u, Running(u), Sound(u), u.de \notin Counting, NEW r, Ends(r), Steady(u, r.w)
    PROVE  Outcome(u, r)
BY PlainOutcome, SteadyType DEF Sound, Steady

LEMMA ModeOutcome ==
    ASSUME NEW u, Running(u), Sound(u), u.de = "dmode", \A r \in dxp_dmode(u, action(u)) : Ends(r)
    PROVE  \A r \in dxp_dmode(u, action(u)) : Outcome(u, r)
<1> DEFINE m == [u EXCEPT !.st.dmode = action(u).who]
           v == want(m, {"RF_DMODE"})
<1>1. dxp_dmode(u, action(u)) = {yes(v)}  BY DEF dxp_dmode
<1>2. action(u).who \in Modes
  <2>1. action(u) \in Action /\ action(u).do = "dmode"  BY Runs DEF Running
  <2> QED BY <2>1 DEF Action
<1>3. Form(u) /\ Typed(u)  BY TypedForm DEF Sound, Running
<1>a. SameRun(u, m) /\ m.nc = u.nc /\ m.winsp = u.winsp /\ m.wioff = u.wioff
  BY <1>3 DEF Form, Shape, Fields, SameRun
<1>b. Typed(m) /\ Form(m)  BY <1>2, <1>3, <1>a DEF Typed, Form, Shape, Fields, StFields
<1> HIDE DEF m
<1>c. Steady(m, v)  BY <1>b, WantSteady
<1> HIDE DEF v
<1>4. SameRun(u, v) /\ v.nc = u.nc /\ v.winsp = u.winsp /\ v.wioff = u.wioff
  BY <1>a, <1>c DEF Steady, SameRun
<1>5. Typed(v)  BY <1>b, <1>c, SteadyType
<1>6. yes(v).w = v  BY DEF yes
<1>7. Ends(yes(v))  BY <1>1
<1>8. Outcome(u, yes(v))  BY <1>4, <1>5, <1>6, <1>7, PlainOutcome DEF Counting
<1> QED BY <1>1, <1>8

LEMMA ArmedFor ==
    ASSUME NEW u, Shape(u), TimerOk(u), ~u.set, NEW cb
    PROVE  arm(u, cb).timers[1].cb = cb
<1> DEFINE t == [cb |-> cb, by |-> me(u)]
<1>1. u.timers = <<>>  BY DEF TimerOk
<1>2. arm(u, cb).timers = Append(u.timers, t)  BY DEF arm, Shape, Fields
<1>3. t.cb = cb  OBVIOUS
<1> HIDE DEF t
<1>4. Append(<<>>, t)[1] = t  OBVIOUS
<1> QED BY <1>1, <1>2, <1>3, <1>4

LEMMA StallOutcome ==
    ASSUME NEW u, Running(u), Sound(u), u.de = "stall", NEW a, \A r \in dxp_stall(u, a) : Ends(r)
    PROVE  \A r \in dxp_stall(u, a) : Outcome(u, r)
<1>1. doing(u) = u.de /\ Shape(u) /\ TimerOk(u)  BY Runs DEF Running, Good
<1>2. ~u.torn => u.nc = -1  BY <1>1 DEF Sound, Cycled
<1>f. Form(u)  BY TypedForm DEF Sound, Running
<1>3. ASSUME NEW r, r \in dxp_stall(u, a),
             ~u.torn /\ r.w.set /\ ~r.w.done => r.w.timers[1].cb = "dxpcb_stall"
      PROVE  Outcome(u, r)
  <2> DEFINE v == r.w
  <2>1. Steady(u, v)  BY <1>3, <1>f, RestSteady
  <2>2. Running(v) /\ v.de = u.de /\ v.torn = u.torn
    BY <1>3, <2>1, SameDoing DEF Ends, Running, Steady, SameRun
  <2>3. doing(v) = u.de  BY <2>2, Runs
  <2> HIDE DEF v
  <2>4. Tied(v)   BY <1>3, <2>2, <2>3 DEF Tied, v
  <2>5. ~v.torn => ~v.reel.loaded  BY <2>2, QuietParts
  <2>6. Reeled(v)  BY <2>5 DEF Reeled
  <2>l. Loose(v) /\ Tuned(v)  BY <2>1, LooseKept, LooseTuned DEF Sound, Steady
  <2>7. Cycled(v)  BY <1>2, <2>1, <2>2, <2>3 DEF Cycled, Steady
  <2>8. Typed(v)  BY <2>1, SteadyType DEF Sound
  <2>9. Sound(v)  BY <2>4, <2>6, <2>l, <2>7, <2>8 DEF Sound
  <2> QED BY <1>1, <1>2, <2>1, <2>l, <2>9 DEF Outcome, Reached, Steady, v
<1>4. CASE u.done
  <2>1. dxp_stall(u, a) = {yes(take(u))}  BY <1>4 DEF dxp_stall
  <2>2. take(u).set = FALSE  BY <1>1, <1>4, Taken
  <2> QED BY <1>3, <2>1, <2>2 DEF yes
<1>5. CASE ~u.done
  <2> DEFINE v == arm(u, "dxpcb_stall")
  <2>1. dxp_stall(u, a) = {no(v)}  BY <1>5 DEF dxp_stall
  <2>2. CASE u.set
    <3>1. v = u  BY <2>2 DEF arm
    <3>2. ~u.torn => u.timers[1].cb = "dxpcb_stall"  BY <1>1, <1>5, <2>2 DEF Sound, Tied
    <3> HIDE DEF v
    <3> QED BY <1>3, <2>1, <3>1, <3>2 DEF no
  <2>3. CASE ~u.set
    <3>1. v.timers[1].cb = "dxpcb_stall"  BY <1>1, <2>3, ArmedFor
    <3> HIDE DEF v
    <3> QED BY <1>3, <2>1, <3>1 DEF no
  <2> QED BY <2>2, <2>3
<1> QED BY <1>4, <1>5

LEMMA AdjustLeft ==
    ASSUME NEW b, NEW v \in Int, NEW n, NEW a \in Action, Left(b, v, n, a)
    PROVE  LET s == adjust(v, n, a.mode)
           IN  IF s[2] = 0 THEN s[1] = wanted(b, a) ELSE Left(b, s[1], s[2], a)
<1>1. a.mode \in {"set", "on", "off"} /\ a.n \in Nat  BY DEF Action
<1>2. b \in Int /\ n \in Nat \ {0}  BY DEF Left
<1>3. CASE a.mode = "on"
  <2>1. adjust(v, n, a.mode) = <<v + 1, n - 1>>  BY <1>3 DEF adjust
  <2>2. v + n = b + a.n  BY <1>3 DEF Left
  <2>3. (v + 1) + (n - 1) = b + a.n /\ n - 1 \in Nat  BY <1>1, <1>2, <2>2
  <2>4. n - 1 = 0 => v + 1 = wanted(b, a)
    BY <1>1, <1>2, <1>3, <2>3 DEF wanted, ZeroSet, target
  <2>5. n - 1 # 0 => Left(b, v + 1, n - 1, a)  BY <1>2, <1>3, <2>3 DEF Left
  <2> QED BY <2>1, <2>4, <2>5
<1>4. CASE a.mode = "off"
  <2>1. adjust(v, n, a.mode) = <<v - 1, n - 1>>  BY <1>4 DEF adjust
  <2>2. v - n = b - a.n  BY <1>4 DEF Left
  <2> QED BY <1>1, <1>2, <1>4, <2>1, <2>2 DEF Left, wanted, ZeroSet, target
<1>5. CASE a.mode = "set"
  <2>0. n = a.n  BY <1>5 DEF Left
  <2>1. CASE v < n
    <3>1. adjust(v, n, a.mode) = <<v + 1, n>>  BY <1>2, <1>5, <2>1 DEF adjust
    <3> QED BY <1>2, <1>5, <2>0, <3>1 DEF Left
  <2>2. CASE v > n
    <3>1. adjust(v, n, a.mode) = <<v - 1, n>>  BY <1>2, <1>5, <2>2 DEF adjust
    <3> QED BY <1>2, <1>5, <2>0, <3>1 DEF Left
  <2>3. CASE v = n
    <3>1. adjust(v, n, a.mode) = <<v, 0>>  BY <1>2, <1>5, <2>3 DEF adjust
    <3> QED BY <1>2, <1>5, <2>0, <2>3, <3>1 DEF wanted, ZeroSet, target
  <2> QED BY <1>2, <2>1, <2>2, <2>3
<1> QED BY <1>1, <1>3, <1>4, <1>5

LEMMA AdjustInt ==
    ASSUME NEW v \in Int, NEW n, NEW m \in {"set", "on", "off"}
    PROVE  adjust(v, n, m)[1] \in Int
<1>1. adjust(v, n, m) \in {<<v + 1, n - 1>>, <<v - 1, n - 1>>, <<v + 1, n>>, <<v - 1, n>>, <<v, 0>>}
  BY Zenon DEF adjust
<1> QED BY <1>1

LEMMA TuneOutcome ==
    ASSUME NEW u, Running(u), Sound(u), u.de \in {"winsp", "wioff"}, NEW r, Ends(r),
           SameRun(u, r.w), Typed(r.w), r.w.nc = u.nc,
           Tuned(r.w), r.ret => Loose(r.w) /\ Reached(u, r.w)
    PROVE  Outcome(u, r)
<1> DEFINE v == r.w
<1>1. Running(v) /\ v.de = u.de /\ v.torn = u.torn /\ action(v) = action(u)
  BY SameDoing DEF Ends, Running, SameRun
<1>2. doing(v) = u.de /\ doing(u) = u.de  BY <1>1, Runs
<1>3. ~u.torn => u.nc = -1  BY <1>2 DEF Sound, Cycled
<1>4. Tied(v)   BY <1>2 DEF Tied
<1>5. ~v.torn => ~v.reel.loaded  BY <1>1, QuietParts
<1>6. Tuned(v)  OBVIOUS
<1>7. Reeled(v)  BY <1>5 DEF Reeled
<1>8. Cycled(v)  BY <1>1, <1>2, <1>3 DEF Cycled
<1>9. Sound(v)  BY <1>4, <1>6, <1>7, <1>8 DEF Sound
<1> QED BY <1>3, <1>9 DEF Outcome

(* What an adjustment leaves alone.                                        *)
Beside(u, v) ==
    /\ SameRun(u, v) /\ v.nc = u.nc /\ v.saved = u.saved /\ v.data = u.data
    /\ v.reel = u.reel /\ DOMAIN v.st = StFields /\ v.st.dmode = u.st.dmode

LEMMA SpacingOutcome ==
    ASSUME NEW u, Running(u), Sound(u), u.de = "winsp",
           \A r \in dxp_winsp(u, action(u)) : Ends(r)
    PROVE  \A r \in dxp_winsp(u, action(u)) : Outcome(u, r)
<1> DEFINE a == action(u)
           mine == own(u, u.winsp)
           b == [u EXCEPT !.winsp = [t |-> 0, iv |-> a.n, by |-> me(u)], !.base = u.st.winsp]
           v == IF u.winsp.t # 0 THEN u ELSE b
           x == winsp_step(v, a)
           e == [x EXCEPT !.winsp.t = 0, !.winsp.by = None]
           y == [x EXCEPT !.winsp.t = 1]
           Begun(z) == /\ Beside(u, z) /\ z.st.wioff = u.st.wioff /\ z.st.winsp \in Int
                       /\ DOMAIN z.winsp = {"t", "iv", "by"} /\ z.wioff = u.wioff
           By(z) == z.winsp.by = IF mine THEN me(u) ELSE u.winsp.by
           Due(z) == IF z.winsp.iv = 0 THEN z.st.winsp = wanted(z.base, a)
                     ELSE Left(z.base, z.st.winsp, z.winsp.iv, a)
<1>1. dxp_winsp(u, a) = {IF x.winsp.iv = 0 THEN yes(e) ELSE no(y)}
  <2>1. dxp_winsp(u, a) =
           {IF z.winsp.iv = 0 THEN yes([z EXCEPT !.winsp.t = 0, !.winsp.by = None])
            ELSE no([z EXCEPT !.winsp.t = 1]) : z \in {x}}
    <3>1. {winsp_step(q, a) : q \in {v}} = {x}  OBVIOUS
    <3> QED BY <3>1, Zenon DEF dxp_winsp
  <2> HIDE DEF x
  <2> QED BY <2>1
<1>s. Form(u) /\ Typed(u) /\ MoveOk(u) /\ doing(u) = u.de
  BY TypedForm, Runs DEF Sound, Running, Good
<1>a. a \in Action /\ a.n \in Nat /\ a.mode \in {"set", "on", "off"}  BY Runs DEF Action
<1>2. Begun(u)  BY <1>s DEF Beside, SameRun, Typed, MoveOk
<1>3. Begun(b) /\ b.winsp.iv = a.n /\ b.base = u.st.winsp /\ b.st = u.st /\ b.winsp.by = me(u)
  BY <1>s DEF Beside, SameRun, Typed, Form, Shape, Fields
<1>o. u.run \in Nat /\ u.cur # 0 /\ u.active  BY DEF Running, Good, RunOk
<1>4. Begun(v) /\ By(v) /\ (mine => Due(v))
  <2> HIDE DEF b, a
  <2>1. CASE u.winsp.t # 0
    <3>1. mine => u.winsp.by = me(u)  BY <2>1 DEF own
    <3>2. mine => ~Foreign(u, u.winsp)  BY <1>o, <3>1, Owner
    <3>3. mine => Left(u.base, u.st.winsp, u.winsp.iv, a)
      BY <1>o, <3>2 DEF Sound, Tuned, Tuning, a
    <3>4. mine => Due(u)  BY <3>3 DEF Left
    <3> HIDE DEF Due, mine
    <3> QED BY <1>2, <2>1, <3>1, <3>4
  <2>2. CASE u.winsp.t = 0
    <3>1. v = b  BY <2>2
    <3>2. Due(b)
      <4>1. b.st.winsp \in Int /\ b.base = b.st.winsp  BY <1>3
      <4> QED BY <1>3, <1>a, <4>1 DEF Left, wanted, ZeroSet, target
    <3>3. mine  BY <2>2 DEF own
    <3> HIDE DEF v, Due, b, mine
    <3> QED BY <1>3, <3>1, <3>2, <3>3
  <2> QED BY <2>1, <2>2
<1> HIDE DEF v, mine
<1>5. Begun(x) /\ By(x) /\ (mine => Due(x))
  <2> DEFINE n == adjust(v.st.winsp, v.winsp.iv, a.mode)
             p1 == n[1]
             p2 == n[2]
             m == [v EXCEPT !.st.winsp = p1, !.winsp.iv = p2]
             q == want(m, {"RF_CLUSTER", "RF_VMODE"})
  <2>1. x = IF v.winsp.iv = 0 THEN v ELSE q  BY DEF winsp_step
  <2>2. p1 \in Int  BY <1>4, <1>a, AdjustInt
  <2>3. mine /\ v.winsp.iv # 0 =>
           IF p2 = 0 THEN p1 = wanted(v.base, a) ELSE Left(v.base, p1, p2, a)
    BY <1>4, <1>a, AdjustLeft
  <2>4. Form(v)  BY <1>4, <1>s DEF Beside, SameRun, Form, Shape
  <2> HIDE DEF p1, p2, n
  <2>5. Begun(q) /\ q.st.winsp = p1 /\ q.winsp.iv = p2 /\ q.base = v.base /\ q.winsp.by = v.winsp.by
    BY <1>4, <2>2, <2>4, ZenonT(60)
    DEF want, Beside, SameRun, Form, Shape, Fields, StFields
  <2> HIDE DEF q, x
  <2> QED BY <1>4, <2>1, <2>3, <2>5
<1> HIDE DEF x
<1>6. Form(x)  BY <1>5, <1>s DEF Beside, SameRun, Form, Shape
<1>7. Begun(e) /\ e.st = x.st /\ e.base = x.base /\ e.winsp.by = None
  BY <1>5, <1>6, ZenonT(60) DEF Beside, SameRun, Form, Shape, Fields
<1>8. Begun(y) /\ y.st = x.st /\ y.base = x.base /\ y.winsp.iv = x.winsp.iv
      /\ y.winsp.by = x.winsp.by
  BY <1>5, <1>6, ZenonT(60) DEF Beside, SameRun, Form, Shape, Fields
<1>9. ASSUME NEW z, Begun(z)
      PROVE  SameRun(u, z) /\ Typed(z) /\ z.nc = u.nc /\ Foreign(z, z.wioff)
  <2>1. SameRun(u, z) /\ Typed(z) /\ z.nc = u.nc /\ z.wioff = u.wioff
    BY <1>9, <1>s DEF Beside, Typed
  <2>2. Foreign(u, u.wioff)  BY <1>o, <1>s DEF Sound, Tuned, Tuning
  <2> QED BY <2>1, <2>2, ForeignKept
<1> HIDE DEF e, y, Begun
<1>10. CASE x.winsp.iv = 0
  <2>1. Ends(yes(e))  BY <1>1, <1>10
  <2>2. Reached(u, e)  BY <1>s, <1>5, <1>7, <1>10 DEF Reached, mine
  <2>4. Loose(e) /\ Tuned(e)  BY <1>7, <1>9, LooseTuned DEF Loose, Foreign
  <2>3. Outcome(u, yes(e))
    <3>1. yes(e).w = e  BY DEF yes
    <3> QED BY <1>7, <1>9, <2>1, <2>2, <2>4, <3>1, TuneOutcome
  <2> QED BY <1>1, <1>10, <2>3
<1>11. CASE x.winsp.iv # 0
  <2>1. Ends(no(y))  BY <1>1, <1>11
  <2>2. Tuned(y)
    <3>1. SameRun(u, y) /\ Foreign(y, y.wioff)  BY <1>8, <1>9
    <3>2. /\ me(y) = me(u) /\ action(y) = a /\ doing(y) = "winsp"
      BY <1>s, <3>1, SameDoing DEF a
    <3>3. CASE mine
      <4>1. Left(y.base, y.st.winsp, y.winsp.iv, a)  BY <1>5, <1>8, <1>11, <3>3
      <4>2. y.winsp.by = me(u)  BY <1>5, <1>8, <3>3
      <4> QED BY <3>1, <3>2, <4>1, <4>2 DEF Tuned, Tuning
    <3>4. CASE ~mine
      <4>1. y.winsp.by = u.winsp.by /\ u.winsp.by # me(u)  BY <1>5, <1>8, <3>4 DEF mine, own
      <4>2. Foreign(u, u.winsp)  BY <4>1 DEF Sound, Tuned, Tuning
      <4>3. Foreign(y, y.winsp)  BY <3>1, <4>1, <4>2 DEF Foreign, SameRun
      <4> QED BY <3>1, <4>3 DEF Tuned, Tuning
    <3> QED BY <3>3, <3>4
  <2>3. Outcome(u, no(y))
    <3>1. no(y).w = y /\ no(y).ret = FALSE  BY DEF no
    <3> QED BY <1>8, <1>9, <2>1, <2>2, <3>1, TuneOutcome
  <2> QED BY <1>1, <1>11, <2>3
<1> QED BY <1>10, <1>11
LEMMA OffsetOutcome ==
    ASSUME NEW u, Running(u), Sound(u), u.de = "wioff",
           \A r \in dxp_wioff(u, action(u)) : Ends(r)
    PROVE  \A r \in dxp_wioff(u, action(u)) : Outcome(u, r)
<1> DEFINE a == action(u)
           mine == own(u, u.wioff)
           b == [u EXCEPT !.wioff = [t |-> 0, iv |-> a.n, by |-> me(u)], !.base = u.st.wioff]
           v == IF u.wioff.t # 0 THEN u ELSE b
           x == wioff_step(v, a)
           e == [x EXCEPT !.wioff.t = 0, !.wioff.by = None]
           y == [x EXCEPT !.wioff.t = IF @ = Tenth THEN 1 ELSE @ + 1]
           Begun(z) == /\ Beside(u, z) /\ z.st.winsp = u.st.winsp /\ z.st.wioff \in Int
                       /\ DOMAIN z.wioff = {"t", "iv", "by"} /\ z.winsp = u.winsp
           By(z) == z.wioff.by = IF mine THEN me(u) ELSE u.wioff.by
           Due(z) == IF z.wioff.iv = 0 THEN z.st.wioff = wanted(z.base, a)
                     ELSE Left(z.base, z.st.wioff, z.wioff.iv, a)
<1>1. dxp_wioff(u, a) = {IF x.wioff.iv = 0 THEN yes(e) ELSE no(y)}
  <2>1. dxp_wioff(u, a) =
           {IF z.wioff.iv = 0 THEN yes([z EXCEPT !.wioff.t = 0, !.wioff.by = None])
            ELSE no([z EXCEPT !.wioff.t = IF @ = Tenth THEN 1 ELSE @ + 1]) : z \in {x}}
    <3>1. {wioff_step(q, a) : q \in {v}} = {x}  OBVIOUS
    <3> QED BY <3>1, Zenon DEF dxp_wioff
  <2> HIDE DEF x
  <2> QED BY <2>1
<1>s. Form(u) /\ Typed(u) /\ MoveOk(u) /\ doing(u) = u.de
  BY TypedForm, Runs DEF Sound, Running, Good
<1>a. a \in Action /\ a.n \in Nat /\ a.mode \in {"set", "on", "off"}  BY Runs DEF Action
<1>2. Begun(u)  BY <1>s DEF Beside, SameRun, Typed, MoveOk
<1>3. Begun(b) /\ b.wioff.iv = a.n /\ b.base = u.st.wioff /\ b.st = u.st /\ b.wioff.by = me(u)
  BY <1>s DEF Beside, SameRun, Typed, Form, Shape, Fields
<1>o. u.run \in Nat /\ u.cur # 0 /\ u.active  BY DEF Running, Good, RunOk
<1>4. Begun(v) /\ By(v) /\ (mine => Due(v))
  <2> HIDE DEF b, a
  <2>1. CASE u.wioff.t # 0
    <3>1. mine => u.wioff.by = me(u)  BY <2>1 DEF own
    <3>2. mine => ~Foreign(u, u.wioff)  BY <1>o, <3>1, Owner
    <3>3. mine => Left(u.base, u.st.wioff, u.wioff.iv, a)
      BY <1>o, <3>2 DEF Sound, Tuned, Tuning, a
    <3>4. mine => Due(u)  BY <3>3 DEF Left
    <3> HIDE DEF Due, mine
    <3> QED BY <1>2, <2>1, <3>1, <3>4
  <2>2. CASE u.wioff.t = 0
    <3>1. v = b  BY <2>2
    <3>2. Due(b)
      <4>1. b.st.wioff \in Int /\ b.base = b.st.wioff  BY <1>3
      <4> QED BY <1>3, <1>a, <4>1 DEF Left, wanted, ZeroSet, target
    <3>3. mine  BY <2>2 DEF own
    <3> HIDE DEF v, Due, b, mine
    <3> QED BY <1>3, <3>1, <3>2, <3>3
  <2> QED BY <2>1, <2>2
<1> HIDE DEF v, mine
<1>5. Begun(x) /\ By(x) /\ (mine => Due(x))
  <2> DEFINE n == adjust(v.st.wioff, v.wioff.iv, a.mode)
             p1 == n[1]
             p2 == n[2]
             m == [aim(v) EXCEPT !.st.wioff = p1, !.wioff.iv = p2]
             q == want(m, {"RF_CLUSTER", "RF_VMODE"})
  <2>1. x = v \/ (v.wioff.iv # 0 /\ x = q)  BY DEF wioff_step
  <2>2. p1 \in Int  BY <1>4, <1>a, AdjustInt
  <2>3. mine /\ v.wioff.iv # 0 =>
           IF p2 = 0 THEN p1 = wanted(v.base, a) ELSE Left(v.base, p1, p2, a)
    BY <1>4, <1>a, AdjustLeft
  <2>f. Form(v)  BY <1>4, <1>s DEF Beside, SameRun, Form, Shape
  <2>g. Begun(aim(v)) /\ aim(v).base = v.base /\ aim(v).wioff = v.wioff
    BY <1>4, <2>f, ZenonT(60) DEF aim, Beside, SameRun, Form, Shape, Fields
  <2>4. Form(aim(v))  BY <2>g, <1>s DEF Beside, SameRun, Form, Shape
  <2> HIDE DEF p1, p2, n
  <2>5. Begun(q) /\ q.st.wioff = p1 /\ q.wioff.iv = p2 /\ q.base = v.base /\ q.wioff.by = v.wioff.by
    BY <2>g, <2>2, <2>4, ZenonT(60)
    DEF want, Beside, SameRun, Form, Shape, Fields, StFields
  <2> HIDE DEF q, x
  <2> QED BY <1>4, <2>1, <2>3, <2>5
<1> HIDE DEF x
<1>6. Form(x)  BY <1>5, <1>s DEF Beside, SameRun, Form, Shape
<1>7. Begun(e) /\ e.st = x.st /\ e.base = x.base /\ e.wioff.by = None
  BY <1>5, <1>6, ZenonT(60) DEF Beside, SameRun, Form, Shape, Fields
<1>8. Begun(y) /\ y.st = x.st /\ y.base = x.base /\ y.wioff.iv = x.wioff.iv
      /\ y.wioff.by = x.wioff.by
  BY <1>5, <1>6, ZenonT(60) DEF Beside, SameRun, Form, Shape, Fields
<1>9. ASSUME NEW z, Begun(z)
      PROVE  SameRun(u, z) /\ Typed(z) /\ z.nc = u.nc /\ Foreign(z, z.winsp)
  <2>1. SameRun(u, z) /\ Typed(z) /\ z.nc = u.nc /\ z.winsp = u.winsp
    BY <1>9, <1>s DEF Beside, Typed
  <2>2. Foreign(u, u.winsp)  BY <1>o, <1>s DEF Sound, Tuned, Tuning
  <2> QED BY <2>1, <2>2, ForeignKept
<1> HIDE DEF e, y, Begun
<1>10. CASE x.wioff.iv = 0
  <2>1. Ends(yes(e))  BY <1>1, <1>10
  <2>2. Reached(u, e)  BY <1>s, <1>5, <1>7, <1>10 DEF Reached, mine
  <2>4. Loose(e) /\ Tuned(e)  BY <1>7, <1>9, LooseTuned DEF Loose, Foreign
  <2>3. Outcome(u, yes(e))
    <3>1. yes(e).w = e  BY DEF yes
    <3> QED BY <1>7, <1>9, <2>1, <2>2, <2>4, <3>1, TuneOutcome
  <2> QED BY <1>1, <1>10, <2>3
<1>11. CASE x.wioff.iv # 0
  <2>1. Ends(no(y))  BY <1>1, <1>11
  <2>2. Tuned(y)
    <3>1. SameRun(u, y) /\ Foreign(y, y.winsp)  BY <1>8, <1>9
    <3>2. /\ me(y) = me(u) /\ action(y) = a /\ doing(y) = "wioff"
      BY <1>s, <3>1, SameDoing DEF a
    <3>3. CASE mine
      <4>1. Left(y.base, y.st.wioff, y.wioff.iv, a)  BY <1>5, <1>8, <1>11, <3>3
      <4>2. y.wioff.by = me(u)  BY <1>5, <1>8, <3>3
      <4> QED BY <3>1, <3>2, <4>1, <4>2 DEF Tuned, Tuning
    <3>4. CASE ~mine
      <4>1. y.wioff.by = u.wioff.by /\ u.wioff.by # me(u)  BY <1>5, <1>8, <3>4 DEF mine, own
      <4>2. Foreign(u, u.wioff)  BY <4>1 DEF Sound, Tuned, Tuning
      <4>3. Foreign(y, y.wioff)  BY <3>1, <4>1, <4>2 DEF Foreign, SameRun
      <4> QED BY <3>1, <4>3 DEF Tuned, Tuning
    <3> QED BY <3>3, <3>4
  <2>3. Outcome(u, no(y))
    <3>1. no(y).w = y /\ no(y).ret = FALSE  BY DEF no
    <3> QED BY <1>8, <1>9, <2>1, <2>2, <3>1, TuneOutcome
  <2> QED BY <1>1, <1>11, <2>3
<1> QED BY <1>10, <1>11

LEMMA ReelBegins ==
    ASSUME NEW u, Running(u), Sound(u), u.de = "playreel", ~u.reel.loaded, NEW dir \in DOMAIN Reel
    PROVE  LET z == reel_start(u, dir)
           IN  SameRun(u, z) /\ Running(z) /\ z.de = "playreel" /\ Sound(z)
<1> DEFINE b == [u EXCEPT !.reel.dir = dir, !.seen = {}, !.base = u.reel.save]
           v == reel_load(b)
           p == [v EXCEPT !.reel.pos = -1]
           q == reel_advance(p)
           l == [q EXCEPT !.reel.loaded = TRUE, !.reel.by = me(u)]
           z == opt_enable(l, {"REEL"})
           Held(x) == /\ SameRun(u, x) /\ SameTimer(u, x) /\ x.nc = u.nc /\ x.saved = u.saved
                      /\ x.data = u.data /\ DOMAIN x.reel = DOMAIN u.reel /\ x.st = u.st
                      /\ x.reel.save = u.reel.save /\ x.seen = {} /\ x.base = u.reel.save
                      /\ x.winsp = u.winsp /\ x.wioff = u.wioff
<1>s. Form(u) /\ Typed(u) /\ doing(u) = u.de  BY TypedForm, Runs DEF Sound, Running
<1>r. u.reel.loaded = FALSE /\ (~u.torn => ~u.set /\ ~u.done)
  BY <1>s DEF Running, Good, ReelOk, TimerOwn, TimerOk
<1>1. Held(b) /\ b.reel.dir = dir /\ b.reel.loaded = FALSE /\ b.reel.pos = u.reel.pos
  BY <1>s, <1>r, ZenonT(60) DEF Form, Shape, Fields, SameRun, SameTimer
<1>2. Form(b)  BY <1>1, <1>s DEF Form, Shape, SameRun
<1> HIDE DEF b
<1>3. Held(v) /\ v.reel.dir = dir /\ v.reel.loaded = FALSE /\ v.reel.len = frames(dir)
  <2>1. Keeps(b, v) /\ Steady(b, v)  BY <1>2, LoadKeeps, LoadSteady DEF Form
  <2>2. v.reel.len = frames(dir) /\ v.st = b.st
    BY <1>1, <1>2 DEF reel_load, frames, Form, Shape, Fields
  <2> HIDE DEF v
  <2> QED BY <1>1, <2>1, <2>2 DEF Keeps, SameRun, SameTimer, SameReel, Steady
<1>4. Form(v)  BY <1>3, <1>s DEF Form, Shape, SameRun
<1> HIDE DEF v
<1>5. Held(p) /\ p.reel.dir = dir /\ p.reel.len = frames(dir) /\ p.reel.pos = -1
  BY <1>3, <1>4, ZenonT(60) DEF Form, Shape, Fields, SameRun, SameTimer
<1>6. Form(p)  BY <1>5, <1>s DEF Form, Shape, SameRun
<1> HIDE DEF p
<1>f. frames(dir) \in Nat  BY DeusExAssumption DEF frames
<1>7. ASSUME frames(dir) # 0
      PROVE  /\ Held(q) /\ q.reel.dir = dir /\ q.reel.len = frames(dir) /\ q.reel.pos = 0
             /\ "RF_DATASRC" \in q.rf
  <2> DEFINE m == [p EXCEPT !.reel.pos = @ + 1]
  <2>1. q = want(m, {"RF_DATASRC"})  BY <1>5, <1>7, <1>f DEF reel_advance
  <2>2. Held(m) /\ m.reel.dir = dir /\ m.reel.len = frames(dir) /\ m.reel.pos = -1 + 1
    BY <1>5, <1>6, ZenonT(60) DEF Form, Shape, Fields, SameRun, SameTimer
  <2>3. Form(m)  BY <2>2, <1>s DEF Form, Shape, SameRun
  <2> HIDE DEF m, q
  <2>4. /\ Held(q) /\ q.reel = m.reel /\ "RF_DATASRC" \in q.rf
    BY <2>1, <2>2, <2>3 DEF want, Form, Shape, Fields, SameRun, SameTimer
  <2> QED BY <2>2, <2>4
<1> HIDE DEF q
<1>8. ASSUME frames(dir) # 0
      PROVE  /\ Held(l) /\ l.reel.dir = dir /\ l.reel.len = frames(dir) /\ l.reel.pos = 0
             /\ "RF_DATASRC" \in l.rf /\ Form(l)
  <2>1. Form(q)  BY <1>7, <1>8, <1>s DEF Form, Shape, SameRun
  <2>2. Held(l) /\ l.reel.dir = dir /\ l.reel.len = q.reel.len /\ l.reel.pos = q.reel.pos /\ l.rf = q.rf
    BY <1>7, <1>8, <2>1, ZenonT(60) DEF Form, Shape, Fields, SameRun, SameTimer
  <2> HIDE DEF l
  <2>3. Form(l)  BY <2>2, <1>s DEF Form, Shape, SameRun
  <2> QED BY <1>7, <1>8, <2>2, <2>3
<1> HIDE DEF l
<1>9. ASSUME frames(dir) # 0
      PROVE  /\ SameRun(u, z) /\ SameTimer(u, z) /\ Steady(l, z) /\ z.reel.len = frames(dir)
  <2>1. Keeps(l, z) /\ Steady(l, z)  BY <1>8, <1>9, EnableKeeps, EnableSteady DEF Form
  <2>2. Held(l) /\ l.reel.dir = dir /\ l.reel.len = frames(dir)  BY <1>8, <1>9
  <2>3. SameRun(u, z) /\ SameTimer(u, z)
    BY <2>1, <2>2 DEF Keeps, SameRun, SameTimer
  <2>4. z.reel.len = frames(dir)  BY <2>1, <2>2 DEF Keeps, SameReel
  <2> QED BY <2>1, <2>3, <2>4
<1>10. ASSUME NEW x, x = reel_start(u, dir), SameRun(u, x), SameTimer(u, x), x.nc = u.nc,
              x.winsp = u.winsp, x.wioff = u.wioff, Typed(x), Reeled(x)
       PROVE  SameRun(u, x) /\ Running(x) /\ x.de = "playreel" /\ Sound(x)
  <2>1. Running(x) /\ x.de = "playreel"  BY <1>10, ReelStart
  <2>2. doing(x) = "playreel" /\ x.torn = u.torn  BY <2>1, <1>10, Runs DEF SameRun
  <2>3. Tied(x)  BY <1>10, <1>r, <2>2 DEF Tied, SameTimer
  <2>4. Tuned(x)  BY <1>10, LooseKept, LooseTuned DEF Sound
  <2>5. Cycled(x)  BY <1>10, <1>s, <2>2 DEF Sound, Cycled
  <2> QED BY <1>10, <2>1, <2>3, <2>4, <2>5 DEF Sound
<1>11. CASE frames(dir) = 0
  <2>1. reel_start(u, dir) = v  BY <1>3, <1>11 DEF reel_start, v, b
  <2>2. reel_load(b).reel.pos = b.reel.pos  BY <1>2, ZenonT(60) DEF reel_load, Form, Shape, Fields
  <2>3. Typed(v)  BY <1>1, <1>3, <1>s, <2>2 DEF Typed, v
  <2>4. Reeled(v)  BY <1>3 DEF Reeled
  <2> QED BY <1>3, <1>10, <2>1, <2>3, <2>4
<1>12. CASE frames(dir) # 0
  <2>1. reel_start(u, dir) = z  BY <1>3, <1>12 DEF reel_start, z, l, q, p, v, b
  <2>2. /\ SameRun(u, z) /\ SameTimer(u, z) /\ Steady(l, z) /\ z.reel.len = frames(dir)
        /\ Held(l) /\ l.reel.pos = 0 /\ "RF_DATASRC" \in l.rf
    BY <1>8, <1>9, <1>12
  <2> HIDE DEF z
  <2>3. /\ z.reel.pos = 0 /\ z.reel.save = z.base /\ z.seen = {} /\ "RF_DATASRC" \in z.rf
        /\ z.nc = u.nc /\ z.st.winsp = u.st.winsp /\ z.st.wioff = u.st.wioff
        /\ z.st.dmode = u.st.dmode /\ DOMAIN z.st = DOMAIN u.st /\ z.saved = u.saved
        /\ z.data = u.data /\ z.reel.save = u.reel.save
        /\ z.winsp = u.winsp /\ z.wioff = u.wioff
    BY <2>2 DEF Steady
  <2>4. Typed(z)  BY <2>3, <1>s DEF Typed
  <2>5. ~z.torn => z.done = FALSE  BY <2>2, <1>r, <1>s DEF SameTimer, SameRun, Running, Good, TimerOk
  <2>6. Reeled(z)  BY <2>2, <2>3, <2>5, <1>f, <1>12 DEF Reeled
  <2> QED BY <1>10, <2>1, <2>2, <2>3, <2>4, <2>6
<1> QED BY <1>11, <1>12

LEMMA ReelWaitOutcome ==
    ASSUME NEW u, Running(u), Sound(u), u.de = "playreel"
    PROVE  Outcome(u, reel_wait(u))
<1>s. /\ Form(u) /\ Typed(u) /\ doing(u) = u.de /\ TimerOk(u) /\ ReelOk(u) /\ Shape(u)
  BY TypedForm, Runs DEF Sound, Running, Good
<1>c. ~u.torn => u.nc = -1  BY <1>s DEF Sound, Cycled
<1>l. ASSUME NEW v, SameRun(u, v), v.winsp = u.winsp, v.wioff = u.wioff
      PROVE  Loose(v) /\ Tuned(v)
  BY <1>l, LooseKept, LooseTuned DEF Sound
<1>e. Ends(reel_wait(u))  BY ReelWaits
<1> DEFINE t == [take(u) EXCEPT !.reel.save = u.reel.pos]
           m == [t EXCEPT !.reel.loaded = FALSE, !.reel.by = None]
           n == want(m, {"RF_DATASRC"})
           e == opt_disable(n, {"REEL"})
           x == IF u.done THEN t ELSE u
           y == arm(x, "dxpcb_playreel")
           Same(v) == /\ SameRun(u, v) /\ v.nc = u.nc /\ v.saved = u.saved /\ v.data = u.data
                      /\ v.seen = u.seen /\ v.base = u.base /\ v.st = u.st
                      /\ v.rf = u.rf /\ v.winsp = u.winsp /\ v.wioff = u.wioff
                      /\ DOMAIN v.reel = DOMAIN u.reel /\ v.reel.pos = u.reel.pos
                      /\ v.reel.len = u.reel.len /\ v.reel.loaded = u.reel.loaded
<1>1. Same(t) /\ t.reel.save = u.reel.pos /\ t.set = FALSE /\ t.done = FALSE
  <2> DEFINE k == take(u)
  <2>1. Same(k) /\ k.set = FALSE /\ k.done = FALSE
    BY <1>s DEF take, Form, Shape, Fields, SameRun
  <2>2. Form(k)  BY <2>1, <1>s DEF Form, Shape, SameRun
  <2> HIDE DEF k
  <2>3. Same([k EXCEPT !.reel.save = u.reel.pos])
        /\ [k EXCEPT !.reel.save = u.reel.pos].reel.save = u.reel.pos
        /\ [k EXCEPT !.reel.save = u.reel.pos].set = FALSE
        /\ [k EXCEPT !.reel.save = u.reel.pos].done = FALSE
    BY <2>1, <2>2, ZenonT(60) DEF Form, Shape, Fields, SameRun
  <2> QED BY <2>3 DEF k
<1>2. Form(t)  BY <1>1, <1>s DEF Form, Shape, SameRun
<1> HIDE DEF t
<1>3. CASE ~u.reel.loaded \/ u.reel.len = 0
  <2>1. reel_wait(u) = yes(u)  BY <1>3 DEF reel_wait
  <2>2. ~u.torn => ~u.reel.loaded  BY <1>s, <1>3 DEF ReelOk
  <2>3. yes(u).w = u  BY DEF yes
  <2>4. SameRun(u, u) /\ Loose(u)  BY <1>l DEF SameRun
  <2> QED BY <1>s, <1>c, <2>1, <2>2, <2>3, <2>4 DEF Outcome, Reached
<1>4. CASE u.reel.loaded /\ u.reel.len # 0 /\ u.done /\ u.reel.save = u.reel.pos
  <2>1. reel_wait(u) = yes(e)  BY <1>4 DEF reel_wait, t
  <2>2. /\ SameRun(u, m) /\ m.nc = u.nc /\ m.saved = u.saved /\ m.data = u.data /\ m.st = u.st
        /\ m.reel.pos = u.reel.pos /\ m.reel.save = u.reel.pos /\ DOMAIN m.reel = DOMAIN u.reel
        /\ m.winsp = u.winsp /\ m.wioff = u.wioff
    BY <1>1, <1>2, ZenonT(60) DEF Form, Shape, Fields, SameRun
  <2>3. Form(m)  BY <2>2, <1>s DEF Form, Shape, SameRun
  <2> HIDE DEF m
  <2>4. Steady(m, n)  BY <2>3, WantSteady
  <2>5. Steady(m, e)  BY <2>3, <2>4, SteadyForm, DisableSteady, SteadyChain
  <2> HIDE DEF n, e
  <2>6. SameRun(u, e) /\ e.nc = u.nc /\ e.winsp = u.winsp /\ e.wioff = u.wioff
    BY <2>2, <2>5 DEF Steady, SameRun
  <2>l. Loose(e) /\ Tuned(e)  BY <1>l, <2>6
  <2>7. Typed(e)  BY <2>2, <2>5, <1>s DEF Steady, Typed
  <2>8. yes(e).w = e /\ yes(e).ret  BY DEF yes
  <2>9. Good(e) /\ Idle(e) /\ e.torn = u.torn  BY <1>e, <2>1, <2>6, <2>8 DEF Ends, SameRun
  <2>10. Sound(e)  BY <1>c, <2>6, <2>l, <2>7, <2>9, IdleSound
  <2>11. Reached(u, e)  BY <1>s, <1>4 DEF Reached
  <2> QED BY <1>c, <2>1, <2>6, <2>l, <2>8, <2>10, <2>11 DEF Outcome
<1>5. CASE u.reel.loaded /\ u.reel.len # 0 /\ ~(u.done /\ u.reel.save = u.reel.pos)
  <2>1. reel_wait(u) = no(y)  BY <1>5 DEF reel_wait, t
  <2>2. Same(u)  BY DEF SameRun
  <2>3. Same(x) /\ Form(x)  BY <1>1, <1>2, <1>s, <2>2
  <2>4. /\ x.done = FALSE
        /\ ~u.torn => x.reel.save = u.reel.pos \/ (u.reel.pos = 0 /\ x.reel.save = u.base)
    BY <1>1, <1>5, <1>s DEF Sound, Reeled, TimerOk
  <2>5. ~u.torn /\ x.set => x.timers[1].cb = "dxpcb_playreel"
    BY <1>1, <1>s DEF Sound, Tied
  <2>6. TimerOk(x)
    <3>1. u.done => TimerOk(t)
      <4>1. ASSUME u.done PROVE TimerOk(t)
        <5>1. TimerOk(take(u))  BY <1>s, <4>1, Taken
        <5>2. t.set = take(u).set /\ t.done = take(u).done /\ t.timers = take(u).timers
          BY <1>s DEF t, take, Shape, Fields
        <5> QED BY <5>1, <5>2 DEF TimerOk
      <4> QED BY <4>1
    <3> QED BY <1>s, <3>1
  <2>7. Typed(x)
    <3>1. x.reel.save \in Int  BY <1>1, <1>s DEF Typed
    <3> QED BY <2>3, <3>1, <1>s DEF Typed
  <2> HIDE DEF x
  <2>8. Steady(x, y) /\ y.done = x.done /\ y.rf = x.rf /\ y.winsp = x.winsp /\ y.wioff = x.wioff
        /\ y.reel = x.reel
    BY <2>3, TimerSteady DEF arm, Form, Shape, Fields
  <2>9. ~u.torn => y.timers[1].cb = "dxpcb_playreel"
    <3>1. CASE x.set  BY <2>5, <3>1 DEF arm
    <3>2. CASE ~x.set  BY <2>3, <2>6, <3>2, ArmedFor DEF Form
    <3> QED BY <3>1, <3>2
  <2> HIDE DEF y
  <2>10. SameRun(u, y) /\ y.torn = u.torn /\ doing(y) = "playreel" /\ Typed(y) /\ y.nc = u.nc
    <3>1. SameRun(u, y)  BY <2>3, <2>8 DEF Steady, SameRun
    <3> QED BY <1>s, <2>3, <2>7, <2>8, <3>1, SameDoing, SteadyType DEF SameRun, Steady
  <2>11. Tied(y)    BY <2>9, <2>10 DEF Tied
  <2>12. Tuned(y)   BY <1>l, <2>3, <2>8, <2>10
  <2>13. Reeled(y)
    <3>1. SUFFICES ASSUME ~u.torn PROVE Reeled(y)  BY <2>10 DEF Reeled
    <3>2. /\ y.reel.pos = u.reel.pos /\ y.reel.len = u.reel.len /\ y.seen = u.seen
          /\ y.rf = u.rf /\ y.base = u.base /\ y.done = FALSE /\ y.reel.save = x.reel.save
      BY <2>3, <2>4, <2>8 DEF Steady
    <3>3. Reeled(u)  BY DEF Sound
    <3> HIDE DEF Same
    <3> QED BY <1>5, <2>4, <3>1, <3>2, <3>3 DEF Reeled
  <2>14. Cycled(y)  BY <1>c, <2>10 DEF Cycled
  <2>15. Sound(y)   BY <2>10, <2>11, <2>12, <2>13, <2>14 DEF Sound
  <2>16. no(y).w = y /\ no(y).ret = FALSE  BY DEF no
  <2> QED BY <2>1, <2>10, <2>15, <2>16 DEF Outcome
<1> QED BY <1>3, <1>4, <1>5

LEMMA ReelOutcome ==
    ASSUME NEW u, Running(u), Sound(u), u.de = "playreel", NEW a
    PROVE  \A r \in dxp_playreel(u, a) : Outcome(u, r)
<1>1. \A r \in dxp_playreel(u, a) :
         \/ r = reel_wait(u)
         \/ ~u.reel.loaded /\ a.who \in DOMAIN Reel /\ r = reel_wait(reel_start(u, a.who))
  BY Zenon DEF dxp_playreel
<1>2. Outcome(u, reel_wait(u))  BY ReelWaitOutcome
<1>3. ASSUME ~u.reel.loaded, a.who \in DOMAIN Reel
      PROVE  Outcome(u, reel_wait(reel_start(u, a.who)))
  <2> DEFINE z == reel_start(u, a.who)
             r == reel_wait(z)
  <2>1. SameRun(u, z) /\ Running(z) /\ z.de = "playreel" /\ Sound(z)  BY <1>3, ReelBegins
  <2> HIDE DEF z
  <2>2. Outcome(z, r)  BY <2>1, ReelWaitOutcome
  <2> HIDE DEF r
  <2>3. SameRun(u, r.w) /\ z.torn = u.torn  BY <2>1, <2>2 DEF Outcome, SameRun
  <2>4. Reached(u, r.w)  BY <1>3, Runs DEF Reached
  <2>5. Outcome(u, r)  BY <2>2, <2>3, <2>4 DEF Outcome
  <2> QED BY <2>5 DEF r, z
<1> QED BY <1>1, <1>2, <1>3

(* Only classes without nodes are passed over.                             *)
LEMMA NextClass ==
    ASSUME NEW u, u.data \in Data, NEW c \in Nat
    PROVE  /\ next_class(u, c) \in Nat /\ c <= next_class(u, c)
           /\ \A k \in c .. next_class(u, c) - 1 : ~Must(u, k)
<1>1. CASE u.st.dmode \notin {"job", "temp"}
  <2>1. next_class(u, c) = c  BY <1>1 DEF next_class
  <2> QED BY <2>1
<1>2. CASE u.st.dmode \in {"job", "temp"}
  <2> DEFINE n == IF u.st.dmode = "job" THEN NSC ELSE NTEMPC
             T == {d \in c .. c + n + u.data.jobs + 1 : d >= n \/ members(u, d) # {}}
  <2>1. n \in Nat /\ u.data.jobs \in Nat  BY DeusExAssumption
  <2>2. next_class(u, c) = Min(T)  BY <1>2 DEF next_class
  <2> HIDE DEF n
  <2>3. c + n + u.data.jobs + 1 \in T  BY <2>1
  <2>4. T \subseteq Nat  BY <2>1
  <2>5. \E m \in T : \A k \in T : m <= k  BY <2>3, <2>4, LeastNat
  <2>6. Min(T) = CHOOSE m \in T : \A k \in T : m <= k  BY DEF Min
  <2> DEFINE d == Min(T)
  <2>7. d \in T /\ \A k \in T : d <= k
    <3> HIDE DEF T
    <3> QED BY <2>5, <2>6
  <2> HIDE DEF d
  <2>8. d \in Nat /\ c <= d /\ d <= c + n + u.data.jobs + 1  BY <2>1, <2>4, <2>7
  <2>9. ASSUME NEW k \in c .. d - 1 PROVE ~Must(u, k)
    <3>1. k \in c .. c + n + u.data.jobs + 1 /\ k < d  BY <2>1, <2>8
    <3>2. k \notin T  BY <2>4, <2>7, <3>1
    <3>3. members(u, k) = {}  BY <3>1, <3>2
    <3> QED BY <1>2, <3>3 DEF Must
  <2> QED BY <2>2, <2>8, <2>9 DEF d
<1> QED BY <1>1, <1>2

LEMMA SizeNat == ASSUME NEW u, Typed(u) PROVE size(u) \in Nat
<1>1. u.data.jobs \in Nat /\ {NSC, NTEMPC, NRTC} \subseteq Nat  BY DeusExAssumption DEF Typed
<1>2. u.st.dmode \in {"job", "temp", "rte", "same"}  BY DEF Typed, Modes
<1> QED BY <1>1, <1>2 DEF size

(* The classes are those of the mode and of the fetch.                     *)
LEMMA SameClasses ==
    ASSUME NEW u, NEW v, v.st.dmode = u.st.dmode, v.data = u.data
    PROVE  /\ size(v) = size(u) /\ classes(v) = classes(u)
           /\ \A c : (nc_getfp(v, c) <=> nc_getfp(u, c)) /\ (Must(v, c) <=> Must(u, c))
<1>1. size(v) = size(u)  BY DEF size
<1>2. \A c : fp(v, c) = fp(u, c)  BY DEF fp
<1>3. classes(v) = classes(u)  BY <1>1, <1>2 DEF classes
<1>4. \A c : nc_getfp(v, c) <=> nc_getfp(u, c)  BY <1>1 DEF nc_getfp
<1>5. \A c : Must(v, c) <=> Must(u, c)  BY DEF Must, members
<1> QED BY <1>1, <1>3, <1>4, <1>5

LEMMA CycleOutcome ==
    ASSUME NEW u, Running(u), Sound(u), u.de = "cyclenc", NEW a,
           \A r \in dxp_cyclenc(u, a) : Ends(r)
    PROVE  \A r \in dxp_cyclenc(u, a) : Outcome(u, r)
<1>s. /\ Form(u) /\ Typed(u) /\ doing(u) = u.de /\ TimerOk(u) /\ Shape(u)
  BY TypedForm, Runs DEF Sound, Running, Good
<1>l. ASSUME NEW v, SameRun(u, v), v.winsp = u.winsp, v.wioff = u.wioff
      PROVE  Loose(v) /\ Tuned(v)
  BY <1>l, LooseKept, LooseTuned DEF Sound
<1>t. ASSUME NEW v, SameRun(u, v), Typed(v), Good(v), v.active, v.cur # 0, Tied(v), Cycled(v),
             v.winsp = u.winsp, v.wioff = u.wioff
      PROVE  Sound(v)
  <2>1. Running(v) /\ v.de = "cyclenc"  BY <1>t, SameDoing DEF Running, SameRun
  <2>2. Reeled(v)  BY <2>1, QuietParts DEF Reeled
  <2>3. Tuned(v)  BY <1>l, <1>t
  <2> QED BY <1>t, <2>2, <2>3 DEF Sound
<1>d. ASSUME NEW v, SameRun(u, v) PROVE doing(v) = "cyclenc" /\ v.torn = u.torn
  BY <1>d, <1>s, SameDoing DEF SameRun
<1>1. CASE ~u.done
  <2> DEFINE v == arm(u, "dxpcb_cyclenc")
  <2>1. dxp_cyclenc(u, a) = {no(v)}  BY <1>1 DEF dxp_cyclenc
  <2>2. Steady(u, v) /\ v.done = u.done
    BY <1>s, TimerSteady DEF arm, Shape, Fields
  <2>3. Ends(no(v)) /\ no(v).w = v /\ no(v).ret = FALSE  BY <2>1 DEF no
  <2>4. ~u.torn => v.timers[1].cb = "dxpcb_cyclenc"
    <3>1. CASE u.set  BY <1>1, <1>s, <3>1 DEF arm, Sound, Tied
    <3>2. CASE ~u.set  BY <1>s, <3>2, ArmedFor
    <3> QED BY <3>1, <3>2
  <2> HIDE DEF v
  <2>5. SameRun(u, v) /\ Typed(v) /\ v.winsp = u.winsp /\ v.wioff = u.wioff
    BY <1>s, <2>2, SteadyType DEF Steady
  <2>6. doing(v) = "cyclenc" /\ v.torn = u.torn  BY <2>5, <1>d
  <2>7. Tied(v)  BY <2>4, <2>6 DEF Tied
  <2>8. Cycled(v)
    <3>1. \A k : CycledTo(u, k) => CycledTo(v, k)
      BY <2>2, SameClasses DEF CycledTo, Steady
    <3> HIDE DEF CycledTo
    <3> QED BY <1>s, <2>2, <2>6, <3>1 DEF Sound, Cycled, Steady
  <2>9. Sound(v)  BY <1>t, <2>3, <2>5, <2>7, <2>8 DEF Ends
  <2> QED BY <2>1, <2>3, <2>5, <2>9 DEF Outcome
<1>2. CASE u.done
  <2> DEFINE at(c) == [IF u.nc = 0 /\ a.who = "grow" THEN nc_runall_setxparent(u) ELSE u
                           EXCEPT !.nc = c]
             C == IF u.nc = -1 THEN {-1, next_class(u, 0)} ELSE {next_class(u, u.nc)}
             shows(c) == show_class(at(c), c, a.who = "grow")
             Alike(v) == /\ Form(v) /\ SameRun(u, v) /\ v.saved = u.saved /\ v.data = u.data
                         /\ v.st.winsp = u.st.winsp /\ v.st.wioff = u.st.wioff
                         /\ v.st.dmode = u.st.dmode
                         /\ v.reel.pos = u.reel.pos /\ v.reel.save = u.reel.save
                         /\ v.seen = u.seen /\ v.fetched = u.fetched
                         /\ v.timers = u.timers /\ v.winsp = u.winsp /\ v.wioff = u.wioff
  <2>a. ASSUME NEW v, Alike(v), NEW x, Steady(v, x), x.timers = v.timers
        PROVE  Alike(x) /\ x.nc = v.nc
    BY <2>a, SteadyForm DEF Steady, SameRun
  <2>1. \A r \in dxp_cyclenc(u, a) : \E c \in C : r = cycled(u, shows(c), c)
    <3> DEFINE R(c) == {cycled(u, r, c) :
                           r \in {show_class(v, c, a.who = "grow") : v \in {at(c)}}}
    <3>1. dxp_cyclenc(u, a) = UNION {R(c) : c \in C}  BY <1>2, Zenon DEF dxp_cyclenc
    <3> HIDE DEF C
    <3>2. \A c : R(c) = {cycled(u, shows(c), c)}
      <4> HIDE DEF at
      <4> QED OBVIOUS
    <3> HIDE DEF R, shows
    <3> QED BY <3>1, <3>2
  <2>2. ASSUME NEW c \in C
        PROVE  /\ c \in Nat \cup {-1}
               /\ ~u.torn => c \in Nat /\ u.nc \in Nat /\ u.nc <= c
                             /\ CycledTo(u, u.nc - 1)
                             /\ \A k \in u.nc .. c - 1 : ~Must(u, k)
    <3>1. u.data \in Data /\ u.nc \in Nat \cup {-1} /\ 0 \in Nat  BY <1>s DEF Typed
    <3>2. c \in Nat \cup {-1}  BY <3>1, NextClass
    <3>3. ~u.torn => u.nc \in Nat /\ CycledTo(u, u.nc - 1)  BY <1>2, <1>s DEF Sound, Cycled
    <3>4. u.nc \in Nat => c = next_class(u, u.nc)  OBVIOUS
    <3> HIDE DEF C
    <3> QED BY <3>1, <3>2, <3>3, <3>4, NextClass
  <2>3. ASSUME NEW c PROVE Alike(at(c)) /\ at(c).nc = c
    <3> DEFINE z == IF u.nc = 0 /\ a.who = "grow" THEN nc_runall_setxparent(u) ELSE u
    <3>1. Steady(u, z)  BY <1>s, ShowSteady, SteadySelf
    <3>2. Form(z)  BY <1>s, <3>1, SteadyForm
    <3> HIDE DEF z
    <3>t. z.timers = u.timers  BY <1>s, ShowKeeps DEF z, Keeps, SameTimer
    <3>3. Alike(z)  BY <3>1, <3>2, <3>t DEF Steady
    <3>4. Alike([z EXCEPT !.nc = c]) /\ [z EXCEPT !.nc = c].nc = c
      BY <3>2, <3>3 DEF Form, Shape, Fields, SameRun
    <3> QED BY <3>4 DEF z
  <2>4. ASSUME NEW c PROVE Alike(shows(c).w) /\ shows(c).w.nc = c
    <3> DEFINE v == at(c)
               s == nc_runall_setxparent(v)
    <3>1. Form(v) /\ Alike(v) /\ v.nc = c  BY <2>3
    <3> HIDE DEF v
    <3>2. Steady(v, s) /\ Steady(v, v) /\ Steady(v, nc_runall_opaque(v))
          /\ Steady(v, nc_apply_opaque(v, c))
      BY <3>1, ShowSteady, SteadySelf
    <3>3. Form(s)  BY <3>1, <3>2, SteadyForm
    <3>4. Steady(v, nc_apply_opaque(s, c))  BY <3>2, <3>3, ShowSteady, SteadyChain
    <3>5. shows(c).w \in {nc_runall_opaque(v), v, nc_apply_opaque(v, c), nc_apply_opaque(s, c)}
      BY DEF show_class, yes, no, v
    <3>6. /\ s.timers = v.timers /\ nc_runall_opaque(v).timers = v.timers
          /\ nc_apply_opaque(v, c).timers = v.timers /\ nc_apply_opaque(s, c).timers = s.timers
      BY <3>1, <3>3, ShowKeeps DEF Keeps, SameTimer, Form
    <3> HIDE DEF s, shows, Alike
    <3> QED BY <2>a, <3>1, <3>2, <3>4, <3>5, <3>6
  <2>5. ASSUME NEW c \in C, shows(c).ret, ~u.torn PROVE c >= size(u)
    <3>1. c \in Nat  BY <2>2, <2>5
    <3>2. ~nc_getfp(at(c), c)
      <4> HIDE DEF at
      <4> QED BY <2>5, <3>1 DEF show_class, yes, no
    <3>3. ~nc_getfp(u, c)
      <4> HIDE DEF at, C
      <4> QED BY <2>3, <3>2, SameClasses
    <3>4. c \notin 0 .. size(u) - 1  BY <3>3 DEF nc_getfp
    <3> QED BY <1>s, <3>1, <3>4, SizeNat
  <2> HIDE DEF at, shows, C
  <2>6. ASSUME NEW v, Alike(v), v.nc \in Nat \cup {-1} PROVE Typed(v) /\ SameRun(u, v)
    BY <2>6, <1>s DEF Typed, Form
  <2>7. ASSUME NEW c \in C, shows(c).ret, Ends(cycled(u, shows(c), c))
        PROVE  Outcome(u, cycled(u, shows(c), c))
    <3> DEFINE x == shows(c).w
               o == nc_runall_opaque(x)
               m == [o EXCEPT !.nc = -1, !.ncby = None]
               v == take(m)
    <3>1. cycled(u, shows(c), c) = yes(v) /\ yes(v).w = v  BY <2>7, Zenon DEF cycled, yes
    <3>2. Alike(x) /\ Form(x)  BY <2>4
    <3> HIDE DEF x
    <3>3. Steady(x, o) /\ o.hid \cap classes(x) = {}
      <4>1. o.hid = x.hid \ classes(x)  BY <3>2 DEF nc_runall_opaque, want, Form, Shape, Fields
      <4> QED BY <3>2, <4>1, ShowSteady
    <3>t. o.timers = x.timers  BY <3>2, ShowKeeps DEF Keeps, SameTimer, Form
    <3>4. Alike(o) /\ Form(o)  BY <2>a, <3>2, <3>3, <3>t
    <3> HIDE DEF o
    <3>5. Alike(m) /\ m.nc = -1 /\ m.hid = o.hid
      BY <3>4 DEF Form, Shape, Fields, SameRun
    <3> HIDE DEF m
    <3>6. Steady(m, v) /\ v.hid = m.hid /\ v.timers = m.timers
      BY <3>5, TimerSteady DEF take, Form, Shape, Fields
    <3> HIDE DEF v
    <3>7. Alike(v) /\ v.nc = -1  BY <2>a, <3>5, <3>6
    <3>8. Typed(v) /\ SameRun(u, v)  BY <2>6, <3>7
    <3>9. Good(v) /\ Idle(v)  BY <2>7, <3>1 DEF Ends, yes
    <3>l. Loose(v) /\ Tuned(v)  BY <1>l, <3>7
    <3>10. Sound(v)  BY <3>7, <3>8, <3>9, <3>l, IdleSound
    <3>11. Reached(u, v)
      <4>1. SUFFICES ASSUME ~u.torn, ~u.fetched
                     PROVE  /\ {k \in 0 .. size(u) - 1 : Must(u, k)} \subseteq u.seen
                            /\ v.hid \cap classes(u) = {}
        BY <1>s DEF Reached
      <4>2. classes(x) = classes(u)  BY <3>2, SameClasses
      <4>3. v.hid \cap classes(u) = {}  BY <3>3, <3>5, <3>6, <4>2
      <4>4. ASSUME NEW k \in 0 .. size(u) - 1, Must(u, k) PROVE k \in u.seen
        <5>1. /\ c \in Nat /\ u.nc \in Nat /\ u.nc <= c /\ CycledTo(u, u.nc - 1)
              /\ \A j \in u.nc .. c - 1 : ~Must(u, j)
          BY <2>2, <4>1
        <5>2. size(u) \in Nat /\ c >= size(u)  BY <1>s, <2>5, <2>7, <4>1, SizeNat
        <5>3. k \in Nat /\ k < c  BY <5>1, <5>2
        <5>4. k \notin u.nc .. c - 1  BY <4>4, <5>1
        <5>5. k \in 0 .. u.nc - 1  BY <5>1, <5>3, <5>4
        <5> QED BY <4>1, <4>4, <5>1, <5>5 DEF CycledTo
      <4> QED BY <4>3, <4>4
    <3> QED BY <3>1, <3>7, <3>8, <3>l, <3>10, <3>11 DEF Outcome
  <2>8. ASSUME NEW c \in C, ~shows(c).ret, Ends(cycled(u, shows(c), c))
        PROVE  Outcome(u, cycled(u, shows(c), c))
    <3> DEFINE x == shows(c).w
               S == (IF u.nc = 0 THEN {} ELSE x.seen) \cup {c}
               m == [x EXCEPT !.seen = S, !.ncby = me(u)]
               t == take(m)
               v == arm(t, "dxpcb_cyclenc")
    <3>1. cycled(u, shows(c), c) = no(v) /\ no(v).w = v /\ no(v).ret = FALSE
      BY <2>8, Zenon DEF cycled, no
    <3>2. Alike(x) /\ x.nc = c  BY <2>4
    <3> HIDE DEF x
    <3>s. S = (IF u.nc = 0 THEN {} ELSE u.seen) \cup {c}  BY <3>2
    <3> HIDE DEF S
    <3>3. /\ Form(m) /\ SameRun(u, m) /\ m.saved = u.saved /\ m.data = u.data
          /\ m.st.winsp = u.st.winsp /\ m.st.wioff = u.st.wioff /\ m.st.dmode = u.st.dmode
          /\ m.reel.pos = u.reel.pos /\ m.reel.save = u.reel.save /\ m.fetched = u.fetched
          /\ m.nc = c /\ m.seen = S /\ m.timers = u.timers
          /\ m.winsp = u.winsp /\ m.wioff = u.wioff
      BY <3>2 DEF Form, Shape, Fields, SameRun
    <3> HIDE DEF m
    <3>4. Steady(m, t) /\ t.set = FALSE /\ t.done = FALSE /\ t.timers = m.timers
      BY <3>3, TimerSteady DEF take, Form, Shape, Fields
    <3>5. Form(t)  BY <3>3, <3>4, SteadyForm
    <3> HIDE DEF t
    <3>6. /\ Steady(t, v) /\ v.done = FALSE
          /\ v.timers = Append(t.timers, [cb |-> "dxpcb_cyclenc", by |-> me(t)])
      BY <3>4, <3>5, TimerSteady DEF arm, Form, Shape, Fields
    <3> HIDE DEF v
    <3>7. /\ SameRun(u, v) /\ v.saved = u.saved /\ v.data = u.data
          /\ v.st.winsp = u.st.winsp /\ v.st.wioff = u.st.wioff /\ v.st.dmode = u.st.dmode
          /\ v.reel.pos = u.reel.pos /\ v.reel.save = u.reel.save /\ v.fetched = u.fetched
          /\ v.nc = c /\ v.seen = S /\ Form(v) /\ v.winsp = u.winsp /\ v.wioff = u.wioff
      BY <3>3, <3>4, <3>5, <3>6, SteadyForm DEF Steady, SameRun
    <3>8. Typed(v)  BY <2>2, <3>7, <1>s DEF Typed, Form
    <3>9. Good(v) /\ v.active /\ v.cur # 0  BY <2>8, <3>1 DEF Ends
    <3>10. doing(v) = "cyclenc" /\ v.torn = u.torn  BY <3>7, <1>d
    <3>11. Tied(v)
      <4> DEFINE z == [cb |-> "dxpcb_cyclenc", by |-> me(t)]
      <4>1. t.timers = <<>>  BY <1>2, <1>s, <3>3, <3>4 DEF TimerOk
      <4>2. z.cb = "dxpcb_cyclenc" /\ v.timers = Append(t.timers, z)  BY <3>6
      <4> HIDE DEF z
      <4>3. Append(<<>>, z)[1] = z  OBVIOUS
      <4> QED BY <3>10, <4>1, <4>2, <4>3 DEF Tied
    <3>12. Cycled(v)
      <4>1. SUFFICES ASSUME ~u.torn, ~u.fetched, NEW k \in 0 .. c, Must(v, k) PROVE k \in v.seen
        BY <2>2, <3>6, <3>7, <3>10 DEF Cycled, CycledTo
      <4>2. Must(u, k)  BY <3>7, <4>1, SameClasses
      <4>3. /\ c \in Nat /\ u.nc \in Nat /\ u.nc <= c /\ CycledTo(u, u.nc - 1)
            /\ \A j \in u.nc .. c - 1 : ~Must(u, j)
        BY <2>2, <4>1
      <4>4. k \in 0 .. u.nc - 1 \/ k = c  BY <4>2, <4>3
      <4>5. k \in 0 .. u.nc - 1 => u.nc # 0 /\ k \in u.seen
        BY <4>1, <4>2, <4>3 DEF CycledTo
      <4> QED BY <3>7, <3>s, <4>4, <4>5
    <3>13. Sound(v)  BY <1>t, <3>7, <3>8, <3>9, <3>11, <3>12
    <3> QED BY <3>1, <3>7, <3>13 DEF Outcome
  <2> QED BY <2>1, <2>7, <2>8
<1> QED BY <1>1, <1>2

(* Every action of dxtab[], one frame of it.                               *)
LEMMA UpdateOutcome ==
    ASSUME NEW u, Running(u), Sound(u)
    PROVE  \A r \in de_update(u, u.de, action(u)) : Outcome(u, r)
<1> DEFINE a == action(u)
<1>1. a \in Action /\ u.de \in Directives /\ Form(u)  BY Runs, TypedForm DEF Sound, Running
<1>2. \A r \in de_update(u, u.de, a) : Ends(r)  BY UpdateEnds
<1>3. ASSUME u.de \notin Counting, \A r \in de_update(u, u.de, a) : Steady(u, r.w)
      PROVE  \A r \in de_update(u, u.de, a) : Outcome(u, r)
  BY <1>2, <1>3, SteadyOutcome
<1>4. SUFFICES \A r \in de_update(u, u.de, a) : Outcome(u, r)  OBVIOUS
<1>5. CASE u.de = "bird"
  <2>1. de_update(u, u.de, a) = dxp_bird(u, a)  BY <1>5 DEF de_update
  <2>2. \A r \in dxp_bird(u, a) : Steady(u, r.w)  BY <1>1, CameraSteady
  <2> QED BY <1>3, <1>5, <2>1, <2>2 DEF Counting
<1>6. CASE u.de = "camsync"
  <2>1. de_update(u, u.de, a) = dxp_camsync(u, a)  BY <1>6 DEF de_update
  <2>2. \A r \in dxp_camsync(u, a) : Steady(u, r.w)  BY <1>1, CameraSteady
  <2> QED BY <1>3, <1>6, <2>1, <2>2 DEF Counting
<1>7. CASE u.de = "camlook"
  <2>1. de_update(u, u.de, a) = dxp_camlook(u, a)  BY <1>7 DEF de_update
  <2>2. \A r \in dxp_camlook(u, a) : Steady(u, r.w)  BY <1>1, CameraSteady
  <2> QED BY <1>3, <1>7, <2>1, <2>2 DEF Counting
<1>8. CASE u.de = "campos"
  <2>1. de_update(u, u.de, a) = dxp_campos(u, a)  BY <1>8 DEF de_update
  <2>2. \A r \in dxp_campos(u, a) : Steady(u, r.w)  BY <1>1, CameraSteady
  <2> QED BY <1>3, <1>8, <2>1, <2>2 DEF Counting
<1>9. CASE u.de = "camuprot"
  <2>1. de_update(u, u.de, a) = dxp_camuprot(u, a)  BY <1>9 DEF de_update
  <2>2. \A r \in dxp_camuprot(u, a) : Steady(u, r.w)  BY <1>1, CameraSteady
  <2> QED BY <1>3, <1>9, <2>1, <2>2 DEF Counting
<1>10. CASE u.de = "clrsn"
  <2>1. de_update(u, u.de, a) = dxp_clrsn(u, a)  BY <1>10 DEF de_update
  <2>2. \A r \in dxp_clrsn(u, a) : Steady(u, r.w)  BY <1>1, PickSteady
  <2> QED BY <1>3, <1>10, <2>1, <2>2 DEF Counting
<1>11. CASE u.de = "corkscrew"
  <2>1. de_update(u, u.de, a) = dxp_corkscrew(u, a)  BY <1>11 DEF de_update
  <2>2. \A r \in dxp_corkscrew(u, a) : Steady(u, r.w)  BY <1>1, TurnSteady
  <2> QED BY <1>3, <1>11, <2>1, <2>2 DEF Counting
<1>12. CASE u.de = "cuban8"
  <2>1. de_update(u, u.de, a) = dxp_cuban8(u, a)  BY <1>12 DEF de_update
  <2>2. \A r \in dxp_cuban8(u, a) : Steady(u, r.w)  BY <1>1, RestSteady
  <2> QED BY <1>3, <1>12, <2>1, <2>2 DEF Counting
<1>13. CASE u.de = "curlyq"
  <2>1. de_update(u, u.de, a) = dxp_curlyq(u, a)  BY <1>13 DEF de_update
  <2>2. \A r \in dxp_curlyq(u, a) : Steady(u, r.w)  BY <1>1, TurnSteady
  <2> QED BY <1>3, <1>13, <2>1, <2>2 DEF Counting
<1>14. CASE u.de = "cyclenc"
  <2>1. de_update(u, u.de, a) = dxp_cyclenc(u, a)  BY <1>14 DEF de_update
  <2> QED BY <1>2, <1>14, <2>1, CycleOutcome
<1>15. CASE u.de = "dmode"
  <2>1. de_update(u, u.de, a) = dxp_dmode(u, a)  BY <1>15 DEF de_update
  <2> QED BY <1>2, <1>15, <2>1, ModeOutcome
<1>16. CASE u.de = "exit"
  <2>1. de_update(u, u.de, a) = dxp_exit(u, a)  BY <1>16 DEF de_update
  <2>2. \A r \in dxp_exit(u, a) : Steady(u, r.w)  BY <1>1, RestSteady
  <2> QED BY <1>3, <1>16, <2>1, <2>2 DEF Counting
<1>17. CASE u.de = "focus"
  <2>1. de_update(u, u.de, a) = dxp_focus(u, a)  BY <1>17 DEF de_update
  <2>2. \A r \in dxp_focus(u, a) : Steady(u, r.w)  BY <1>1, CameraSteady
  <2> QED BY <1>3, <1>17, <2>1, <2>2 DEF Counting
<1>18. CASE u.de = "hl"
  <2>1. de_update(u, u.de, a) = dxp_hl(u, a)  BY <1>18 DEF de_update
  <2>2. \A r \in dxp_hl(u, a) : Steady(u, r.w)  BY <1>1, PickSteady
  <2> QED BY <1>3, <1>18, <2>1, <2>2 DEF Counting
<1>19. CASE u.de = "move"
  <2>1. de_update(u, u.de, a) = dxp_cam_move(u, a)  BY <1>19 DEF de_update
  <2>2. \A r \in dxp_cam_move(u, a) : Steady(u, r.w)  BY <1>1, TurnSteady
  <2> QED BY <1>3, <1>19, <2>1, <2>2 DEF Counting
<1>20. CASE u.de = "nodesync"
  <2>1. de_update(u, u.de, a) = dxp_nodesync(u, a)  BY <1>20 DEF de_update
  <2>2. \A r \in dxp_nodesync(u, a) : Steady(u, r.w)  BY <1>1, CameraSteady
  <2> QED BY <1>3, <1>20, <2>1, <2>2 DEF Counting
<1>21. CASE u.de = "opt"
  <2>1. de_update(u, u.de, a) = dxp_opt(u, a)  BY <1>21 DEF de_update
  <2>2. \A r \in dxp_opt(u, a) : Steady(u, r.w)  BY <1>1, ChooseSteady
  <2> QED BY <1>3, <1>21, <2>1, <2>2 DEF Counting
<1>22. CASE u.de = "orbit"
  <2>1. de_update(u, u.de, a) = dxp_orbit(u, a)  BY <1>22 DEF de_update
  <2>2. \A r \in dxp_orbit(u, a) : Steady(u, r.w)  BY <1>1, TurnSteady
  <2> QED BY <1>3, <1>22, <2>1, <2>2 DEF Counting
<1>23. CASE u.de = "panel"
  <2>1. de_update(u, u.de, a) = dxp_panel(u, a)  BY <1>23 DEF de_update
  <2>2. \A r \in dxp_panel(u, a) : Steady(u, r.w)  BY <1>1, ChooseSteady
  <2> QED BY <1>3, <1>23, <2>1, <2>2 DEF Counting
<1>24. CASE u.de = "pipemode"
  <2>1. de_update(u, u.de, a) = dxp_pipemode(u, a)  BY <1>24 DEF de_update
  <2>2. \A r \in dxp_pipemode(u, a) : Steady(u, r.w)  BY <1>1, ChooseSteady
  <2> QED BY <1>3, <1>24, <2>1, <2>2 DEF Counting
<1>25. CASE u.de = "pstick"
  <2>1. de_update(u, u.de, a) = dxp_pstick(u, a)  BY <1>25 DEF de_update
  <2>2. \A r \in dxp_pstick(u, a) : Steady(u, r.w)  BY <1>1, ChooseSteady
  <2> QED BY <1>3, <1>25, <2>1, <2>2 DEF Counting
<1>26. CASE u.de = "playreel"
  <2>1. de_update(u, u.de, a) = dxp_playreel(u, a)  BY <1>26 DEF de_update
  <2> QED BY <1>2, <1>26, <2>1, ReelOutcome
<1>27. CASE u.de = "refocus"
  <2>1. de_update(u, u.de, a) = dxp_refocus(u, a)  BY <1>27 DEF de_update
  <2>2. \A r \in dxp_refocus(u, a) : Steady(u, r.w)  BY <1>1, CameraSteady
  <2> QED BY <1>3, <1>27, <2>1, <2>2 DEF Counting
<1>28. CASE u.de = "refresh"
  <2>1. de_update(u, u.de, a) = dxp_refresh(u, a)  BY <1>28 DEF de_update
  <2>2. \A r \in dxp_refresh(u, a) : Steady(u, r.w)  BY <1>1, RestSteady
  <2> QED BY <1>3, <1>28, <2>1, <2>2 DEF Counting
<1>29. CASE u.de = "seljob"
  <2>1. de_update(u, u.de, a) = dxp_selnc(u, a)  BY <1>29 DEF de_update
  <2>2. \A r \in dxp_selnc(u, a) : Steady(u, r.w)  BY <1>1, PickSteady
  <2> QED BY <1>3, <1>29, <2>1, <2>2 DEF Counting
<1>30. CASE u.de = "selnode"
  <2>1. de_update(u, u.de, a) = dxp_selnode(u, a)  BY <1>30 DEF de_update
  <2>2. \A r \in dxp_selnode(u, a) : Steady(u, r.w)  BY <1>1, PickSteady
  <2> QED BY <1>3, <1>30, <2>1, <2>2 DEF Counting
<1>31. CASE u.de = "setcap"
  <2>1. de_update(u, u.de, a) = dxp_caption(u, a)  BY <1>31 DEF de_update
  <2>2. \A r \in dxp_caption(u, a) : Steady(u, r.w)  BY <1>1, RestSteady
  <2> QED BY <1>3, <1>31, <2>1, <2>2 DEF Counting
<1>32. CASE u.de = "stall"
  <2>1. de_update(u, u.de, a) = dxp_stall(u, a)  BY <1>32 DEF de_update
  <2> QED BY <1>2, <1>32, <2>1, StallOutcome
<1>33. CASE u.de = "subsel"
  <2>1. de_update(u, u.de, a) = dxp_subsel(u, a)  BY <1>33 DEF de_update
  <2>2. \A r \in dxp_subsel(u, a) : Steady(u, r.w)  BY <1>1, PickSteady
  <2> QED BY <1>3, <1>33, <2>1, <2>2 DEF Counting
<1>34. CASE u.de = "vmode"
  <2>1. de_update(u, u.de, a) = dxp_vmode(u, a)  BY <1>34 DEF de_update
  <2>2. \A r \in dxp_vmode(u, a) : Steady(u, r.w)  BY <1>1, ChooseSteady
  <2> QED BY <1>3, <1>34, <2>1, <2>2 DEF Counting
<1>35. CASE u.de = "winsp"
  <2>1. de_update(u, u.de, a) = dxp_winsp(u, a)  BY <1>35 DEF de_update
  <2> QED BY <1>2, <1>35, <2>1, SpacingOutcome
<1>36. CASE u.de = "wioff"
  <2>1. de_update(u, u.de, a) = dxp_wioff(u, a)  BY <1>36 DEF de_update
  <2> QED BY <1>2, <1>36, <2>1, OffsetOutcome
<1> HIDE DEF a
<1> QED BY <1>1, <1>5, <1>6, <1>7, <1>8, <1>9, <1>10, <1>11, <1>12, <1>13, <1>14, <1>15,
       <1>16, <1>17, <1>18, <1>19, <1>20, <1>21, <1>22, <1>23, <1>24, <1>25, <1>26,
       <1>27, <1>28, <1>29, <1>30, <1>31, <1>32, <1>33, <1>34, <1>35, <1>36 DEF
       Directives

(* To be at another action changes nothing that is counted.                *)
LEMMA GotoSound ==
    ASSUME NEW u, Good(u), Sound(u), u.active, NEW c, NEW de,
           Good(goto(u, c, de)),
           \/ c = u.cur
           \/ Idle(u) /\ Loose(u) /\ (~u.torn => u.nc = -1)
    PROVE  Sound(goto(u, c, de))
<1> DEFINE v == goto(u, c, de)
<1>1. /\ v.cur = c /\ v.active = u.active /\ v.parsed = u.parsed /\ v.torn = u.torn
      /\ v.run = u.run /\ v.set = u.set /\ v.done = u.done /\ v.timers = u.timers
      /\ v.winsp = u.winsp /\ v.wioff = u.wioff /\ v.reel = u.reel
      /\ v.st = u.st /\ v.saved = u.saved /\ v.base = u.base /\ v.nc = u.nc
      /\ v.data = u.data /\ v.seen = u.seen /\ v.fetched = u.fetched /\ v.rf = u.rf
  <2>1. Shape(u)  BY GoodShape
  <2> QED BY <2>1 DEF goto, Shape, Fields
<1>k. Good(v)  OBVIOUS
<1>n. Idle(u) => /\ ~u.torn => ~u.set /\ ~u.reel.loaded
  BY DEF Idle
<1> HIDE DEF v
<1>2. Typed(v)  BY <1>1 DEF Sound, Typed
<1>3. CASE c = u.cur
  <2>1. dxlist(v) = dxlist(u)  BY <1>1 DEF dxlist
  <2>2. action(v) = action(u)  BY <1>1, <1>3, <2>1 DEF action
  <2>3. doing(v) = doing(u)  BY <1>1, <1>3, <2>2 DEF doing
  <2>4. Tied(v)   BY <1>1, <2>3 DEF Sound, Tied
  <2>a. me(v) = me(u)  BY <1>1, <1>3 DEF me
  <2>5. Tuned(v)  BY <1>1, <2>2, <2>3, <2>a DEF Sound, Tuned, Tuning, Foreign
  <2>6. Reeled(v)  BY <1>1 DEF Sound, Reeled
  <2>7. Cycled(v)
    <3>1. \A e : Must(v, e) <=> Must(u, e)  BY <1>1 DEF Must, members
    <3>2. \A k : CycledTo(u, k) => CycledTo(v, k)  BY <1>1, <3>1 DEF CycledTo
    <3> QED BY <1>1, <2>3, <3>2 DEF Sound, Cycled
  <2> QED BY <1>2, <2>4, <2>5, <2>6, <2>7 DEF Sound, v
<1>4. CASE Idle(u) /\ Loose(u) /\ (~u.torn => u.nc = -1)
  <2>1. Tied(v)    BY <1>1, <1>4, <1>n DEF Tied
  <2>2. Tuned(v)   BY <1>1, <1>4, LooseTuned DEF Loose, Foreign
  <2>3. Reeled(v)  BY <1>1, <1>4, <1>n DEF Reeled
  <2>4. ~v.torn => ~v.done  BY <1>1, <1>4, <1>n, <1>k DEF Good, TimerOk
  <2>5. Cycled(v)  BY <1>1, <1>4, <2>4 DEF Cycled
  <2> QED BY <1>2, <2>1, <2>2, <2>3, <2>5 DEF Sound, v
<1> QED BY <1>3, <1>4

LEMMA NextSame ==
    ASSUME NEW u, Shape(u)
    PROVE  /\ dx_next(u).st = u.st /\ dx_next(u).base = u.base /\ dx_next(u).hid = u.hid
           /\ dx_next(u).torn = u.torn
BY DEF dx_next, Shape, Fields

LEMMA NextSound ==
    ASSUME NEW u, Good(u), Sound(u), u.active, u.cur # 0, Idle(u), Loose(u),
           ~u.torn => u.nc = -1
    PROVE  Sound(dx_next(u))
<1> DEFINE c == IF u.cur = Len(dxlist(u)) THEN 0 ELSE u.cur + 1
<1>1. dx_next(u) = goto(u, c, "")  BY DEF dx_next, goto
<1>2. Good(dx_next(u))  BY NextGood
<1> HIDE DEF c
<1> QED BY <1>1, <1>2, GotoSound

LEMMA FrameSound ==
    ASSUME NEW u, Good(u), Sound(u), u.active, NEW v \in dx_update(u)
    PROVE  /\ Good(v) /\ Sound(v) /\ v.torn = u.torn
           /\ u.cur # 0 /\ v.cur # u.cur => Reached(u, v)
<1>1. Good(v)  BY FrameGood
<1>2. CASE has(u, "STOP") \/ (u.cur = 0 /\ dxlist(u) = <<>>)
  <2>1. v = u  BY <1>2 DEF dx_update
  <2> QED BY <1>1, <2>1
<1>3. CASE ~has(u, "STOP") /\ ~(u.cur = 0 /\ dxlist(u) = <<>>)
  <2> DEFINE i == IF u.cur = 0 THEN 1 ELSE u.cur
  <2>1. PICK x : /\ Running(x) /\ \E f : x = goto(u, i, f)
                 /\ dx_update(u) = {IF r.ret THEN dx_next(r.w) ELSE r.w :
                                       r \in de_update(x, x.de, action(x))}
    BY <1>3, FrameRuns
  <2>2. PICK f : x = goto(u, i, f)  BY <2>1
  <2>3. PICK r \in de_update(x, x.de, action(x)) : v = IF r.ret THEN dx_next(r.w) ELSE r.w
    BY <2>1
  <2>4. Good(x) /\ u.active  BY <2>1 DEF Running
  <2>5. i = u.cur \/ (Idle(u) /\ Loose(u) /\ (~u.torn => u.nc = -1))
    <3>1. CASE u.cur = 0
      <4>1. Idle(u)  BY <3>1, Resting
      <4>2. doing(u) = ""  BY <3>1 DEF doing
      <4>3. ~u.torn => u.nc = -1  BY <4>2 DEF Sound, Cycled
      <4>4. Loose(u)  BY <4>2 DEF Sound, Tuned, Tuning, Loose
      <4> QED BY <4>1, <4>3, <4>4
    <3>2. CASE u.cur # 0  BY <3>2
    <3> QED BY <3>1, <3>2
  <2>6. /\ x.cur = i /\ x.active = u.active /\ x.parsed = u.parsed /\ x.torn = u.torn
        /\ x.reel = u.reel /\ x.done = u.done /\ x.st = u.st /\ x.data = u.data
        /\ x.seen = u.seen /\ x.fetched = u.fetched /\ x.run = u.run
        /\ x.winsp = u.winsp /\ x.wioff = u.wioff
    <3>1. Shape(u)  BY GoodShape
    <3> HIDE DEF i
    <3> QED BY <2>2, <3>1 DEF goto, Shape, Fields
  <2> HIDE DEF i
  <2>7. Sound(x)  BY <2>2, <2>4, <2>5, GotoSound
  <2>8. Ends(r) /\ Outcome(x, r)  BY <2>1, <2>3, <2>7, UpdateEnds, UpdateOutcome
  <2>9. Good(r.w) /\ r.w.active /\ r.w.cur # 0 /\ (r.ret => Idle(r.w))  BY <2>8 DEF Ends
  <2>10. r.w.torn = u.torn /\ r.w.cur = i /\ Sound(r.w)  BY <2>6, <2>8 DEF Outcome, SameRun
  <2>11. CASE ~r.ret
    <3>1. v = r.w  BY <2>3, <2>11
    <3> QED BY <1>1, <2>10, <3>1 DEF i
  <2>12. CASE r.ret
    <3>1. v = dx_next(r.w)  BY <2>3, <2>12
    <3>2. ~r.w.torn => r.w.nc = -1  BY <2>6, <2>8, <2>10, <2>12 DEF Outcome
    <3>l. Loose(r.w)  BY <2>8, <2>12 DEF Outcome
    <3>3. Sound(v)  BY <2>9, <2>10, <2>12, <3>1, <3>2, <3>l, NextSound
    <3>4. v.st = r.w.st /\ v.base = r.w.base /\ v.hid = r.w.hid /\ v.torn = u.torn
      BY <2>9, <2>10, <3>1, GoodShape, NextSame
    <3>5. ASSUME u.cur # 0 PROVE Reached(u, v)
      <4>1. Reached(x, r.w)  BY <2>8, <2>12 DEF Outcome
      <4>2. x.cur = u.cur  BY <2>6, <3>5 DEF i
      <4>3. dxlist(x) = dxlist(u)  BY <2>6 DEF dxlist
      <4>4. action(x) = action(u)  BY <4>2, <4>3 DEF action
      <4>5. doing(x) = doing(u)  BY <2>6, <4>2, <4>4 DEF doing
      <4>6. size(x) = size(u)  BY <2>6, Zenon DEF size
      <4>7. \A c : Must(x, c) <=> Must(u, c)  BY <2>6 DEF Must, members
      <4>8. \A c : fp(x, c) = fp(u, c)  BY <2>6 DEF fp
      <4>9. classes(x) = classes(u)  BY <4>6, <4>8 DEF classes
      <4>10. {c \in 0 .. size(x) - 1 : Must(x, c)} = {c \in 0 .. size(u) - 1 : Must(u, c)}
        BY <4>6, <4>7
      <4>11. me(x) = me(u)  BY <2>6, <4>2 DEF me
      <4>12. (own(u, u.winsp) => own(x, x.winsp)) /\ (own(u, u.wioff) => own(x, x.wioff))
        BY <2>6, <4>11 DEF own
      <4> QED BY <2>6, <3>4, <4>1, <4>4, <4>5, <4>9, <4>10, <4>12 DEF Reached
    <3> QED BY <1>1, <3>3, <3>4, <3>5
  <2> QED BY <2>11, <2>12
<1> QED BY <1>2, <1>3

(* Drawing the camera on its way counts nothing.                           *)
LEMMA TweenSound ==
    ASSUME NEW u, Good(u), Sound(u)
    PROVE  LET v == tween_update(u) IN
           /\ Good(v) /\ Sound(v) /\ v.cur = u.cur /\ v.torn = u.torn
           /\ v.st = u.st /\ v.base = u.base /\ v.hid = u.hid
<1> DEFINE v == tween_update(u)
<1>1. Shape(u) /\ Form(u)  BY GoodShape, TypedForm DEF Sound
<1>2. Keeps(u, v) /\ Steady(u, v)  BY <1>1, TweenKeeps, TweenSteady
<1>3. Good(v) /\ Sound(v)
  <2> HIDE DEF v
  <2> QED BY <1>2, KeepsGood, KeepsSound
<1>4. v.cur = u.cur /\ v.torn = u.torn /\ v.st = u.st /\ v.base = u.base /\ v.hid = u.hid
  BY <1>1 DEF tween_update, Shape, Fields
<1> QED BY <1>3, <1>4

(* A fetch brings the frame that is played, and other classes.             *)
LEMMA RebuildSound ==
    ASSUME NEW u, Good(u), Sound(u), NEW v \in rebuild(u)
    PROVE  /\ Good(v) /\ Sound(v) /\ ReelDue(v) /\ v.cur = u.cur /\ v.torn = u.torn
           /\ v.st = u.st /\ v.base = u.base /\ v.hid \subseteq u.hid
<1>s. Shape(u) /\ Good(v) /\ Form(u)  BY GoodShape, RebuildGood, TypedForm DEF Sound
<1> DEFINE moving == has(u, "NODEANIM") /\ u.st.vmode # "wired"
           G == u.rf \cup (IF "RF_DATASRC" \in u.rf THEN {"RF_VMODE"} ELSE {})
           far == IF ~moving THEN 0 ELSE IF "RF_VMODE" \in G THEN Frames ELSE u.far
           step == moving /\ G # {} /\ far > 0 /\ ~has(u, "STOP")
           AA == IF step THEN far - 1 ELSE far
           FF == IF step THEN {"RF_CLUSTER"} ELSE {}
           b == [u EXCEPT !.far = AA, !.rf = FF]
           S == IF u.reel.loaded THEN b.seen \cup {u.reel.pos} ELSE b.seen
           H(d) == {c \in b.hid : c[1] # "job" \/ c[2] < NSC + d.jobs}
           g(d) == [b EXCEPT !.caption = None, !.data = d, !.fetched = TRUE, !.seen = S,
                             !.hid = H(d)]
<1>1. rebuild(u) = IF "RF_DATASRC" \notin G THEN {b} ELSE {g(d) : d \in Data}
  BY DEF rebuild
<1>2. "RF_DATASRC" \in G <=> "RF_DATASRC" \in u.rf  OBVIOUS
<1>3. ~u.torn /\ u.reel.loaded => u.reel.pos \in u.seen \/ "RF_DATASRC" \in u.rf
  BY DEF Sound, Reeled
<1>b. /\ Shape(b) /\ SameRun(u, b) /\ SameTimer(u, b) /\ SameText(u, b) /\ SameMoves(u, b)
      /\ b.reel = u.reel /\ b.ncby = u.ncby /\ b.st = u.st /\ b.saved = u.saved
      /\ b.base = u.base /\ b.nc = u.nc /\ b.data = u.data /\ b.seen = u.seen
      /\ b.fetched = u.fetched /\ b.hid = u.hid
  <2> HIDE DEF AA, FF
  <2> QED BY <1>s DEF Shape, Fields, SameRun, SameTimer, SameText, SameMoves
<1> HIDE DEF G, b
<1>4. CASE "RF_DATASRC" \notin u.rf
  <2>1. v = b  BY <1>1, <1>2, <1>4
  <2>2. Keeps(u, b)  BY <1>b DEF Keeps, SameReel
  <2>3. Steady(u, b)  BY <1>b, <1>4 DEF Steady, SameMoves
  <2>4. Sound(b)  BY <2>2, <2>3, KeepsSound
  <2>5. ReelDue(b)  BY <1>3, <1>4, <1>b DEF ReelDue, SameRun
  <2> QED BY <1>s, <1>b, <2>1, <2>4, <2>5 DEF SameRun
<1>5. CASE "RF_DATASRC" \in u.rf
  <2>1. PICK d \in Data : v = g(d)
    <3> HIDE DEF g
    <3> QED BY <1>1, <1>2, <1>5
  <2>2. /\ SameRun(u, v) /\ SameTimer(u, v) /\ SameMoves(u, v) /\ v.reel = u.reel
        /\ v.st = u.st /\ v.saved = u.saved /\ v.base = u.base /\ v.nc = u.nc
        /\ v.data = d /\ v.seen = S /\ v.fetched = TRUE /\ v.hid = H(d)
    <3> HIDE DEF S, H
    <3> QED BY <2>1, <1>b DEF Shape, Fields, SameRun, SameTimer, SameMoves
  <2>3. v.hid \subseteq u.hid  BY <2>2, <1>b
  <2>4. S = IF u.reel.loaded THEN u.seen \cup {u.reel.pos} ELSE u.seen  BY <1>b
  <2> HIDE DEF S, H, g
  <2>5. doing(v) = doing(u) /\ action(v) = action(u) /\ v.torn = u.torn /\ v.cur = u.cur
    BY <2>2, SameDoing DEF SameRun
  <2>6. Typed(v)  BY <2>2 DEF Sound, Typed
  <2>7. Tied(v)   BY <2>2, <2>5 DEF Sound, Tied, SameTimer
  <2>8. Tuned(v)  BY <2>2, TunedKept DEF Sound, SameMoves
  <2>9. Reeled(v)  BY <2>2, <2>4, <2>5 DEF Sound, Reeled, SameTimer
  <2>10. Cycled(v)
    <3>1. \A k : CycledTo(v, k)  BY <2>2 DEF CycledTo
    <3> QED BY <2>2, <2>5, <3>1 DEF Sound, Cycled, SameTimer
  <2>11. ReelDue(v)  BY <2>2, <2>4 DEF ReelDue
  <2> QED BY <1>s, <2>2, <2>3, <2>5, <2>6, <2>7, <2>8, <2>9, <2>10, <2>11 DEF Sound
<1> QED BY <1>4, <1>5

(* Whichever action armed the timer, it goes on by one when it is out.     *)
LEMMA TimerSound ==
    ASSUME Good(w), Sound(w), ReelDue(w), timer
    PROVE  Sound(w') /\ ReelDue(w')
<1>1. PICK u :
         /\ Good(u) /\ SameRun(w, u) /\ SameMoves(w, u) /\ u.reel = w.reel
         /\ u.set = w.set /\ u.done = TRUE /\ u.st = w.st /\ u.saved = w.saved
         /\ u.base = w.base /\ u.nc = w.nc /\ u.data = w.data /\ u.seen = w.seen
         /\ u.fetched = w.fetched /\ u.rf = w.rf
         /\ w.timers[1].cb = "dxpcb_stall" => w' = u
         /\ w.timers[1].cb = "dxpcb_playreel" => w' = reel_advance(u)
         /\ w.timers[1].cb = "dxpcb_cyclenc" =>
               w' = [u EXCEPT !.nc = IF @ < MaxClass THEN @ + 1 ELSE @,
                              !.fetched = IF u.nc = -1 THEN FALSE ELSE @]
  BY Expiry
<1> DEFINE t == w.timers[1]
           F == IF u.nc = -1 THEN FALSE ELSE u.fetched
           N == IF u.nc < MaxClass THEN u.nc + 1 ELSE u.nc
           c == [u EXCEPT !.nc = N, !.fetched = F]
<1>2. /\ SameRun(w, u) /\ SameMoves(w, u) /\ u.reel = w.reel /\ u.set = w.set
      /\ u.done = TRUE /\ u.st = w.st /\ u.saved = w.saved /\ u.base = w.base
      /\ u.nc = w.nc /\ u.data = w.data /\ u.seen = w.seen /\ u.fetched = w.fetched
      /\ u.rf = w.rf
  BY <1>1
<1>3. Good(u)  BY <1>1
<1>4. w.set /\ ~w.done /\ t.cb \in Callback  BY Expiry
<1>5. /\ t.cb = "dxpcb_stall" => w' = u
      /\ t.cb = "dxpcb_playreel" => w' = reel_advance(u)
      /\ t.cb = "dxpcb_cyclenc" => w' = c
  BY <1>1
<1> HIDE DEF F, N
<1>6. doing(u) = doing(w) /\ action(u) = action(w) /\ u.torn = w.torn
  BY <1>2, SameDoing DEF SameRun
<1>7. ~w.torn => /\ doing(w) \in {"stall", "playreel", "cyclenc"}
                 /\ doing(w) = "playreel" <=> t.cb = "dxpcb_playreel"
                 /\ doing(w) = "cyclenc" <=> t.cb = "dxpcb_cyclenc"
                 /\ doing(w) = "playreel" <=> w.reel.loaded
  BY <1>4 DEF Sound, Tied, Good, TimerOwn, ReelOk
<1>s. Shape(u)  BY <1>3, GoodShape
<1> HIDE DEF t
(* What is left of the frame's state to look at, whatever expires.         *)
<1>8. ASSUME NEW v, Keeps(u, v), v.st = u.st, v.saved = u.saved, v.base = u.base,
             v.data = u.data, v.nc \in Nat \cup {-1}, {v.reel.pos, v.reel.save} \subseteq Int,
             Reeled(v), Cycled(v), ReelDue(v)
      PROVE  Sound(v) /\ ReelDue(v)
  <2>1. doing(v) = doing(u) /\ action(v) = action(u) /\ v.torn = u.torn
    BY <1>8, SameDoing DEF Keeps, SameRun
  <2>2. Typed(v)  BY <1>2, <1>8 DEF Sound, Typed
  <2>3. Tied(v)   BY <1>2, <1>8 DEF Keeps, SameTimer, Tied
  <2>4. Tuned(v)
    <3>1. Tuned(u)  BY <1>2, TunedKept DEF Sound, SameMoves
    <3> QED BY <1>8, <3>1, TunedKept DEF Keeps, SameMoves
  <2> QED BY <1>8, <2>2, <2>3, <2>4 DEF Sound
<1>9. CASE t.cb = "dxpcb_stall"
  <2>1. w' = u  BY <1>5, <1>9
  <2>2. Reeled(u) /\ ReelDue(u)  BY <1>2, <1>6, <1>7, <1>9 DEF Reeled, ReelDue
  <2>3. Cycled(u)  BY <1>2, <1>6, <1>7, <1>9 DEF Sound, Cycled
  <2>4. u.nc \in Nat \cup {-1} /\ {u.reel.pos, u.reel.save} \subseteq Int
    BY <1>2 DEF Sound, Typed
  <2> QED BY <1>8, <2>1, <2>2, <2>3, <2>4, KeepsSelf
<1>10. CASE t.cb = "dxpcb_playreel"
  <2> DEFINE v == reel_advance(u)
  <2>1. w' = v  BY <1>5, <1>10
  <2>2. Keeps(u, v)  BY <1>s, AdvanceKeeps
  <2>3. /\ v.st = u.st /\ v.saved = u.saved /\ v.base = u.base /\ v.data = u.data
        /\ v.nc = u.nc /\ v.reel.save = u.reel.save /\ v.reel.len = u.reel.len
        /\ v.seen = u.seen /\ v.done = u.done
        /\ IF u.reel.pos + 1 >= u.reel.len THEN v.reel.pos = u.reel.pos /\ v.rf = u.rf
           ELSE v.reel.pos = u.reel.pos + 1 /\ "RF_DATASRC" \in v.rf
    BY <1>s DEF reel_advance, want, Shape, Fields
  <2>4. v.torn = w.torn /\ doing(v) = doing(w) /\ v.reel.loaded = w.reel.loaded
    BY <1>2, <1>6, <2>2, SameDoing DEF Keeps, SameRun, SameReel
  <2> HIDE DEF v
  <2>5. v.nc \in Nat \cup {-1} /\ {v.reel.pos, v.reel.save} \subseteq Int
    BY <1>2, <2>3 DEF Sound, Typed
  <2>6. Cycled(v)  BY <1>2, <1>7, <1>10, <2>3, <2>4 DEF Sound, Cycled
  <2>7. ASSUME ~w.torn PROVE Reeled(v) /\ ReelDue(v)
    <3>1. w.reel.loaded  BY <1>7, <1>10, <2>7
    <3>2. /\ w.reel.len \in Nat /\ w.reel.pos \in 0 .. w.reel.len - 1
          /\ w.seen \subseteq 0 .. w.reel.pos /\ \A n \in 0 .. w.reel.pos - 1 : n \in w.seen
          /\ w.reel.save = w.reel.pos \/ (w.reel.pos = 0 /\ w.reel.save = w.base)
      BY <1>4, <2>7, <3>1 DEF Sound, Reeled
    <3>3. w.reel.pos \in w.seen  BY <1>4, <2>7, <3>1 DEF ReelDue
    <3>4. CASE w.reel.pos + 1 >= w.reel.len
      <4>1. v.reel.pos = w.reel.pos  BY <1>2, <2>3, <3>4
      <4>2. w.reel.pos = w.reel.len - 1  BY <3>2, <3>4
      <4> QED BY <1>2, <2>3, <3>2, <3>3, <4>1, <4>2 DEF Reeled, ReelDue
    <3>5. CASE ~(w.reel.pos + 1 >= w.reel.len)
      <4>1. v.reel.pos = w.reel.pos + 1 /\ "RF_DATASRC" \in v.rf  BY <1>2, <2>3, <3>5
      <4>2. v.reel.pos \in 0 .. w.reel.len - 1 /\ w.seen \subseteq 0 .. v.reel.pos
        BY <3>2, <3>5, <4>1
      <4>3. \A n \in 0 .. v.reel.pos - 1 : n \in w.seen  BY <3>2, <3>3, <4>1
      <4>4. v.reel.save = v.reel.pos => v.base = 1  BY <1>2, <2>3, <3>2, <4>1
      <4>5. v.reel.save = w.reel.save /\ v.reel.len = w.reel.len /\ v.seen = w.seen /\ v.done
        BY <1>2, <2>3
      <4>6. Reeled(v)  BY <3>2, <4>1, <4>2, <4>3, <4>4, <4>5 DEF Reeled
      <4>7. ReelDue(v)  BY <4>4, <4>5 DEF ReelDue
      <4> QED BY <4>6, <4>7
    <3> QED BY <3>4, <3>5
  <2>8. Reeled(v) /\ ReelDue(v)  BY <2>4, <2>7 DEF Reeled, ReelDue
  <2> QED BY <1>8, <2>1, <2>2, <2>3, <2>5, <2>6, <2>8
<1>11. CASE t.cb = "dxpcb_cyclenc"
  <2>1. w' = c  BY <1>5, <1>11
  <2>2. /\ c.st = u.st /\ c.saved = u.saved /\ c.base = u.base /\ c.data = u.data
        /\ c.nc = N /\ c.reel = u.reel /\ c.seen = u.seen /\ c.done = u.done
        /\ c.fetched = F /\ SameRun(u, c) /\ SameTimer(u, c) /\ SameText(u, c)
        /\ SameMoves(u, c) /\ c.ncby = u.ncby
    BY <1>s DEF Shape, Fields, SameRun, SameTimer, SameText, SameMoves
  <2> HIDE DEF c
  <2>3. Keeps(u, c)  BY <2>2 DEF Keeps, SameReel
  <2>4. c.torn = w.torn /\ doing(c) = doing(w)  BY <1>6, <2>2, SameDoing DEF SameRun
  <2>5. c.nc \in Nat \cup {-1} /\ {c.reel.pos, c.reel.save} \subseteq Int
    <3>1. w.nc \in Nat \cup {-1} /\ {w.reel.pos, w.reel.save} \subseteq Int
      BY DEF Sound, Typed
    <3> QED BY <1>2, <2>2, <3>1 DEF N
  <2>6. Reeled(c) /\ ReelDue(c)  BY <1>2, <1>7, <1>11, <2>2, <2>4 DEF Reeled, ReelDue
  <2>7. Cycled(c)
    <3>1. SUFFICES ASSUME ~w.torn PROVE Cycled(c)  BY <2>4 DEF Cycled
    <3>2. doing(c) = "cyclenc" /\ c.done  BY <1>2, <1>7, <1>11, <2>2, <2>4, <3>1
    <3>3. CASE w.nc = -1
      <4>1. c.nc = 0  BY <1>2, <2>2, <3>3, DeusExAssumption DEF N
      <4>2. CycledTo(c, c.nc - 1)  BY <4>1 DEF CycledTo
      <4> QED BY <3>2, <4>1, <4>2 DEF Cycled
    <3>4. CASE w.nc # -1
      <4>1. w.nc \in Nat /\ CycledTo(w, w.nc)  BY <1>4, <3>1, <3>4 DEF Sound, Cycled
      <4>2. c.nc \in Nat /\ c.nc - 1 <= w.nc  BY <1>2, <2>2, <4>1 DEF N
      <4>3. c.fetched = w.fetched /\ c.seen = w.seen  BY <1>2, <2>2, <3>4 DEF F
      <4>4. \A e : Must(c, e) <=> Must(w, e)  BY <1>2, <2>2 DEF Must, members
      <4>5. CycledTo(c, c.nc - 1)  BY <4>1, <4>2, <4>3, <4>4 DEF CycledTo
      <4> QED BY <3>2, <4>2, <4>5 DEF Cycled
    <3> QED BY <3>3, <3>4
  <2> QED BY <1>8, <2>1, <2>2, <2>3, <2>5, <2>6, <2>7
<1> QED BY <1>4, <1>9, <1>10, <1>11 DEF Callback

LEMMA KeepsDue ==
    ASSUME NEW u, NEW v, Keeps(u, v), Steady(u, v), ReelDue(u)
    PROVE  ReelDue(v)
BY DEF Keeps, SameRun, SameTimer, SameReel, Steady, ReelDue

(* What dx_end() brings back is a state like any other.                    *)
LEMMA LoadStateTyped ==
    ASSUME NEW u, Form(u), Typed(u)
    PROVE  LET v == load_state(u, u.saved) IN
           Form(v) /\ Typed(v) /\ v.nc = u.nc
<1> DEFINE s == u.saved
           N == [s EXCEPT !.opts = u.st.opts]
           F == (IF s.dmode # u.st.dmode THEN {"RF_DMODE"} ELSE {})
                \cup (IF s.vmode # u.st.vmode THEN {"RF_VMODE"} ELSE {})
                \cup (IF s.pipemode # u.st.pipemode THEN {"RF_CLUSTER"} ELSE {})
                \cup (IF s.winsp # u.st.winsp \/ s.wioff # u.st.wioff
                      THEN {"RF_CLUSTER", "RF_VMODE"} ELSE {})
           b == [u EXCEPT !.st = N, !.rf = F]
           D == (u.st.opts \ s.opts) \cup (s.opts \ u.st.opts)
           v == opt_flip(b, D)
           A == IF "TWEEN" \in s.opts THEN Frames ELSE v.away
           x == [v EXCEPT !.away = A]
<1>1. load_state(u, u.saved) = x  BY DEF load_state
<1>2. DOMAIN N = StFields /\ N.winsp = s.winsp /\ N.wioff = s.wioff /\ N.dmode = s.dmode
  BY DEF Typed, StFields
<1> HIDE DEF N, F
<1>3. /\ DOMAIN b = DOMAIN u /\ b.st = N /\ b.saved = u.saved /\ b.nc = u.nc /\ b.reel = u.reel
      /\ b.data = u.data
  BY DEF Form, Shape, Fields
<1> HIDE DEF b
<1>4. Form(b)  BY <1>2, <1>3 DEF Form, Shape
<1>5. Typed(b)  BY <1>2, <1>3 DEF Typed
<1> HIDE DEF D
<1>6. Steady(b, v)  BY <1>4, FlipSteady
<1>7. Form(v) /\ Typed(v) /\ v.nc = u.nc
  BY <1>3, <1>4, <1>5, <1>6, SteadyForm, SteadyType DEF Steady
<1> HIDE DEF v, A
<1>8. /\ DOMAIN x = DOMAIN v /\ x.st = v.st /\ x.saved = v.saved /\ x.nc = v.nc
      /\ x.reel = v.reel /\ x.data = v.data
  BY <1>7 DEF Form, Shape, Fields
<1> HIDE DEF x
<1>9. Form(x) /\ Typed(x) /\ x.nc = u.nc  BY <1>7, <1>8 DEF Form, Shape, Typed
<1> QED BY <1>1, <1>9

LEMMA EndSound ==
    ASSUME NEW u, Good(u), Sound(u), u.active
    PROVE  Sound(dx_end(u)) /\ ReelDue(dx_end(u))
<1> DEFINE b == [u EXCEPT !.active = FALSE]
           l == load_state(b, u.saved)
           T == l.torn \/ unfinished(u)
           K == l.kept \cup ({u.cap} \ {None})
           v == [l EXCEPT !.caption = u.oldcap, !.torn = T, !.kept = K]
<1>f. Form(u)  BY TypedForm DEF Sound
<1>1. dx_end(u) = v  BY DEF dx_end
<1>2. Good(v)  BY <1>1, EndGood
<1>3. /\ DOMAIN b = DOMAIN u /\ b.st = u.st /\ b.saved = u.saved /\ b.nc = u.nc
      /\ b.reel = u.reel /\ b.data = u.data /\ b.torn = u.torn /\ SameTimer(u, b)
      /\ b.active = FALSE /\ b.run = u.run /\ b.cur = u.cur
      /\ SameText(u, b) /\ SameMoves(u, b) /\ b.ncby = u.ncby
  BY <1>f DEF Form, Shape, Fields, SameTimer, SameText, SameMoves
<1> HIDE DEF b
<1>4. Form(b) /\ Typed(b)  BY <1>f, <1>3 DEF Form, Shape, Sound, Typed
<1>5. Form(l) /\ Typed(l) /\ l.nc = u.nc  BY <1>3, <1>4, LoadStateTyped
<1>6. Keeps(b, l)
  <2>1. Shape(b)  BY <1>4 DEF Form
  <2> QED BY <2>1, LoadStateKeeps
<1> HIDE DEF l
<1>7. T <=> u.torn \/ unfinished(u)  BY <1>3, <1>6 DEF Keeps, SameRun
<1> HIDE DEF T, K
<1>8. /\ v.active = l.active /\ v.run = l.run /\ v.cur = l.cur
      /\ v.st = l.st /\ v.saved = l.saved /\ v.nc = l.nc /\ v.reel = l.reel /\ v.data = l.data
      /\ v.torn = T /\ SameTimer(l, v) /\ v.cap = l.cap /\ SameMoves(l, v) /\ v.ncby = l.ncby
  BY <1>5 DEF Form, Shape, Fields, SameTimer, SameMoves
<1> HIDE DEF v
<1>9. Typed(v)  BY <1>5, <1>8 DEF Typed
<1>10. v.torn <=> u.torn \/ unfinished(u)  BY <1>7, <1>8
<1>11. /\ v.set = u.set /\ v.nc = u.nc /\ v.cap = u.cap /\ v.ncby = u.ncby
       /\ v.reel.loaded = u.reel.loaded /\ v.orbit = u.orbit /\ v.screw = u.screw
       /\ v.move = u.move /\ v.winsp = u.winsp /\ v.wioff = u.wioff
       /\ v.active = FALSE /\ v.run = u.run /\ v.cur = u.cur
  BY <1>3, <1>5, <1>6, <1>8 DEF Keeps, SameRun, SameTimer, SameText, SameMoves, SameReel
<1>12. Idle(v) /\ (~v.torn => v.nc = -1)
  <2>1. SUFFICES ASSUME ~v.torn PROVE Idle(v) /\ v.nc = -1  BY DEF Idle
  <2>2. ~u.torn /\ ~unfinished(u)  BY <1>10, <2>1
  <2>3. u.ncby = None  BY <2>2 DEF unfinished, Good, CycleOk
  <2> QED BY <1>11, <2>2, <2>3 DEF unfinished, Idle
<1>t. Tuned(v)  BY <1>11 DEF Sound, Tuned, Tuning, Foreign, me
<1>13. Sound(v)  BY <1>2, <1>9, <1>12, <1>t, IdleSound
<1>14. ReelDue(v)  BY <1>12 DEF Idle, ReelDue
<1> QED BY <1>1, <1>13, <1>14

LEMMA StartSound ==
    ASSUME NEW u, Good(u), Sound(u), ~u.active
    PROVE  Sound(dx_start(u)) /\ ReelDue(dx_start(u))
<1>1. Idle(u) /\ Form(u) /\ Typed(u) /\ doing(u) = ""
  BY Resting, TypedForm DEF Sound, doing
<1>2. ~u.torn => u.nc = -1  BY <1>1 DEF Sound, Cycled
<1> DEFINE p == [u EXCEPT !.parsed = u.fn, !.gen = @ + 1, !.freed = u.cur # 0]
           q == [p EXCEPT !.built = TRUE]
           Same(x) == /\ DOMAIN x = DOMAIN u /\ x.st = u.st /\ x.nc = u.nc /\ x.reel = u.reel
                      /\ x.data = u.data /\ x.torn = u.torn /\ x.set = u.set /\ x.cap = u.cap
                      /\ x.ncby = u.ncby /\ SameMoves(u, x) /\ x.saved \in {u.saved, u.st}
<1>3. ASSUME NEW x, Same(x), Tuned(x), x = dx_start(u) PROVE Sound(x) /\ ReelDue(x)
  <2>1. Good(x)  BY <1>3, StartGood
  <2>2. Typed(x)  BY <1>1, <1>3 DEF Typed
  <2>3. Idle(x)  BY <1>1, <1>3 DEF Idle, SameMoves
  <2>4. ~x.torn => x.nc = -1  BY <1>2, <1>3
  <2>5. Sound(x)  BY <1>3, <2>1, <2>2, <2>3, <2>4, IdleSound
  <2>6. ReelDue(x)  BY <2>3 DEF Idle, ReelDue
  <2> QED BY <2>5, <2>6
<1>4. Same(u) /\ Same(p) /\ Same(q)
  BY <1>1 DEF Form, Shape, Fields, SameMoves
<1>r. /\ p.run = u.run /\ q.run = u.run /\ p.active = u.active /\ p.cur = u.cur
  BY <1>1 DEF Form, Shape, Fields
<1>5. ASSUME NEW x, Same(x), x.run = u.run
      PROVE  Same(start(x)) /\ start(x).run = u.run + 1
  BY <1>1, <1>5 DEF start, Form, Shape, Fields, SameMoves
<1>6. dx_start(u) \in {start(u), p, start(q)}  BY DEF dx_start
<1> HIDE DEF p, q
(* What the script before began belongs to none that is started now.       *)
<1>t. ASSUME NEW x, Same(x), x.run = u.run + 1 PROVE Tuned(x)
  <2>1. u.run \in Nat  BY DEF Good, RunOk
  <2>2. me(u)[1] = u.run  BY DEF me
  <2>3. x.winsp = u.winsp /\ x.wioff = u.wioff  BY <1>t DEF SameMoves
  <2>4. ASSUME NEW s, Foreign(u, s) \/ s.by = me(u) PROVE Foreign(x, s)
    BY <1>t, <2>1, <2>2, <2>4 DEF Foreign
  <2>5. Loose(x)  BY <2>3, <2>4 DEF Loose, Sound, Tuned, Tuning
  <2> QED BY <2>5, LooseTuned
<1>7. Same(dx_start(u)) /\ Tuned(dx_start(u))
  <2>1. /\ Same(start(u)) /\ start(u).run = u.run + 1
        /\ Same(start(q)) /\ start(q).run = u.run + 1
    BY <1>4, <1>r, <1>5
  <2>2. Tuned(start(u)) /\ Tuned(start(q))  BY <2>1, <1>t
  <2>3. Tuned(p)
    BY <1>4, <1>r DEF Sound, Tuned, Tuning, Foreign, me, SameMoves
  <2> QED BY <1>4, <1>6, <2>1, <2>2, <2>3
<1> QED BY <1>3, <1>7

LEMMA KeySound ==
    ASSUME Good(w), Sound(w), ReelDue(w), key_x \/ key_space \/ key_R \/ dx_set
    PROVE  Sound(w') /\ ReelDue(w')
<1>f. Shape(w) /\ Form(w)  BY GoodShape, TypedForm DEF Sound
<1>1. CASE key_x
  <2>1. w' = IF w.active THEN dx_end(w) ELSE dx_start(w)  BY <1>1 DEF key_x, press
  <2>2. w.active \in BOOLEAN  BY DEF Good, RunOk
  <2> QED BY <2>1, <2>2, EndSound, StartSound
<1>2. CASE key_space
  <2>1. w' = opt_flip(w, {"STOP"})  BY <1>2 DEF key_space, press
  <2> QED BY <2>1, <1>f, FlipKeeps, FlipSteady, KeepsSound, KeepsDue
<1>3. CASE key_R
  <2>1. w' = want(w, {"RF_DATASRC"})  BY <1>3 DEF key_R, press
  <2> QED BY <2>1, <1>f, WantKeeps, WantSteady, KeepsSound, KeepsDue
<1>4. CASE dx_set
  <2>1. PICK f \in DOMAIN Scripts : w' = [w EXCEPT !.fn = f, !.built = FALSE]
    BY <1>4 DEF dx_set, press
  <2> DEFINE v == [w EXCEPT !.fn = f, !.built = FALSE]
  <2>2. /\ v.parsed = w.parsed /\ v.active = w.active /\ v.cur = w.cur /\ v.torn = w.torn
        /\ v.run = w.run
        /\ v.set = w.set /\ v.done = w.done /\ v.timers = w.timers
        /\ v.winsp = w.winsp /\ v.wioff = w.wioff /\ v.reel = w.reel
        /\ v.st = w.st /\ v.saved = w.saved /\ v.base = w.base /\ v.nc = w.nc
        /\ v.data = w.data /\ v.seen = w.seen /\ v.fetched = w.fetched /\ v.rf = w.rf
    BY <1>f DEF Shape, Fields
  <2> HIDE DEF v
  <2>3. dxlist(v) = dxlist(w)  BY <2>2 DEF dxlist
  <2>4. action(v) = action(w)  BY <2>2, <2>3 DEF action
  <2>5. doing(v) = doing(w)  BY <2>2, <2>4 DEF doing
  <2>6. Typed(v)  BY <2>2 DEF Sound, Typed
  <2>7. Tied(v)   BY <2>2, <2>5 DEF Sound, Tied
  <2>a. me(v) = me(w)  BY <2>2 DEF me
  <2>8. Tuned(v)  BY <2>2, <2>4, <2>5, <2>a DEF Sound, Tuned, Tuning, Foreign
  <2>9. Reeled(v) /\ ReelDue(v)  BY <2>2 DEF Sound, Reeled, ReelDue
  <2>10. Cycled(v)
    <3>1. \A e : Must(v, e) <=> Must(w, e)  BY <2>2 DEF Must, members
    <3>2. \A k : CycledTo(w, k) => CycledTo(v, k)  BY <2>2, <3>1 DEF CycledTo
    <3> QED BY <2>2, <2>5, <3>2 DEF Sound, Cycled
  <2>11. w' = v  BY <2>1 DEF v
  <2> QED BY <2>6, <2>7, <2>8, <2>9, <2>10, <2>11 DEF Sound
<1> QED BY <1>1, <1>2, <1>3, <1>4

-----------------------------------------------------------------------------
(* A frame, as a step: what it does to the action it leaves.               *)
LEMMA FrameStepSound ==
    ASSUME Good(w), Sound(w), frame
    PROVE  /\ Sound(w') /\ ReelDue(w')
           /\ w.active /\ w.cur # 0 /\ w'.cur # w.cur => Reached(w, w')
<1>1. PICK v \in {tween_update(u) : u \in IF w.active THEN dx_update(w) ELSE {w}} :
         w' \in rebuild(v)
  BY DEF frame
<1>2. PICK u \in IF w.active THEN dx_update(w) ELSE {w} : v = tween_update(u)  BY <1>1
<1>3. Good(u) /\ Sound(u)  BY <1>2, FrameSound
<1>4. /\ Good(v) /\ Sound(v) /\ v.cur = u.cur /\ v.st = u.st /\ v.base = u.base /\ v.hid = u.hid
  BY <1>2, <1>3, TweenSound
<1>5. /\ Sound(w') /\ ReelDue(w') /\ w'.cur = v.cur /\ w'.st = v.st /\ w'.base = v.base
      /\ w'.hid \subseteq v.hid
  BY <1>1, <1>4, RebuildSound
<1>6. ASSUME w.active, w.cur # 0, w'.cur # w.cur PROVE Reached(w, w')
  <2>1. u \in dx_update(w) /\ u.cur # w.cur  BY <1>2, <1>4, <1>5, <1>6
  <2>2. Reached(w, u)  BY <1>6, <2>1, FrameSound
  <2>3. w'.st = u.st /\ w'.base = u.base /\ w'.hid \subseteq u.hid  BY <1>4, <1>5
  <2> QED BY <2>2, <2>3 DEF Reached
<1> QED BY <1>5, <1>6

LEMMA InitSound == Init => Sound(w) /\ ReelDue(w)
<1> SUFFICES ASSUME Init PROVE Sound(w) /\ ReelDue(w)  OBVIOUS
<1>1. PICK d \in Data, f \in DOMAIN Scripts : w = initial(d, f)  BY DEF Init
<1>2. /\ w.st = Start /\ w.saved = Start /\ w.nc = -1 /\ w.data = d /\ w.set = FALSE
      /\ w.cap = None /\ w.ncby = None /\ w.torn = FALSE
  BY <1>1 DEF initial
<1>3. w.reel.loaded = FALSE /\ w.reel.pos = -1 /\ w.reel.save = 0  BY <1>1 DEF initial
<1>4. w.orbit.t = 0 /\ w.screw.t = 0 /\ w.move.t = 0 /\ w.winsp.t = 0 /\ w.wioff.t = 0
  BY <1>1 DEF initial, At
<1>5. /\ DOMAIN Start = StFields /\ Start.winsp = 1 /\ Start.wioff = 0 /\ Start.dmode = "job"
  BY DEF Start, StFields
<1>6. Typed(w)
  <2>1. {w.st.winsp, w.st.wioff, w.saved.winsp, w.saved.wioff} \subseteq Int  BY <1>2, <1>5
  <2>2. {w.reel.pos, w.reel.save} \subseteq Int  BY <1>3
  <2> QED BY <1>2, <1>5, <2>1, <2>2 DEF Typed, Modes
<1>7. Idle(w) /\ ReelDue(w)  BY <1>2, <1>3, <1>4 DEF Idle, ReelDue
<1>t. Tuned(w)
  <2>1. w.winsp.by = None /\ w.wioff.by = None  BY <1>1 DEF initial
  <2> QED BY <2>1, LooseTuned DEF Loose, Foreign
<1>8. Sound(w)  BY <1>2, <1>6, <1>7, <1>t, InitGood, IdleSound
<1> QED BY <1>7, <1>8

Whole == Good(w) /\ Sound(w) /\ ReelDue(w)

LEMMA AlwaysWhole == Spec => []Whole
<1>1. Init => Whole  BY InitGood, InitSound DEF Whole
<1>2. Whole /\ [Next]_vars => Whole'
  <2> SUFFICES ASSUME Whole, [Next]_vars PROVE Whole'  OBVIOUS
  <2>1. Good(w) /\ Sound(w) /\ ReelDue(w)  BY DEF Whole
  <2>2. Good(w')  BY <2>1, NextGoodStep
  <2>3. CASE frame  BY <2>1, <2>2, <2>3, FrameStepSound DEF Whole
  <2>4. CASE timer  BY <2>1, <2>2, <2>4, TimerSound DEF Whole
  <2>5. CASE key_x \/ key_space \/ key_R \/ dx_set  BY <2>1, <2>2, <2>5, KeySound DEF Whole
  <2>6. CASE UNCHANGED vars
    <3>1. w' = w  BY <2>6 DEF vars
    <3> QED BY <2>1, <3>1 DEF Whole
  <2> QED BY <2>3, <2>4, <2>5, <2>6 DEF Next
<1> QED BY <1>1, <1>2, PTL DEF Spec

-----------------------------------------------------------------------------
(* Only a frame leaves an action for another.                              *)
LEMMA EndStays == ASSUME NEW u, Shape(u) PROVE dx_end(u).cur = u.cur
<1> DEFINE b == [u EXCEPT !.active = FALSE]
           l == load_state(b, u.saved)
           T == l.torn \/ unfinished(u)
           K == l.kept \cup ({u.cap} \ {None})
           v == [l EXCEPT !.caption = u.oldcap, !.torn = T, !.kept = K]
<1>1. dx_end(u) = v  BY DEF dx_end
<1>2. Shape(b) /\ b.cur = u.cur  BY DEF Shape, Fields
<1> HIDE DEF b
<1>3. Shape(l) /\ l.cur = u.cur  BY <1>2, LoadStateKeeps, KeepsShape DEF Keeps, SameRun
<1> HIDE DEF l, T, K
<1>4. v.cur = u.cur  BY <1>3 DEF Shape, Fields
<1> QED BY <1>1, <1>4

LEMMA OnlyFrames ==
    ASSUME Good(w), [Next]_vars, w.active, w'.cur # w.cur
    PROVE  frame
<1>s. Shape(w)  BY GoodShape
<1>1. CASE timer  BY <1>1, TimerStep
<1>2. CASE key_x
  <2>1. w' = dx_end(w)  BY <1>2 DEF key_x, press
  <2> QED BY <1>s, <2>1, EndStays
<1>3. CASE key_space
  <2>1. w' = opt_flip(w, {"STOP"})  BY <1>3 DEF key_space, press
  <2> QED BY <1>s, <2>1, FlipKeeps DEF Keeps, SameRun
<1>4. CASE key_R
  <2>1. w' = want(w, {"RF_DATASRC"})  BY <1>4 DEF key_R, press
  <2> QED BY <1>s, <2>1, WantKeeps DEF Keeps, SameRun
<1>5. CASE dx_set
  <2>1. PICK f \in DOMAIN Scripts : w' = [w EXCEPT !.fn = f, !.built = FALSE]
    BY <1>5 DEF dx_set, press
  <2> QED BY <1>s, <2>1 DEF Shape, Fields
<1>6. CASE UNCHANGED vars  BY <1>6 DEF vars
<1> QED BY <1>1, <1>2, <1>3, <1>4, <1>5, <1>6 DEF Next

LEMMA Ending ==
    ASSUME Whole, [Next]_vars, NEW do, ends(do)
    PROVE  Reached(w, w') /\ doing(w) = do
BY OnlyFrames, FrameStepSound DEF Whole, ends, doing

(* The space between nodes and the offset of the wired view end at the     *)
(* value asked for (dxp_winsp, dxp_wioff), but for a distance set to zero, *)
(* which stays as it was, and for an action that goes on with the counter  *)
(* of one whose script was ended.  Scripts may have been ended halfway     *)
(* before, held, and interrupted by fetches.                               *)
THEOREM AdjustsExactly == Spec => AdjustExact
<1>1. Whole /\ [Next]_vars =>
         [/\ ends("winsp") /\ own(w, w.winsp) =>
               w'.st.winsp = IF ZeroSet(action(w)) THEN w'.base ELSE target(w'.base, action(w))
          /\ ends("wioff") /\ own(w, w.wioff) =>
               w'.st.wioff = IF ZeroSet(action(w)) THEN w'.base ELSE target(w'.base, action(w))]_vars
  BY Ending DEF Reached, wanted
<1> QED BY <1>1, AlwaysWhole, PTL DEF Spec, AdjustExact

(* The cycle through the classes shows each one that has nodes, and leaves *)
(* none of them hidden (dxp_cyclenc, dxpcb_cyclenc), if nothing was        *)
(* fetched since it began and no script was ever ended halfway an action.  *)
THEOREM CyclesThroughAll == Spec => CycleShowsEach
<1>1. Whole /\ [Next]_vars =>
         [ends("cyclenc") /\ ~w.fetched /\ ~w.torn =>
             /\ {c \in 0 .. size(w) - 1 : w.st.dmode = "rte" \/ members(w, c) # {}} \subseteq w.seen
             /\ w'.hid \cap classes(w) = {}]_vars
  BY Ending DEF Reached, Must
<1> QED BY <1>1, AlwaysWhole, PTL DEF Spec, CycleShowsEach

(* Every frame of the archive has been fetched when playreel goes on, but  *)
(* for the one place that save_reel_pos mistakes for its end, and if no    *)
(* script was ever ended halfway an action (dxp_playreel, dxpcb_playreel,  *)
(* reel_advance).                                                          *)
THEOREM PlaysWholeReel == Spec => ReelWhole
<1>1. Whole /\ [Next]_vars =>
         [ends("playreel") /\ w.reel.loaded /\ w.base # 1 /\ ~w.torn =>
             w.seen = 0 .. w.reel.len - 1]_vars
  <2> SUFFICES ASSUME Whole, [Next]_vars, ends("playreel"), w.reel.loaded, w.base # 1, ~w.torn
               PROVE  w.seen = 0 .. w.reel.len - 1
    OBVIOUS
  <2>2. ~w.torn  OBVIOUS
  <2>1. w.done /\ w.reel.save = w.reel.pos  BY <2>2, Ending DEF Reached
  <2>3. /\ w.reel.len \in Nat /\ w.reel.pos = w.reel.len - 1 /\ w.seen \subseteq 0 .. w.reel.pos
        /\ \A i \in 0 .. w.reel.pos - 1 : i \in w.seen
    BY <2>1, <2>2 DEF Whole, Sound, Reeled
  <2>4. w.reel.pos \in w.seen  BY <2>1, <2>2 DEF Whole, ReelDue
  <2>5. ASSUME NEW i \in 0 .. w.reel.len - 1 PROVE i \in w.seen  BY <2>3, <2>4
  <2> QED BY <2>3, <2>5
<1> QED BY <1>1, AlwaysWhole, PTL DEF Spec, ReelWhole
=============================================================================
