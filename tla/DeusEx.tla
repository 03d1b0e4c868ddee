------------------------------- MODULE DeusEx -------------------------------
(***************************************************************************)
(* Scripts (deusex.c, dx-parse.y): a list of actions, of which each frame  *)
(* runs the current one until it says that it is done.                     *)
(*                                                                         *)
(* What an action has done so far it keeps in static variables, and three  *)
(* of them share one GLUT timer.  A key may end the script at any time,    *)
(* another may start it or another one again: the statics and the timer    *)
(* are left as they are.  Positions, angles, corners and colours are left  *)
(* out; of the flags in st_rf those are kept that an action waits for.     *)
(***************************************************************************)
EXTENDS Integers, Sequences, FiniteSets, SequencesExt, FiniteSetsExt

CONSTANTS
    Node,
    Scripts,     \* the files in dx_dir: sequences of commands
    Reel,        \* the archives: the number of frames of each reel
    Data,        \* what a fetch may bring
    NSC, NTEMPC, NRTC,
    Frames,      \* bound: frames of a movement, of the camera or of nodes
    FPS,         \* fps, the frames of a sample
    Tenth,       \* the frames between two steps of wioff (10 in the code)
    MaxClass,    \* bound: dx_cycle_nc, past the end of every table of classes
    MaxKeys      \* bound: keys pressed

(* do: the directive; mode: its modifier; the others: its arguments.  No   *)
(* file has the two directives that wait, and what it may have beside the  *)
(* others is not recognized.                                               *)
Directives ==
    {"bird", "camsync", "camlook", "campos", "camuprot", "clrsn", "corkscrew", "cuban8",
     "curlyq", "cyclenc", "dmode", "exit", "focus", "hl", "move", "nodesync", "opt", "orbit",
     "panel", "pipemode", "pstick", "playreel", "refocus", "refresh", "seljob", "selnode",
     "setcap", "stall", "subsel", "vmode", "winsp", "wioff"}

(* The modes a script can choose: dmodes[] has no name for the others.     *)
Modes == {"job", "temp", "rte", "same"}

Command ==
    {c \in [do: (Directives \ {"camsync", "nodesync"}) \cup {"unrecognized"},
            mode: {"set", "on", "off"}, who: STRING, set: SUBSET (STRING \cup Node), n: Nat] :
        c.do = "dmode" => c.who \in Modes}

ASSUME DeusExAssumption ==
    /\ {Frames, FPS, Tenth, MaxKeys} \subseteq Nat \ {0}
    /\ {NSC, NTEMPC, NRTC, MaxClass} \subseteq Nat /\ {NTEMPC, NRTC} \subseteq 0 .. MaxClass
    /\ Scripts \in Seq(Seq(Command)) /\ Scripts # <<>>
    /\ \A r \in DOMAIN Reel : Reel[r] \in Nat
    /\ \A d \in Data : /\ d.jobs \in Nat /\ NSC + d.jobs <= MaxClass
                       /\ DOMAIN d.temp = Node
                       /\ \A n \in Node : d.class[n] \in 0 .. NSC + d.jobs - 1

VARIABLES w,     \* the record described at World
          keys   \* keys pressed

vars == <<w, keys>>

None == <<0, 0>>                     \* NULL, as a caption or an owner
At   == [t |-> 0, by |-> None]

-----------------------------------------------------------------------------
(* The parser.  Some directives are followed by one that waits for their   *)
(* effect, and dxa_add() puts a second of rest after everything but a      *)
(* rest.                                                                   *)

Cmd(do) == [do |-> do, mode |-> "set", who |-> "", set |-> {}, n |-> 1]

AwaitCamera == {"bird", "corkscrew", "cuban8", "curlyq", "move", "orbit", "refocus"}
AwaitNodes  == {"vmode", "winsp", "wioff"}

dxa_add(list, a) ==
    IF a.do = "stall" THEN Append(list, a) ELSE list \o <<a, Cmd("stall")>>

conf(list, c) ==
    CASE c.do = "unrecognized"  -> list
      [] c.do \in AwaitCamera   -> dxa_add(dxa_add(list, c), Cmd("camsync"))
      [] c.do \in AwaitNodes    -> dxa_add(dxa_add(list, c), Cmd("nodesync"))
      [] OTHER                  -> dxa_add(list, c)

errors(s) == {i \in DOMAIN s : s[i].do = "unrecognized"}

dx_parse(s) ==
    LET grammar[i \in 0 .. Len(s)] == IF i = 0 THEN <<>> ELSE conf(grammar[i - 1], s[i])
    IN  grammar[Len(s)]

Lists == [f \in DOMAIN Scripts |-> dx_parse(Scripts[f])]

dxlist(u) == IF u.parsed = 0 THEN <<>> ELSE Lists[u.parsed]
action(u) == dxlist(u)[u.cur]

-----------------------------------------------------------------------------
(* The parts of the rest of the program that actions use.                  *)

me(u) == <<u.run, u.cur>>

yes(u) == [w |-> u, ret |-> TRUE]
no(u)  == [w |-> u, ret |-> FALSE]

has(u, o) == o \in u.st.opts

(* tween_push(), tween_pop(): the camera has a way to go.                  *)
aim(u) == IF has(u, "TWEEN") THEN [u EXCEPT !.away = Frames] ELSE u

want(u, F) == [u EXCEPT !.rf = @ \cup F]

(* reel_load() finds the frames of the directory.                          *)
reel_load(u) == [u EXCEPT !.reel.len = IF u.reel.dir = "" THEN 0 ELSE Reel[u.reel.dir]]

(* A variant with a plausible mistake; no specification below uses it.     *)
reel_advance_short(u) ==
    IF u.reel.pos + 2 >= u.reel.len THEN u
    ELSE want([u EXCEPT !.reel.pos = @ + 1], {"RF_DATASRC"})

reel_advance(u) ==
    IF u.reel.pos + 1 >= u.reel.len THEN u
    ELSE want([u EXCEPT !.reel.pos = @ + 1], {"RF_DATASRC"})

opt_flip(u, S) ==
    LET O  == (u.st.opts \ S) \cup (S \ u.st.opts)
        on(o)  == o \in S /\ o \in O
        off(o) == o \in S /\ o \notin O
        v == [u EXCEPT !.st.opts = O,
                 !.held = IF on("STOP") THEN u.away ELSE @,
                 !.away = IF on("STOP") \/ "TWEEN" \in S THEN 0
                          ELSE IF off("STOP") THEN u.held ELSE @,
                 !.far  = IF off("NODEANIM") THEN 0 ELSE @,
                 !.rf   = @ \cup IF {"PIPES", "SUBSET"} \cap S # {} \/ off("NODEANIM") \/ off("STOP")
                                 THEN {"RF_CLUSTER"} ELSE {}]
    IN  IF on("REEL") THEN reel_load(v) ELSE v

opt_enable(u, S)  == opt_flip(u, S \ u.st.opts)
opt_disable(u, S) == opt_flip(u, S \cap u.st.opts)

(* The classes of a mode, and the class a node is in.  The mode in which   *)
(* all nodes look the same has one fill, whatever class is asked for.      *)
size(u) == CASE u.st.dmode = "job"  -> NSC + u.data.jobs
             [] u.st.dmode = "temp" -> NTEMPC
             [] u.st.dmode = "rte"  -> NRTC
             [] u.st.dmode = "same" -> 1

members(u, c) ==
    {n \in Node : IF u.st.dmode = "job" THEN u.data.class[n] = c ELSE u.data.temp[n] = c}

fp(u, c) == <<u.st.dmode, IF u.st.dmode = "same" THEN 0 ELSE c>>
nc_getfp(u, c) == u.st.dmode = "same" \/ c \in 0 .. size(u) - 1      \* # NULL

classes(u) == {fp(u, c) : c \in 0 .. size(u) - 1}

nc_runall_opaque(u)    == want([u EXCEPT !.hid = @ \ classes(u)], {"RF_CLUSTER"})
nc_runall_setxparent(u) == want([u EXCEPT !.hid = @ \cup classes(u)], {"RF_CLUSTER"})
nc_apply_opaque(u, c)  == want([u EXCEPT !.hid = @ \ {fp(u, c)}], {"RF_CLUSTER"})

class(u, n) ==
    CASE u.st.dmode = "job"  -> {fp(u, u.data.class[n])}
      [] u.st.dmode = "temp" -> {fp(u, u.data.temp[n])} \cap classes(u)
      [] OTHER -> {fp(u, 0)}

withjob(u) == {n \in Node : u.data.class[n] >= NSC}

(* Only nodes that have a job show one when they are selected.             *)
nc_runsn_opaque(u) ==
    LET sn == IF u.st.dmode = "job" THEN u.sel \cap withjob(u) ELSE u.sel
    IN  want([u EXCEPT !.hid = @ \ UNION {class(u, n) : n \in sn}], {"RF_CLUSTER"})

visible(u) == {n \in Node : class(u, n) \cap u.hid = {}}

sn_change(u, S) == IF S = {} THEN [u EXCEPT !.sel = {}, !.panels = @ \ {"ninfo"}]
                   ELSE [u EXCEPT !.sel = S, !.panels = @ \cup {"ninfo"}]

-----------------------------------------------------------------------------
(* Variants with a plausible mistake; no specification below uses them.    *)

expire_keeps_set(u, t) == [u EXCEPT !.done = TRUE, !.set = FALSE, !.by = t.by]

start_keeps_action(u) ==
    [u EXCEPT !.active = TRUE, !.run = @ + 1, !.saved = u.st, !.oldcap = u.caption]

ended_keeps_sample(u) == [u EXCEPT !.orbit.sample = 0]

adjust_late(v, n, m) ==
    CASE m = "on"  -> <<v + 1, n - 1>>
      [] m = "off" -> <<v - 1, n - 1>>
      [] m = "set" /\ v < n -> <<v + 1, IF v + 2 >= n THEN 0 ELSE n>>
      [] m = "set" /\ v > n -> <<v - 1, n>>
      [] OTHER     -> <<v, 0>>

next_class_skips(u, c) ==
    Min({d \in c .. c + size(u) : d >= size(u) \/ Cardinality(members(u, d)) > 1})

take_keeps_set(u) == [u EXCEPT !.done = FALSE]

-----------------------------------------------------------------------------
(* The actions.  Each returns the worlds it may lead to, and whether it is *)
(* done.                                                                   *)

ended(u) == [u EXCEPT !.orbit = [t |-> 0, sample |-> 0, by |-> None]]

(* The amount to turn by is computed when t is 0; who goes on with another *)
(* action's amount may be done after any frame.                            *)
turn(u, s) ==
    LET by == IF s.t = 0 THEN me(u) ELSE s.by
        n  == IF s.t = Frames THEN s.t ELSE s.t + 1
    IN  {[s |-> [s EXCEPT !.t = n, !.by = by], over |-> o] :
            o \in IF by = me(u) \/ n = Frames THEN {n = Frames} ELSE BOOLEAN}

dxp_orbit(u, a) ==
    IF u.orbit.t = 0 /\ u.orbit.sample + 1 < FPS
    THEN {no([u EXCEPT !.orbit.sample = @ + 1])}
    ELSE {IF x.over THEN yes(ended(aim(u))) ELSE no([aim(u) EXCEPT !.orbit = x.s]) :
             x \in turn(u, [u.orbit EXCEPT !.sample = FPS])}

dxp_curlyq(u, a) == dxp_orbit(aim(u), a)

(* errx(1, "look not updated yet")                                         *)
dxp_cuban8(u, a) == {no([u EXCEPT !.dead = TRUE])}

dxp_corkscrew(u, a) ==
    {IF x.over THEN yes([aim(u) EXCEPT !.screw = At]) ELSE no([aim(u) EXCEPT !.screw = x.s]) :
        x \in turn(u, u.screw)}

dxp_cam_move(u, a) ==
    {IF x.over THEN yes([aim(u) EXCEPT !.move = At]) ELSE no([aim(u) EXCEPT !.move = x.s]) :
        x \in turn(u, u.move)}

dxp_bird(u, a)     == {yes(aim(u))}
dxp_refocus(u, a)  == {yes(aim(u))}
dxp_camlook(u, a)  == {yes(aim(u))}
dxp_campos(u, a)   == {yes(aim(u))}
dxp_camuprot(u, a) == {yes(aim(u))}

dxp_camsync(u, a)  == {[w |-> u, ret |-> has(u, "TWEEN") => u.away = 0]}
dxp_nodesync(u, a) == {[w |-> u, ret |-> "RF_CLUSTER" \notin u.rf]}

(* The timer.                                                              *)
arm(u, cb) ==
    IF u.set THEN u ELSE [u EXCEPT !.set = TRUE,
                                   !.timers = Append(@, [cb |-> cb, by |-> me(u)])]
take(u) == [u EXCEPT !.done = FALSE, !.set = FALSE]

dxp_stall(u, a) == {IF u.done THEN yes(take(u)) ELSE no(arm(u, "dxpcb_stall"))}

(* An archive without an index or without frames is passed over.           *)
reel_start(u, r) ==
    LET v == reel_load([u EXCEPT !.reel.dir = r, !.seen = {}, !.base = u.reel.save])
    IN  IF v.reel.len = 0 THEN v
        ELSE opt_enable([reel_advance([v EXCEPT !.reel.pos = -1])
                         EXCEPT !.reel.loaded = TRUE, !.reel.by = me(u)], {"REEL"})

reel_wait(u) ==
    LET t == [take(u) EXCEPT !.reel.save = u.reel.pos]
    IN  IF ~u.reel.loaded \/ u.reel.len = 0 THEN yes(u)
        ELSE IF u.done /\ u.reel.save = u.reel.pos
        THEN yes(opt_disable(want([t EXCEPT !.reel.loaded = FALSE, !.reel.by = None],
                                  {"RF_DATASRC"}), {"REEL"}))
        ELSE no(arm(IF u.done THEN t ELSE u, "dxpcb_playreel"))

dxp_playreel(u, a) ==
    {reel_wait(v) : v \in {IF u.reel.loaded \/ a.who \notin DOMAIN Reel THEN u
                           ELSE reel_start(u, a.who)}}

dxp_refresh(u, a) ==
    {IF u.cap # None THEN yes([u EXCEPT !.caption = u.cap, !.cap = None, !.capby = None])
     ELSE no(want([u EXCEPT !.cap = u.caption,
                            !.capby = IF u.caption = None THEN None ELSE me(u)],
                  {"RF_DATASRC"}))}

dxp_caption(u, a) == {yes([u EXCEPT !.caption = <<u.gen, u.cur>>])}

(* The nodes a list stands for.                                            *)
chosen(u, a) ==
    CASE a.who = "all"      -> {Node}
      [] a.who = "visible"  -> {visible(u)}
      [] a.who = "random"   -> {{n} : n \in Node}
      [] a.who = "selected" -> {u.sel}
      [] OTHER              -> {a.set \cap Node}

(* Taking the selected nodes out of the selection goes on from the entry   *)
(* that was freed: the rest of the list may be lost to it.                 *)
dxp_selnode(u, a) ==
    LET v == IF a.mode = "set" THEN [u EXCEPT !.sel = {}] ELSE u
    IN  {yes(sn_change(u, S)) : S \in
            IF a.mode # "off" THEN {v.sel \cup C : C \in chosen(v, a)}
            ELSE IF a.who = "selected" THEN {v.sel \ C : C \in SUBSET v.sel}
            ELSE {v.sel \ C : C \in chosen(v, a)}}

(* The selected nodes are no class of their own here.                      *)
dxp_subsel(u, a) ==
    LET old == IF a.mode = "set" THEN {} ELSE u.sub
    IN  {yes(want([u EXCEPT !.sub = IF a.mode = "off" THEN old \ C ELSE old \cup C],
                  {"RF_CLUSTER"})) :
            C \in IF a.who = "selected" THEN {{}} ELSE chosen(u, a)}

dxp_clrsn(u, a) == {yes(sn_change(u, {}))}

dxp_hl(u, a) ==
    {yes(IF a.who = "all" THEN nc_runall_opaque(u)
         ELSE nc_runsn_opaque(nc_runall_setxparent(u)))}

(* It draws nodes until one has a job.                                     *)
dxp_selnc(u, a) ==
    LET shown(v) == nc_runsn_opaque(nc_runall_setxparent(v))
    IN  IF a.who = "selnodes" THEN {yes(shown(u))}
        ELSE IF u.data.jobs = 0 THEN {yes(u)}
        ELSE IF withjob(u) = {} THEN {no([u EXCEPT !.spin = TRUE])}
        ELSE {yes(shown(sn_change(u, u.sel \cup {n}))) : n \in withjob(u)}

dxp_opt(u, a) ==
    {yes(CASE a.mode = "on"  -> opt_enable(u, a.set)
           [] a.mode = "off" -> opt_disable(u, a.set)
           [] a.mode = "set" -> opt_flip(u, (u.st.opts \ a.set) \cup (a.set \ u.st.opts)))}

dxp_vmode(u, a) == {yes(want([u EXCEPT !.st.vmode = a.who], {"RF_VMODE"}))}
dxp_dmode(u, a) == {yes(want([u EXCEPT !.st.dmode = a.who], {"RF_DMODE"}))}
dxp_pipemode(u, a) == {yes(want([u EXCEPT !.st.pipemode = a.who], {"RF_CLUSTER"}))}

(* The help panel is one of those that panels_set() leaves alone.          *)
dxp_panel(u, a) ==
    {yes([u EXCEPT !.panels = CASE a.mode = "on"  -> @ \cup a.set
                                [] a.mode = "off" -> @ \ a.set
                                [] a.mode = "set" -> (@ \cap {"help"}) \cup (a.set \ {"help"})])}

dxp_pstick(u, a) == {yes([u EXCEPT !.stick = [p \in DOMAIN @ |->
                                                 IF p \in a.set THEN a.who ELSE @[p]]])}

dxp_focus(u, a) == {yes(u)}
dxp_exit(u, a)  == {no([u EXCEPT !.dead = TRUE])}

(* One step of a distance v by an adjustment of which n is left.           *)
adjust(v, n, m) ==
    CASE m = "on"  -> <<v + 1, n - 1>>
      [] m = "off" -> <<v - 1, n - 1>>
      [] m = "set" /\ v < n -> <<v + 1, n>>
      [] m = "set" /\ v > n -> <<v - 1, n>>
      [] OTHER     -> <<v, 0>>

(* The two adjustments, in one of the three dimensions (the others run     *)
(* beside it, and the action ends with the last of them).                  *)
winsp_step(u, a) ==
    LET s == adjust(u.st.winsp, u.winsp.iv, a.mode)
    IN  IF u.winsp.iv = 0 THEN u
        ELSE want([u EXCEPT !.st.winsp = s[1], !.winsp.iv = s[2]], {"RF_CLUSTER", "RF_VMODE"})

dxp_winsp(u, a) ==
    {IF x.winsp.iv = 0 THEN yes([x EXCEPT !.winsp.t = 0, !.winsp.by = None])
     ELSE no([x EXCEPT !.winsp.t = 1]) :
        x \in {winsp_step(v, a) :
                  v \in {IF u.winsp.t # 0 THEN u
                         ELSE [u EXCEPT !.winsp = [t |-> 0, iv |-> a.n, by |-> me(u)],
                                        !.base = u.st.winsp]}}}

wioff_step(u, a) ==
    LET s == adjust(u.st.wioff, u.wioff.iv, a.mode)
    IN  IF u.wioff.iv = 0 \/ u.wioff.t % Tenth # 0 THEN u
        ELSE want([aim(u) EXCEPT !.st.wioff = s[1], !.wioff.iv = s[2]],
                  {"RF_CLUSTER", "RF_VMODE"})

dxp_wioff(u, a) ==
    {IF x.wioff.iv = 0 THEN yes([x EXCEPT !.wioff.t = 0, !.wioff.by = None])
     ELSE no([x EXCEPT !.wioff.t = IF @ = Tenth THEN 1 ELSE @ + 1]) :
        x \in {wioff_step(v, a) :
                  v \in {IF u.wioff.t # 0 THEN u
                         ELSE [u EXCEPT !.wioff = [t |-> 0, iv |-> a.n, by |-> me(u)],
                                        !.base = u.st.wioff]}}}

(* In two of the modes empty classes are passed over.  A class of -1 is    *)
(* looked up before the start of the table.                                *)
next_class(u, c) ==
    IF u.st.dmode \notin {"job", "temp"} THEN c
    ELSE LET n == IF u.st.dmode = "job" THEN NSC ELSE NTEMPC
         IN  Min({d \in c .. c + n + u.data.jobs + 1 : d >= n \/ members(u, d) # {}})

show_class(u, c, grow) ==
    IF c = -1 /\ ~grow THEN [w |-> nc_runall_opaque(u), ret |-> TRUE]
    ELSE IF ~nc_getfp(u, c) THEN yes(u)
    ELSE no(nc_apply_opaque(IF grow THEN u ELSE nc_runall_setxparent(u), c))

cycled(u, r, c) ==
    IF r.ret THEN yes(take([nc_runall_opaque(r.w) EXCEPT !.nc = -1, !.ncby = None]))
    ELSE no(arm(take([r.w EXCEPT !.seen = (IF u.nc = 0 THEN {} ELSE @) \cup {c},
                                 !.ncby = me(u)]), "dxpcb_cyclenc"))

dxp_cyclenc(u, a) ==
    LET grow == a.who = "grow"
        at(c) == [IF u.nc = 0 /\ grow THEN nc_runall_setxparent(u) ELSE u EXCEPT !.nc = c]
    IN  IF ~u.done THEN {no(arm(u, "dxpcb_cyclenc"))}
        ELSE UNION {{cycled(u, r, c) : r \in {show_class(v, c, grow) : v \in {at(c)}}} :
                       c \in IF u.nc = -1 THEN {-1, next_class(u, 0)} ELSE {next_class(u, u.nc)}}

(* dxtab[]                                                                 *)
de_update(u, de, a) ==
    CASE de = "bird" -> dxp_bird(u, a)
      [] de = "camsync" -> dxp_camsync(u, a)
      [] de = "camlook" -> dxp_camlook(u, a)
      [] de = "campos" -> dxp_campos(u, a)
      [] de = "camuprot" -> dxp_camuprot(u, a)
      [] de = "clrsn" -> dxp_clrsn(u, a)
      [] de = "corkscrew" -> dxp_corkscrew(u, a)
      [] de = "cuban8" -> dxp_cuban8(u, a)
      [] de = "curlyq" -> dxp_curlyq(u, a)
      [] de = "cyclenc" -> dxp_cyclenc(u, a)
      [] de = "dmode" -> dxp_dmode(u, a)
      [] de = "exit" -> dxp_exit(u, a)
      [] de = "focus" -> dxp_focus(u, a)
      [] de = "hl" -> dxp_hl(u, a)
      [] de = "move" -> dxp_cam_move(u, a)
      [] de = "nodesync" -> dxp_nodesync(u, a)
      [] de = "opt" -> dxp_opt(u, a)
      [] de = "orbit" -> dxp_orbit(u, a)
      [] de = "panel" -> dxp_panel(u, a)
      [] de = "pipemode" -> dxp_pipemode(u, a)
      [] de = "pstick" -> dxp_pstick(u, a)
      [] de = "playreel" -> dxp_playreel(u, a)
      [] de = "refocus" -> dxp_refocus(u, a)
      [] de = "refresh" -> dxp_refresh(u, a)
      [] de = "seljob" -> dxp_selnc(u, a)
      [] de = "selnode" -> dxp_selnode(u, a)
      [] de = "setcap" -> dxp_caption(u, a)
      [] de = "stall" -> dxp_stall(u, a)
      [] de = "subsel" -> dxp_subsel(u, a)
      [] de = "vmode" -> dxp_vmode(u, a)
      [] de = "winsp" -> dxp_winsp(u, a)
      [] de = "wioff" -> dxp_wioff(u, a)

-----------------------------------------------------------------------------
(* A frame.                                                                *)

dx_next(u) == [u EXCEPT !.cur = IF @ = Len(dxlist(u)) THEN 0 ELSE @ + 1, !.de = ""]

dx_update(u) ==
    LET i == IF u.cur = 0 THEN 1 ELSE u.cur
        f == IF u.cur = 0 \/ u.de = "" THEN dxlist(u)[i].do ELSE u.de
    IN  IF has(u, "STOP") \/ (u.cur = 0 /\ dxlist(u) = <<>>) THEN {u}
        ELSE {IF r.ret THEN dx_next(r.w) ELSE r.w :
                 r \in UNION {de_update(x, x.de, action(x)) :
                                 x \in {[u EXCEPT !.cur = i, !.de = f]}}}

(* rebuild(): every flag that is kept here brings RF_CLUSTER (rf_deps()).  *)
(* A fetch takes the caption away: the time of the drain, which would take *)
(* its place, is nowhere set (mach_drain).  Nodes whose places were        *)
(* computed anew have a way to go, and ask for a frame with each step.     *)
rebuild(u) ==
    LET F == u.rf \cup (IF "RF_DATASRC" \in u.rf THEN {"RF_VMODE"} ELSE {})
        moving == has(u, "NODEANIM") /\ u.st.vmode # "wired"
        far == IF ~moving THEN 0 ELSE IF "RF_VMODE" \in F THEN Frames ELSE u.far
        step == moving /\ F # {} /\ far > 0 /\ ~has(u, "STOP")
        v == [u EXCEPT !.far = IF step THEN far - 1 ELSE far,
                       !.rf  = IF step THEN {"RF_CLUSTER"} ELSE {}]
    IN  IF "RF_DATASRC" \notin F THEN {v}
        ELSE {[v EXCEPT !.caption = None, !.data = d, !.fetched = TRUE,
                        !.seen = IF u.reel.loaded THEN @ \cup {u.reel.pos} ELSE @,
                        !.hid = {c \in @ : c[1] # "job" \/ c[2] < NSC + d.jobs}] : d \in Data}

tween_update(u) ==
    IF has(u, "TWEEN") /\ u.away > 0 THEN [u EXCEPT !.away = @ - 1] ELSE u

frame ==
    /\ ~w.dead /\ ~w.spin
    /\ w' \in UNION {rebuild(v) : v \in {tween_update(u) :
                                          u \in IF w.active THEN dx_update(w) ELSE {w}}}
    /\ UNCHANGED keys

(* dxpcb_stall, dxpcb_playreel, dxpcb_cyclenc: whether the script still    *)
(* runs they do not ask.                                                   *)
expire(u, t) == [u EXCEPT !.done = TRUE, !.by = t.by]

timer ==
    /\ ~w.dead /\ ~w.spin
    /\ \E i \in DOMAIN w.timers :
          LET t == w.timers[i]
              u == expire([w EXCEPT !.timers = RemoveAt(@, i)], t)
          IN  w' = CASE t.cb = "dxpcb_stall"    -> u
                     [] t.cb = "dxpcb_playreel" -> reel_advance(u)
                     [] t.cb = "dxpcb_cyclenc"  ->
                          [u EXCEPT !.nc = IF @ < MaxClass THEN @ + 1 ELSE @,
                                    !.fetched = IF u.nc = -1 THEN FALSE ELSE @]
    /\ UNCHANGED keys

-----------------------------------------------------------------------------
(* The keys.                                                               *)

start(u) ==
    [u EXCEPT !.active = TRUE, !.cur = 0, !.freed = FALSE, !.run = @ + 1, !.saved = u.st,
              !.oldcap = u.caption]

(* A file with errors leaves its list behind, but it is not run.           *)
dx_start(u) ==
    LET p == [u EXCEPT !.parsed = u.fn, !.gen = @ + 1, !.freed = u.cur # 0]
    IN  IF u.built THEN start(u)
        ELSE IF errors(Scripts[u.fn]) # {} THEN p
        ELSE start([p EXCEPT !.built = TRUE])

(* Progress that the statics keep of the action that is being run.         *)
unfinished(u) ==
    \/ u.set \/ u.nc # -1 \/ u.reel.loaded \/ u.cap # None
    \/ \E s \in {u.orbit, u.screw, u.move, u.winsp, u.wioff} : s.t # 0

(* The flags are those of what differs, and what opt_flip() adds to them.  *)
load_state(u, s) ==
    LET F == (IF s.dmode # u.st.dmode THEN {"RF_DMODE"} ELSE {})
             \cup (IF s.vmode # u.st.vmode THEN {"RF_VMODE"} ELSE {})
             \cup (IF s.pipemode # u.st.pipemode THEN {"RF_CLUSTER"} ELSE {})
             \cup (IF s.winsp # u.st.winsp \/ s.wioff # u.st.wioff
                   THEN {"RF_CLUSTER", "RF_VMODE"} ELSE {})
        v == opt_flip([u EXCEPT !.st = [s EXCEPT !.opts = u.st.opts], !.rf = F],
                      (u.st.opts \ s.opts) \cup (s.opts \ u.st.opts))
    IN  [v EXCEPT !.away = IF "TWEEN" \in s.opts THEN Frames ELSE @]

dx_end(u) ==
    [load_state([u EXCEPT !.active = FALSE], u.saved)
        EXCEPT !.caption = u.oldcap, !.torn = @ \/ unfinished(u),
               !.kept = @ \cup ({u.cap} \ {None})]

press(v) == /\ ~w.dead /\ ~w.spin /\ keys < MaxKeys
            /\ keys' = keys + 1
            /\ w' = v

key_x      == press(IF w.active THEN dx_end(w) ELSE dx_start(w))
key_space  == press(opt_flip(w, {"STOP"}))
key_R      == press(want(w, {"RF_DATASRC"}))
dx_set     == \E f \in DOMAIN Scripts : press([w EXCEPT !.fn = f, !.built = FALSE])

-----------------------------------------------------------------------------
(* w holds                                                                 *)
(*   fn, built        dx_fn, dx_built      parsed  the script in dxlist    *)
(*   active, cur, de  dx_active, dx_action, the static de of dx_update     *)
(*   freed            dx_action points into a list that has been freed     *)
(*   set, done        dxt_set, dxt_done    timers  armed in GLUT           *)
(*   nc               dx_cycle_nc          reel    the statics of playreel *)
(*   cap              the static of refresh        caption, oldcap         *)
(*   orbit, screw, move, winsp, wioff      the statics of these actions    *)
(*   st, saved        st, dx_save_state    rf      st.st_rf                *)
(*   away, held, far  frames the camera, the camera held back by OP_STOP   *)
(*                    and the nodes need to where they are going           *)
(*   sel, sub         selnodes, NF_SUBSET  hid     fills set transparent   *)
(*   run, gen         scripts started, parsed                              *)
(*   by, ncby, capby, torn, kept, base, seen, fetched    for the           *)
(*                    properties: who armed the timer that expired last,   *)
(*                    who cycles and who refreshes, whether a script was   *)
(*                    ended within an action, the captions that refresh    *)
(*                    kept then, the value an adjustment began with,       *)
(*                    classes or frames seen, and a fetch since the cycle  *)
(*                    began                                                *)
Start == [vmode |-> "wione", dmode |-> "job", pipemode |-> "torus", winsp |-> 1, wioff |-> 0,
          opts |-> {"TWEEN", "NODEANIM"}]

initial(d, f) ==
    [fn |-> f, built |-> FALSE, parsed |-> 0, gen |-> 0, active |-> FALSE, cur |-> 0,
     de |-> "", freed |-> FALSE, set |-> FALSE, done |-> FALSE, timers |-> <<>>,
     nc |-> -1, cap |-> None, caption |-> None, oldcap |-> None,
     reel |-> [loaded |-> FALSE, save |-> 0, pos |-> -1, len |-> 0, dir |-> "",
               by |-> None],
     orbit |-> [t |-> 0, sample |-> 0, by |-> None], screw |-> At, move |-> At,
     winsp |-> [t |-> 0, iv |-> 0, by |-> None],
     wioff |-> [t |-> 0, iv |-> 0, by |-> None],
     st |-> Start, saved |-> Start, rf |-> {}, away |-> 0, held |-> 0, far |-> 0,
     sel |-> {}, sub |-> {}, hid |-> {}, panels |-> {},
     stick |-> [p \in {"legend", "reel"} |-> "tr"], data |-> d, run |-> 0,
     by |-> None, ncby |-> None, capby |-> None, torn |-> FALSE, kept |-> {}, base |-> 0,
     seen |-> {}, fetched |-> FALSE, dead |-> FALSE, spin |-> FALSE]

Init == (\E d \in Data, f \in DOMAIN Scripts : w = initial(d, f)) /\ keys = 0

Next == frame \/ timer \/ key_x \/ key_space \/ key_R \/ dx_set

(* GLUT keeps drawing and keeps expiring timers.                           *)
Spec == Init /\ [][Next]_vars /\ WF_vars(frame) /\ WF_vars(timer)

-----------------------------------------------------------------------------
(* However scripts are ended, started again and exchanged, at most one     *)
(* timer of theirs runs, and an action that finds the timer taken will be  *)
(* told so: the timer is out, or it has expired (dxt_set and dxt_done      *)
(* against glutTimerFunc()).                                               *)
TimerAccounted ==
    /\ Len(w.timers) = IF w.set /\ ~w.done THEN 1 ELSE 0
    /\ w.done => w.set

(* dx_start() frees the list of the script before: the action that is run  *)
(* is one of the list as it was parsed last, and is run by the function of *)
(* its own directive; and so is the caption that is shown, that refresh    *)
(* keeps or that dx_end() brings back, except for just those captions that *)
(* refresh was keeping when its script was ended: dx_end() does not take   *)
(* them from it (deusex.c:439-448), and a later refresh shows one that     *)
(* dx_start() may have freed.                                              *)
NoDangling ==
    /\ w.active => /\ ~w.freed
                   /\ w.cur # 0 /\ w.de # "" => w.de = action(w).do
    /\ \A c \in {w.caption, w.cap, w.oldcap} : c = None \/ c[1] = w.gen \/ c \in w.kept

(* The actions keep what they have done in statics that outlive them, and  *)
(* share one timer: as long as no script was ended halfway an action, what *)
(* is kept there, the timer and its expiry are the running action's own.   *)
OwnProgress ==
    w.active /\ ~w.torn =>
        /\ {w.orbit.by, w.screw.by, w.move.by, w.winsp.by, w.wioff.by, w.reel.by, w.ncby,
            w.capby} \subseteq {None, me(w)}
        /\ \A i \in DOMAIN w.timers : w.timers[i].by = me(w)
        /\ w.done => w.by = me(w)

ends(do) == w.active /\ w.cur # 0 /\ w'.cur # w.cur /\ action(w).do = do

target(v, a) == CASE a.mode = "on"  -> v + a.n
                  [] a.mode = "off" -> v - a.n
                  [] a.mode = "set" -> a.n

(* An adjustment goes on with what the action began itself, or begins now. *)
own(u, s) == s.t = 0 \/ s.by = me(u)

(* xt3dmon.1:878-898: the spacing and the offset are increased or          *)
(* decreased by what is given, or "set to the given value".  An action     *)
(* that ends has done so, however many frames it took, whatever was        *)
(* fetched, held or ended halfway before or beside it (dxp_winsp,          *)
(* dxp_wioff), with two exceptions.  Zero is also the mark of what is done *)
(* already: to set a distance to zero leaves it as it was, against         *)
(* xt3dmon.1:885-886 and 897-898.  And an action that finds the static     *)
(* counter of one whose script was ended (t not zero) goes on with that    *)
(* one's numbers.                                                          *)
ZeroSet(a) == a.mode = "set" /\ a.n = 0

AdjustExact ==
    [][/\ ends("winsp") /\ own(w, w.winsp) =>
            w'.st.winsp = IF ZeroSet(action(w)) THEN w'.base ELSE target(w'.base, action(w))
       /\ ends("wioff") /\ own(w, w.wioff) =>
            w'.st.wioff = IF ZeroSet(action(w)) THEN w'.base ELSE target(w'.base, action(w))]_vars

(* cyclenc shows every class that has nodes, one after the other, and      *)
(* leaves none of them hidden (dxp_cyclenc), under two conditions: nothing *)
(* was fetched meanwhile, or the classes may be others than those it       *)
(* counted; and no script was ever ended halfway an action, or the cycle   *)
(* may go on where another was left.                                       *)
CycleShowsEach ==
    [][ends("cyclenc") /\ ~w.fetched /\ ~w.torn =>
          /\ {c \in 0 .. size(w) - 1 : w.st.dmode = "rte" \/ members(w, c) # {}} \subseteq w.seen
          /\ w'.hid \cap classes(w) = {}]_vars

(* playreel fetches every frame of the archive (dxp_playreel), under two   *)
(* conditions: the position that it keeps of the archive it played before  *)
(* is not the second one, which it takes for the end (save_reel_pos); and  *)
(* no script was ever ended halfway an action.                             *)
ReelWhole ==
    [][ends("playreel") /\ w.reel.loaded /\ w.base # 1 /\ ~w.torn =>
          w.seen = 0 .. w.reel.len - 1]_vars

(* A refresh without a caption to keep begins anew each frame.  A cycle    *)
(* through the classes of a mode in which all nodes look the same finds no *)
(* last class: nc_getfp() has a fill for every number (hl.c:143-148).      *)
restless(u) == action(u).do = "refresh" /\ u.caption = None /\ u.cap = None
endless(u)  == action(u).do = "cyclenc" /\ u.st.dmode = "same"

held(u) == \/ ~u.active \/ has(u, "STOP") \/ u.dead \/ u.spin
           \/ u.cur # 0 /\ (restless(u) \/ endless(u))

(* A script does not stay at an action forever, whatever scripts were      *)
(* ended halfway before it: it goes on and on, unless it is ended, or held *)
(* by the user (OP_STOP); ends the program; draws for a job that no node   *)
(* has and never comes back from it (spin, deusex.c:568); waits in a       *)
(* refresh for a caption; or cycles through a mode that has no last class. *)
Advances == []<>held(w) \/ []<><<w'.cur # w.cur>>_vars
=============================================================================
