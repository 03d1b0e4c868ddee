------------------------------ MODULE Rebuild ------------------------------
(***************************************************************************)
(* What each frame makes anew (main.c, draw.c, gl.c, env.c).               *)
(*                                                                         *)
(* Nothing in the picture is computed twice without need: the fill of each *)
(* node, the places and sizes of the nodes, the clip distance, the wired   *)
(* repetitions, the focus and three display lists per eye are kept from    *)
(* frame to frame.  Who changes something they are made from sets bits in  *)
(* st.st_rf by hand; the frame closes the bits under rf_deps() and makes   *)
(* what they name.  A forgotten bit leaves a part of the picture behind.   *)
(*                                                                         *)
(* Values are left out.  "stale" is the set of the things whose inputs     *)
(* have changed since they were made, and the operators *_reads say what   *)
(* each piece of drawing code looks at.  Making a thing that was stale     *)
(* changes it, so whatever reads it becomes stale in turn.                 *)
(***************************************************************************)
EXTENDS Naturals, FiniteSets

CONSTANTS
    Ops,       \* the operations a behaviour uses
    Steps,     \* bound: frames a node needs to reach its place
    MaxChange  \* bound: operations between two frames

Operation == {"set_dmode", "set_dmode_panel", "gotojob", "set_vmode", "vnmode", "wi",
              "rt", "pipes", "hl", "sel", "subset", "look", "show_pipes", "skel",
              "op_subset", "nodeanim", "stop", "cam", "update", "load_state",
              "flyby_init", "egg"}

ASSUME RebuildAssumption == /\ Ops \subseteq Operation
                            /\ Steps \in Nat \ {0}
                            /\ MaxChange \in Nat \ {0}

VMode == {"PHYS", "WIONE", "WIRED", "VNEIGHBOR"}
DMode == {"RTUNK", "other"}

(* Lists: the display lists of the left eye, and of the right.             *)
Lists == {"cluster", "selnodes", "ground", "cluster2", "selnodes2", "ground2"}

(* "vtwe" and "v" are the places n_vtwe and n_v, "view" what cam_look()    *)
(* set up, "reach" that the camera is inside the repetitions.              *)
Made == {"fillp", "vtwe", "v", "dimp", "clip", "view", "wirep", "reach", "focus"}
            \cup Lists

(* state.h.  Two of the names stand for the same bit.                      *)
RF_DATASRC == "RF_DATASRC"
RF_CLUSTER == "RF_CLUSTER"
RF_SELNODE == "RF_SELNODE"
RF_CAM     == "RF_CAM"
RF_GROUND  == "RF_GROUND"
RF_DMODE   == "RF_DMODE"
RF_DIM     == "RF_DIM"
RF_VMODE   == "RF_VMODE"
RF_WIREP   == "bit 9"
RF_FOCUS   == "bit 9"
RF_STEREO  == {RF_CLUSTER, RF_GROUND, RF_SELNODE}
RF_INIT    == {RF_DATASRC, RF_CLUSTER, RF_GROUND, RF_SELNODE, RF_CAM, RF_DMODE, RF_DIM,
               RF_VMODE, RF_FOCUS}

VARIABLES
    w,       \* the record described at World
    changes  \* operations since the last frame

vars == <<w, changes>>

(* opts: the options whose value decides what is read or done.             *)
(* far: frames until every node in sight is where n_vtwe wants it.         *)
(* wirep: the static rebuild_wirep.                                        *)
World == [vmode: VMode, dmode: DMode, stereo: BOOLEAN, sel: BOOLEAN, rte: BOOLEAN,
          opts: SUBSET {"PIPES", "SELPIPES", "NODEANIM", "STOP"},
          rf: SUBSET RF_INIT, wirep: BOOLEAN, far: 0 .. Steps, stale: SUBSET Made]

-----------------------------------------------------------------------------
(* What the drawing code reads.                                            *)

node_show_reads == {"subset", "data", "v", "fillp", "hl"}   \* NF_SUBSET, NF_VALID, NF_VMVIS, f_a
node_center_reads == {"v", "dimp"}

draw_node_label_reads == {"dimp", "fillp", "hl"}
draw_node_cores_reads == {"dimp", "fillp", "hl"}
draw_node_reads ==
    {"v", "fillp", "geom", "dimp", "look"} \cup draw_node_label_reads \cup draw_node_cores_reads

draw_pd_skel_reads == {}
draw_skel_reads(u) ==
    {"skel"} \cup CASE u.vmode = "PHYS" -> draw_pd_skel_reads
                    [] u.vmode \in {"WIONE", "WIRED"} -> {"wi"}
                    [] OTHER -> {}

draw_pipe_reads == {"wi", "pipes"}

rte_reads(u) == IF u.rte THEN {"data", "rt"} ELSE {}       \* PM_RTE

draw_node_pipes_reads(u) == node_center_reads \cup {"pipes", "wi"} \cup rte_reads(u)

draw_physpipes_reads(u) == node_show_reads \cup node_center_reads \cup {"pipes"} \cup rte_reads(u)

(* In the torus, whether the nodes are looked at or all the pipes of a     *)
(* dimension are drawn at once depends on OP_SUBSET; both are counted.     *)
draw_pipes_reads(u, selpipes) ==
    (IF selpipes THEN {"sel"} ELSE {}) \cup
    CASE u.vmode = "PHYS"  -> draw_physpipes_reads(u)
      [] u.vmode = "WIONE" -> node_show_reads \cup draw_node_pipes_reads(u) \cup draw_pipe_reads
      [] OTHER -> {}

draw_cluster_reads(u) ==
    {"vmode"} \cup
    IF u.vmode = "WIRED" THEN {}
    ELSE (IF "PIPES" \in u.opts THEN draw_pipes_reads(u, FALSE) ELSE {})
            \cup node_show_reads \cup draw_node_reads \cup draw_skel_reads(u)

(* A selected node has the fill of the selection; whether its own fill is  *)
(* transparent decides if it glides (NDF_NOTWEEN).                         *)
draw_selnodes_reads(u) ==
    {"vmode", "sel"} \cup
    IF u.vmode = "WIRED" \/ ~u.sel THEN {}
    ELSE draw_node_reads \cup
         IF "SELPIPES" \in u.opts /\ "PIPES" \notin u.opts
         THEN draw_pipes_reads(u, TRUE) ELSE {}

draw_ground_reads(u) == {"vmode"} \cup IF u.vmode = "WIONE" THEN {"wi"} ELSE {}

focus_cluster_reads(u) ==
    CASE u.vmode = "WIRED" -> {"cam", "wi"}
      [] u.vmode = "WIONE" -> {"wi"}
      [] OTHER -> {}
focus_selnodes_reads == {"v", "dimp"}

dmode_change_reads(u) ==
    {"dmode", "data"} \cup IF u.dmode = "RTUNK" THEN {"rt"} ELSE {}

(* The neighbour mode leaves out the nodes whose fill is transparent.      *)
vmode_change_reads(u) ==
    {"vmode"} \cup CASE u.vmode = "VNEIGHBOR" -> {"vnmode", "sel", "data", "fillp", "hl"}
                     [] u.vmode \in {"WIONE", "WIRED"} -> {"wi"}
                     [] OTHER -> {}

wirep_update_reads == {"clip", "wi"}

Reads(u, a) ==
    CASE a = "fillp" -> dmode_change_reads(u)
      [] a \in {"vtwe", "v"} -> vmode_change_reads(u)
      [] a = "dimp"  -> {"vmode", "geom"}
      [] a = "clip"  -> {"vmode"} \cup IF u.vmode = "WIRED" THEN {"wi"} ELSE {}
      [] a = "view"  -> {"cam", "clip"}
      [] a = "wirep" -> wirep_update_reads
      [] a = "focus" -> {"vmode", "sel"} \cup
                        IF u.sel THEN focus_selnodes_reads ELSE focus_cluster_reads(u)
      [] a \in {"cluster", "cluster2"}   -> draw_cluster_reads(u)
      [] a \in {"selnodes", "selnodes2"} -> draw_selnodes_reads(u)
      [] a \in {"ground", "ground2"}     -> draw_ground_reads(u)
      [] a = "reach" -> {}

Readers(u, S) == {a \in Made : Reads(u, a) \cap S # {}}

-----------------------------------------------------------------------------
add(G, b, H) == IF b \in G THEN G \cup H ELSE G

(* Variants with a plausible mistake; no specification below uses them.    *)

rf_deps_no_dim(F) ==
    LET f1 == add(F, RF_DATASRC, {RF_VMODE, RF_DMODE, RF_CLUSTER})
        f2 == add(f1, RF_DMODE, {RF_CLUSTER})
        f3 == add(f2, RF_VMODE, {RF_CLUSTER, RF_CAM, RF_GROUND, RF_SELNODE, RF_FOCUS})
    IN  add(f3, RF_DIM, {RF_CLUSTER, RF_SELNODE})

rf_deps_no_layout(F) ==
    LET f1 == add(F, RF_DATASRC, {RF_DMODE, RF_CLUSTER})
        f2 == add(f1, RF_VMODE, {RF_CLUSTER, RF_WIREP, RF_CAM, RF_GROUND, RF_SELNODE,
                                 RF_DIM, RF_FOCUS})
        f3 == add(f2, RF_DIM, {RF_CLUSTER, RF_SELNODE})
    IN  add(f3, RF_SELNODE, {RF_FOCUS})

draw_node_silent(u) ==
    IF "NODEANIM" \in u.opts /\ u.vmode # "WIRED" /\ "STOP" \notin u.opts /\ u.far > 0
    THEN [u EXCEPT !.far = @ - 1, !.stale = @ \cup Readers(u, {"v"}) \cup {"v"}] ELSE u

-----------------------------------------------------------------------------
(* main.c:731, which bits bring which others.                              *)
rf_deps(F) ==
    LET f1 == add(F, RF_DATASRC, {RF_VMODE, RF_DMODE, RF_CLUSTER})
        f2 == add(f1, RF_DMODE, {RF_CLUSTER})
        f3 == add(f2, RF_VMODE, {RF_CLUSTER, RF_WIREP, RF_CAM, RF_GROUND, RF_SELNODE,
                                 RF_DIM, RF_FOCUS})
        f4 == add(f3, RF_DIM, {RF_CLUSTER, RF_SELNODE})
    IN  add(f4, RF_SELNODE, {RF_FOCUS})

(* The things S are made: those that were stale have changed.              *)
make(u, S) ==
    [u EXCEPT !.stale = (@ \ S) \cup (Readers(u, @ \cap S) \ S)]

Animated(u) == "NODEANIM" \in u.opts /\ u.vmode # "WIRED"

dmode_change(u) == make(u, {"fillp"})

(* The places are computed into n_vtwe when the nodes move there by        *)
(* themselves, and into n_v otherwise.                                     *)
vmode_change(u) ==
    IF Animated(u)
    THEN [u EXCEPT !.stale = @ \ {"vtwe"}, !.far = IF "v" \in u.stale THEN Steps ELSE 0]
    ELSE [make(u, {"v"}) EXCEPT !.far = IF "vtwe" \in u.stale THEN Steps ELSE 0]

dim_update(u) == make(u, {"dimp"})

wirep_update(u) ==
    IF u.vmode = "WIRED" /\ u.wirep
    THEN [make(u, {"wirep"}) EXCEPT !.stale = @ \ {"reach"}, !.wirep = FALSE] ELSE u

(* Drawing a node moves it a step: node_tween_dir().  Who moved asks for   *)
(* another frame.  A node within 0.1 of its place counts as being there.   *)
draw_node(u) ==
    IF Animated(u) /\ "STOP" \notin u.opts /\ u.far > 0
    THEN LET v == [u EXCEPT !.far = @ - 1, !.rf = @ \cup {RF_CLUSTER, RF_SELNODE},
                            !.stale = @ \cup Readers(u, {"v"})]
         IN  [v EXCEPT !.stale = IF v.far = 0 /\ "vtwe" \notin @ THEN @ \ {"v"}
                                 ELSE @ \cup {"v"}]
    ELSE u

make_cluster(u, eye) ==
    IF eye = "left" THEN make(draw_node(u), {"cluster"}) ELSE make(u, {"cluster2"})
make_selnodes(u, eye) == make(u, {IF eye = "left" THEN "selnodes" ELSE "selnodes2"})
make_ground(u, eye) == make(u, {IF eye = "left" THEN "ground" ELSE "ground2"})
update_focus(u) == make(u, {"focus"})

-----------------------------------------------------------------------------
(* A fetch brings other data, or the same.                                 *)
fetch(u) == {u, [u EXCEPT !.stale = @ \cup Readers(u, {"data"})]}

(* main.c:748.  Every world of U is taken through the steps the flags F    *)
(* ask for.  Outside the modes with display lists the lists are made       *)
(* empty; the repetitions wait for the wired mode.                         *)
if_data(U, F)  == IF RF_DATASRC \in F THEN UNION {fetch(u) : u \in U} ELSE U
if_dmode(U, F) == IF RF_DMODE \in F THEN {dmode_change(u) : u \in U} ELSE U
if_vmode(U, F) == IF RF_VMODE \in F THEN {vmode_change(u) : u \in U} ELSE U
if_cam(U, F)   == IF RF_CAM \in F THEN {make(u, {"clip"}) : u \in U} ELSE U
if_ground(U, F, eye) == IF RF_GROUND \in F THEN {make_ground(u, eye) : u \in U} ELSE U
if_dim(U, F)   == IF RF_DIM \in F THEN {dim_update(u) : u \in U} ELSE U
if_wirep(U, F) == {wirep_update([u EXCEPT !.wirep = @ \/ RF_WIREP \in F]) : u \in U}
if_cluster(U, F, eye) == IF RF_CLUSTER \in F THEN {make_cluster(u, eye) : u \in U} ELSE U
if_selnode(U, F, eye) == IF RF_SELNODE \in F THEN {make_selnodes(u, eye) : u \in U} ELSE U
if_focus(U, F) == IF RF_FOCUS \in F THEN {update_focus(u) : u \in U} ELSE U

rebuild(U, F, eye) ==
    LET placed == if_cam(if_vmode(if_dmode(if_data(U, F), F), F), F)
        sized  == if_wirep(if_dim(if_ground(placed, F, eye), F), F)
    IN  if_focus(if_selnode(if_cluster(sized, F, eye), F, eye), F)

(* wired_update(): the camera has left the repetitions.                    *)
wired_update(u) ==
    IF u.vmode = "WIRED" /\ "reach" \in u.stale THEN [u EXCEPT !.rf = @ \cup {RF_WIREP}] ELSE u

gl_displayh_default(u) ==
    LET F == rf_deps(u.rf)
        U == rebuild({[u EXCEPT !.rf = {}]}, F, "left")
    IN  IF RF_CAM \in F THEN {make(v, {"view"}) : v \in U} ELSE U

(* The second eye makes its lists from what the first left, with OP_STOP   *)
(* set so that no node moves, and the flags of the first survive it.       *)
gl_displayh_stereo(u) ==
    LET F == rf_deps(u.rf)
        paused(v) == [v EXCEPT !.opts = @ \cup {"STOP"}, !.rf = {}]
        second(v) == rebuild({paused(v)}, F \cap RF_STEREO, "right")
    IN  UNION {{make([r EXCEPT !.opts = v.opts, !.rf = v.rf], {"view"}) : r \in second(v)} :
                 v \in rebuild({[u EXCEPT !.rf = {}]}, F, "left")}

frame == /\ changes' = 0
         /\ w' \in UNION {IF u.stereo THEN gl_displayh_stereo(u) ELSE gl_displayh_default(u) :
                             u \in {wired_update(w)}}

-----------------------------------------------------------------------------
(* The operations.  Each changes some of the sources and sets some bits.   *)

(* Out of sight a node does not move.  If nodes come into sight, some may  *)
(* have a way to go.                                                       *)
reveal(u, S) ==
    IF Animated(u) /\ S \cap {"hl", "data", "subset"} # {}
    THEN {u, [u EXCEPT !.far = Steps, !.stale = @ \cup {"v"}]} ELSE {u}

Change(u, v, S, F) ==
    reveal([v EXCEPT !.rf = @ \cup F,
                     !.stale = @ \cup Readers(u, S) \cup Readers(v, S)], S)

vn(u) == IF u.vmode = "VNEIGHBOR" THEN {RF_VMODE} ELSE {}

gl_keyh_dmode == \E d \in DMode :
    "set_dmode" \in Ops /\ w' \in Change(w, [w EXCEPT !.dmode = d], {"dmode"}, {RF_DMODE})

(* From the panel the nodes become cubes again: geom_setall().             *)
gscb_pw_dmode == \E d \in DMode :
    "set_dmode_panel" \in Ops /\ w' \in Change(w, [w EXCEPT !.dmode = d], {"dmode", "geom"},
                                  {RF_DIM, RF_CLUSTER, RF_SELNODE, RF_DMODE})

uinpcb_gotojob ==
    "gotojob" \in Ops /\ w' \in Change(w, [w EXCEPT !.dmode = "other"], {"hl", "dmode"},
                          {RF_CLUSTER, RF_SELNODE, RF_DMODE} \cup vn(w))

gl_keyh_vmode == \E m \in VMode :
    "set_vmode" \in Ops /\ w' \in Change(w, [w EXCEPT !.vmode = m], {"vmode"}, {RF_VMODE})

gscb_pw_vnmode == "vnmode" \in Ops /\ w' \in Change(w, w, {"vnmode"}, {RF_VMODE})

gl_keyh_incr ==
    "wi" \in Ops /\ w' \in Change(w, w, {"wi"}, {RF_CLUSTER, RF_GROUND, RF_CAM, RF_SELNODE, RF_VMODE})

gl_spkeyh_wiadj ==
    "wi" \in Ops /\ w' \in Change(w, w, {"wi"}, {RF_CLUSTER, RF_SELNODE, RF_GROUND, RF_VMODE})

gl_keyh_route == "rt" \in Ops /\ w' \in Change(w, w, {"rt"}, {RF_CLUSTER, RF_DMODE})

gl_keyh_pipes == \E r \in BOOLEAN :
    "pipes" \in Ops /\ w' \in Change(w, [w EXCEPT !.rte = r], {"pipes"}, {RF_CLUSTER, RF_SELNODE})

nc_apply == "hl" \in Ops /\ w' \in Change(w, w, {"hl"}, {RF_CLUSTER, RF_SELNODE} \cup vn(w))

sn_insert == "sel" \in Ops /\ w' \in Change(w, [w EXCEPT !.sel = TRUE], {"sel"}, {RF_SELNODE} \cup vn(w))
sn_replace ==
    w.sel /\ "sel" \in Ops /\ w' \in Change(w, w, {"sel"}, {RF_SELNODE} \cup vn(w))
sn_clear ==
    w.sel /\ "sel" \in Ops /\ w' \in Change(w, [w EXCEPT !.sel = FALSE], {"sel"}, {RF_SELNODE} \cup vn(w))

gscb_pw_help == "subset" \in Ops /\ w' \in Change(w, w, {"subset"}, {RF_CLUSTER, RF_SELNODE})

opt_flip_look == "look" \in Ops /\ w' \in Change(w, w, {"look"}, {RF_CLUSTER, RF_SELNODE})

flipped(S, o) == (S \ {o}) \cup ({o} \ S)

opt_flip_pipes == \E o \in {"PIPES", "SELPIPES"} :
    "show_pipes" \in Ops /\ w' \in Change(w, [w EXCEPT !.opts = flipped(@, o)], {"pipes"},
                             {RF_CLUSTER, RF_SELNODE})

opt_flip_skel == "skel" \in Ops /\ w' \in Change(w, w, {"skel"}, {RF_CLUSTER})

opt_flip_subset == "op_subset" \in Ops /\ w' \in Change(w, w, {"subset"}, {RF_CLUSTER})

(* Switched off, the animation puts each node where n_vtwe says.           *)
nodeanim_off(u) ==
    LET v == [u EXCEPT !.opts = @ \ {"NODEANIM"}, !.far = 0, !.rf = @ \cup {RF_CLUSTER},
                       !.stale = @ \cup IF u.far > 0 THEN Readers(u, {"v"}) ELSE {}]
    IN  IF "vtwe" \in u.stale THEN [v EXCEPT !.stale = @ \cup {"v"}]
        ELSE [v EXCEPT !.stale = @ \ {"v"}]

opt_flip_nodeanim ==
    "nodeanim" \in Ops /\ w' \in {IF "NODEANIM" \in w.opts THEN nodeanim_off(w)
                     ELSE [w EXCEPT !.opts = @ \cup {"NODEANIM"}]}

opt_flip_stop ==
    "stop" \in Ops /\ w' \in {IF "STOP" \in w.opts
                 THEN [w EXCEPT !.opts = @ \ {"STOP"},
                                !.rf = @ \cup {RF_CAM, RF_CLUSTER, RF_SELNODE}]
                 ELSE [w EXCEPT !.opts = @ \cup {"STOP"}]}

(* The camera moves, and may leave the repetitions of the wired mode.      *)
tween_pop == \E r \in SUBSET {"reach"} :
    "cam" \in Ops /\ w' \in {[w EXCEPT !.rf = @ \cup {RF_CAM},
                          !.stale = @ \cup Readers(w, {"cam"}) \cup r]}

(* Picking and resizing leave other matrices behind.                       *)
gl_select == "cam" \in Ops /\ w' \in {[w EXCEPT !.rf = @ \cup {RF_CAM}, !.stale = @ \cup {"view"}]}

gl_keyh_update == "update" \in Ops /\ w' \in {[w EXCEPT !.rf = @ \cup {RF_DATASRC}]}

(* load_state() compares five things and computes the flags anew: what     *)
(* else differs (D), and what was pending, it does not know of.            *)
differing(m, d, D) ==
    D \cup {"cam"} \cup (IF m # w.vmode THEN {"vmode"} ELSE {})
        \cup (IF d # w.dmode THEN {"dmode"} ELSE {})

load_flags(S) ==
    {RF_CAM} \cup (IF "dmode" \in S THEN {RF_DMODE} ELSE {})
        \cup (IF "vmode" \in S THEN {RF_VMODE} ELSE {})
        \cup (IF "pipes" \in S THEN {RF_CLUSTER, RF_SELNODE} ELSE {})
        \cup (IF "wi" \in S THEN {RF_CLUSTER, RF_SELNODE, RF_GROUND, RF_VMODE} ELSE {})

load_state == \E m \in VMode, d \in DMode, D \in SUBSET {"wi", "pipes", "rt", "vnmode"} :
    "load_state" \in Ops /\ w' \in Change(w, [w EXCEPT !.vmode = m, !.dmode = d, !.rf = {}],
                             differing(m, d, D), load_flags(differing(m, d, D)))

(* The first record of a flyby replaces the whole state.                   *)
flyby_read_init == \E m \in VMode, d \in DMode :
    "flyby_init" \in Ops /\ w' \in Change(w, [w EXCEPT !.vmode = m, !.dmode = d],
                             {"vmode", "dmode", "rt", "vnmode", "wi", "pipes", "cam"},
                             {RF_VMODE, RF_DMODE, RF_CAM, RF_SELNODE})

egg_matrix == \E m \in VMode, d \in DMode :
    "egg" \in Ops /\ w' \in Change(w, [w EXCEPT !.vmode = m, !.dmode = d], {"vmode", "dmode", "cam"},
                      {RF_CLUSTER, RF_SELNODE, RF_DMODE, RF_GROUND, RF_VMODE})

-----------------------------------------------------------------------------
Init == /\ w \in [vmode: {"PHYS", "WIONE"}, dmode: DMode, stereo: BOOLEAN, sel: {FALSE},
                  rte: {FALSE}, opts: {{}, {"NODEANIM"}}, rf: {RF_INIT}, wirep: {FALSE},
                  far: {Steps}, stale: {Made}]
        /\ changes = 0

operation ==
    /\ changes < MaxChange
    /\ changes' = changes + 1
    /\ \/ gl_keyh_dmode \/ gscb_pw_dmode \/ uinpcb_gotojob \/ gl_keyh_vmode \/ gscb_pw_vnmode
       \/ gl_keyh_incr \/ gl_spkeyh_wiadj \/ gl_keyh_route \/ gl_keyh_pipes \/ nc_apply
       \/ sn_insert \/ sn_replace \/ sn_clear \/ gscb_pw_help
       \/ opt_flip_look \/ opt_flip_pipes \/ opt_flip_skel \/ opt_flip_subset
       \/ opt_flip_nodeanim \/ opt_flip_stop \/ tween_pop \/ gl_select
       \/ gl_keyh_update \/ load_state \/ flyby_read_init \/ egg_matrix

Next == frame \/ operation

Spec == Init /\ [][Next]_vars /\ WF_vars(frame)

(* What the present mode shows and keeps; the two eyes look anew each      *)
(* frame, and the focus of the wired mode goes with the camera.            *)
Shown(u) ==
    {"fillp", "v", "dimp", "clip", "ground"}
        \cup (IF u.vmode = "WIRED" THEN {"wirep", "reach"} ELSE {"cluster", "selnodes"})
        \cup (IF ~u.stereo THEN {"view"} ELSE IF u.vmode = "WIRED" THEN {"ground2"}
              ELSE {"ground2", "cluster2", "selnodes2"})
        \cup (IF u.vmode = "WIRED" /\ ~u.sel THEN {} ELSE {"focus"})

(* What the next frame will make, as far as the bits tell.  A place the    *)
(* nodes move to is reached when it is right and they are drawn.           *)
Owed(u) ==
    LET D == rf_deps(u.rf)
        by(b, S) == IF b \in D THEN S ELSE {}
    IN  Shown(u) \cap UNION {
            by(RF_DMODE, {"fillp"}), by(RF_DIM, {"dimp"}), by(RF_CAM, {"clip", "view"}),
            by(RF_GROUND, {"ground", "ground2"}), by(RF_CLUSTER, {"cluster", "cluster2"}),
            by(RF_SELNODE, {"selnodes", "selnodes2"}), by(RF_FOCUS, {"focus"}),
            IF RF_WIREP \in D \/ u.wirep THEN {"wirep", "reach"} ELSE {},
            IF "reach" \in u.stale THEN {"reach"} ELSE {},
            IF ~Animated(u) \/ "vtwe" \in u.stale THEN by(RF_VMODE, {"v"})
            ELSE by(RF_CLUSTER, {"v"})}

Wrong(u) ==
    (u.stale \cap Shown(u)) \ IF Animated(u) /\ "STOP" \in u.opts THEN {"v"} ELSE {}

Picture == INSTANCE Scene WITH
    Thing <- Made, Gliding <- {"v", "cluster", "cluster2", "selnodes", "selnodes2", "focus"},
    shown <- Shown(w), wrong <- Wrong(w), owed <- Owed(w)

(* Rebuilding keeps the promise of Scene: what an operation makes wrong it *)
(* also asks for, and the frame makes all that is asked for, in an order   *)
(* in which nothing is made from what is about to change.                  *)
KeepsPromise == Picture!Spec

(* A fetch heals: whatever was forgotten before, after the frame of a      *)
(* fetch the picture is the picture of the present state.                  *)
FetchHeals ==
    [][(RF_DATASRC \in w.rf /\ frame /\ w'.far = 0) => w'.stale \cap Shown(w') = { }]_vars

(* When nobody changes anything any more the picture becomes complete,     *)
(* nodes on their way included.                                            *)
EventuallySettled ==
    <>[][frame]_vars => <>[](w.rf = {} /\ ("STOP" \notin w.opts => w.stale \cap Shown(w) = {}))
=============================================================================
