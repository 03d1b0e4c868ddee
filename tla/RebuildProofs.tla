--------------------------- MODULE RebuildProofs ---------------------------
(***************************************************************************)
(* Proofs about Rebuild, for any number of operations between two frames   *)
(* and any number of frames a node needs to its place.                     *)
(*                                                                         *)
(* That everything wrong is owed is not inductive: what is made is read by *)
(* what is made after it, shown or not, and another mode may show it.  The *)
(* inductive invariant Good says for each thing that is stale which of the *)
(* closed flags asks for it (Due), and that a node that is not at its      *)
(* place has frames to go and is drawn in the next (Glide).  The frame is  *)
(* followed stage by stage: each lemma ...Stage says what holds of every   *)
(* world after one of the if_ operators.                                   *)
(***************************************************************************)
EXTENDS Rebuild, TLAPS

(* rf_deps() bit by bit.                                                   *)
Brought(F, D) ==
    /\ RF_DATASRC \in D <=> RF_DATASRC \in F
    /\ RF_DMODE \in D <=> RF_DMODE \in F \/ RF_DATASRC \in F
    /\ RF_VMODE \in D <=> RF_VMODE \in F \/ RF_DATASRC \in F
    /\ RF_CAM \in D <=> RF_CAM \in F \/ RF_VMODE \in D
    /\ RF_GROUND \in D <=> RF_GROUND \in F \/ RF_VMODE \in D
    /\ RF_DIM \in D <=> RF_DIM \in F \/ RF_VMODE \in D
    /\ RF_CLUSTER \in D <=> RF_CLUSTER \in F \/ RF_DMODE \in D \/ RF_DIM \in D
    /\ RF_SELNODE \in D <=> RF_SELNODE \in F \/ RF_DIM \in D
    /\ RF_FOCUS \in D <=> RF_FOCUS \in F \/ RF_SELNODE \in D

(* What a frame's flags have in common.                                    *)
Closed(F) ==
    /\ RF_DATASRC \in F => RF_VMODE \in F /\ RF_DMODE \in F
    /\ RF_VMODE \in F => RF_CAM \in F /\ RF_GROUND \in F /\ RF_DIM \in F
    /\ RF_DMODE \in F => RF_CLUSTER \in F
    /\ RF_DIM \in F => RF_CLUSTER \in F /\ RF_SELNODE \in F
    /\ RF_SELNODE \in F => RF_FOCUS \in F

LEMMA Deps == ASSUME NEW F PROVE Brought(F, rf_deps(F))
  BY DEF Brought, rf_deps, add, RF_DATASRC, RF_DMODE, RF_VMODE, RF_CAM, RF_GROUND, RF_DIM,
         RF_CLUSTER, RF_SELNODE, RF_FOCUS, RF_WIREP

LEMMA DepsClosed == ASSUME NEW F PROVE Closed(rf_deps(F))
  BY Deps DEF Brought, Closed

(* What a change of the things in S makes stale, at most.                  *)
Touches(u, S) ==
    /\ "fillp" \in Readers(u, S) => "dmode" \in S \/ "data" \in S \/ "rt" \in S
    /\ "v" \in Readers(u, S) <=> "vtwe" \in Readers(u, S)
    /\ "v" \in Readers(u, S) =>
          \/ "vmode" \in S
          \/ u.vmode = "VNEIGHBOR" /\ ("vnmode" \in S \/ "sel" \in S \/ "data" \in S
                                       \/ "fillp" \in S \/ "hl" \in S)
          \/ "wi" \in S
    /\ "dimp" \in Readers(u, S) => "vmode" \in S \/ "geom" \in S
    /\ "clip" \in Readers(u, S) => "vmode" \in S \/ "wi" \in S
    /\ "view" \in Readers(u, S) => "cam" \in S \/ "clip" \in S
    /\ "wirep" \in Readers(u, S) => "clip" \in S \/ "wi" \in S
    /\ "reach" \notin Readers(u, S)
    /\ "focus" \in Readers(u, S) =>
          \/ "vmode" \in S \/ "sel" \in S \/ "wi" \in S
          \/ u.sel /\ ("v" \in S \/ "dimp" \in S)
          \/ u.vmode = "WIRED" /\ ~u.sel
    /\ \A a \in {"ground", "ground2"} :
          a \in Readers(u, S) => "vmode" \in S \/ "wi" \in S
    /\ \A a \in {"cluster", "cluster2"} : a \in Readers(u, S) =>
          \/ "vmode" \in S \/ "wi" \in S \/ "data" \in S
          \/ u.vmode # "WIRED" /\ ("subset" \in S \/ "v" \in S \/ "fillp" \in S \/ "hl" \in S
                \/ "geom" \in S \/ "dimp" \in S \/ "look" \in S \/ "skel" \in S
                \/ "pipes" \in S \/ "rt" \in S)
    /\ \A a \in {"selnodes", "selnodes2"} : a \in Readers(u, S) =>
          \/ "vmode" \in S \/ "sel" \in S
          \/ u.vmode # "WIRED" /\ u.sel /\ ("subset" \in S \/ "v" \in S \/ "fillp" \in S
                \/ "hl" \in S \/ "geom" \in S \/ "dimp" \in S \/ "look" \in S \/ "wi" \in S
                \/ "data" \in S \/ "pipes" \in S \/ "rt" \in S)

LEMMA TouchesLess == ASSUME NEW u \in World, NEW S PROVE Touches(u, S)
<1> USE DEF Readers, Reads, Made, Lists, World
<1>1. "fillp" \in Readers(u, S) => "dmode" \in S \/ "data" \in S \/ "rt" \in S
  BY DEF dmode_change_reads
<1>2. /\ "v" \in Readers(u, S) <=> "vtwe" \in Readers(u, S)
      /\ "v" \in Readers(u, S) =>
          \/ "vmode" \in S
          \/ u.vmode = "VNEIGHBOR" /\ ("vnmode" \in S \/ "sel" \in S \/ "data" \in S
                                       \/ "fillp" \in S \/ "hl" \in S)
          \/ "wi" \in S
  BY DEF vmode_change_reads
<1>3. /\ "dimp" \in Readers(u, S) => "vmode" \in S \/ "geom" \in S
      /\ "clip" \in Readers(u, S) => "vmode" \in S \/ "wi" \in S
      /\ "view" \in Readers(u, S) => "cam" \in S \/ "clip" \in S
      /\ "wirep" \in Readers(u, S) => "clip" \in S \/ "wi" \in S
      /\ "reach" \notin Readers(u, S)
  BY DEF wirep_update_reads
<1>4. "focus" \in Readers(u, S) =>
          \/ "vmode" \in S \/ "sel" \in S \/ "wi" \in S
          \/ u.sel /\ ("v" \in S \/ "dimp" \in S)
          \/ u.vmode = "WIRED" /\ ~u.sel
  BY DEF focus_selnodes_reads, focus_cluster_reads
<1>5. \A a \in {"ground", "ground2"} :
          a \in Readers(u, S) => "vmode" \in S \/ "wi" \in S
  BY DEF draw_ground_reads
<1>6. \A a \in {"cluster", "cluster2"} : a \in Readers(u, S) =>
          \/ "vmode" \in S \/ "wi" \in S \/ "data" \in S
          \/ u.vmode # "WIRED" /\ ("subset" \in S \/ "v" \in S \/ "fillp" \in S \/ "hl" \in S
                \/ "geom" \in S \/ "dimp" \in S \/ "look" \in S \/ "skel" \in S
                \/ "pipes" \in S \/ "rt" \in S)
  <2>1. ASSUME NEW a \in {"cluster", "cluster2"}, a \in Readers(u, S)
        PROVE  draw_cluster_reads(u) \cap S # {}
    BY <2>1
  <2>2. draw_cluster_reads(u) \subseteq
            {"vmode"} \cup IF u.vmode = "WIRED" THEN {}
                           ELSE {"wi", "data", "subset", "v", "fillp", "hl", "geom", "dimp",
                                 "look", "skel", "pipes", "rt"}
    BY DEF draw_cluster_reads, draw_pipes_reads, draw_physpipes_reads, draw_node_pipes_reads,
           draw_pipe_reads, rte_reads, node_show_reads, node_center_reads, draw_node_reads,
           draw_node_label_reads, draw_node_cores_reads, draw_skel_reads, draw_pd_skel_reads
  <2> QED BY <2>1, <2>2
<1>7. \A a \in {"selnodes", "selnodes2"} : a \in Readers(u, S) =>
          \/ "vmode" \in S \/ "sel" \in S
          \/ u.vmode # "WIRED" /\ u.sel /\ ("subset" \in S \/ "v" \in S \/ "fillp" \in S
                \/ "hl" \in S \/ "geom" \in S \/ "dimp" \in S \/ "look" \in S \/ "wi" \in S
                \/ "data" \in S \/ "pipes" \in S \/ "rt" \in S)
  <2>1. ASSUME NEW a \in {"selnodes", "selnodes2"}, a \in Readers(u, S)
        PROVE  draw_selnodes_reads(u) \cap S # {}
    BY <2>1
  <2>2. draw_selnodes_reads(u) \subseteq
            {"vmode", "sel"} \cup IF u.vmode = "WIRED" \/ ~u.sel THEN {}
                           ELSE {"wi", "data", "subset", "v", "fillp", "hl", "geom", "dimp",
                                 "look", "pipes", "rt"}
    BY DEF draw_selnodes_reads, draw_pipes_reads, draw_physpipes_reads, draw_node_pipes_reads,
           draw_pipe_reads, rte_reads, node_show_reads, node_center_reads, draw_node_reads,
           draw_node_label_reads, draw_node_cores_reads
  <2> QED BY <2>1, <2>2
<1> QED BY <1>1, <1>2, <1>3, <1>4, <1>5, <1>6, <1>7 DEF Touches

-----------------------------------------------------------------------------
(* What is stale and shown, or will be read by something shown, is asked   *)
(* for by the bits F; Glide: a node that is not where it should be has a   *)
(* way to go and is drawn.                                                 *)
Due(u, F) ==
    /\ "fillp" \in u.stale =>
          /\ RF_DMODE \in F /\ RF_CLUSTER \in F
          /\ u.vmode = "VNEIGHBOR" => RF_VMODE \in F
          /\ u.sel /\ u.vmode # "WIRED" => RF_SELNODE \in F
    /\ "v" \in u.stale /\ ~Animated(u) => RF_VMODE \in F
    /\ "vtwe" \in u.stale /\ Animated(u) => RF_VMODE \in F
    /\ "dimp" \in u.stale => RF_DIM \in F
    /\ "clip" \in u.stale => RF_CAM \in F /\ (u.vmode = "WIRED" => RF_WIREP \in F \/ u.wirep)
    /\ "view" \in u.stale /\ ~u.stereo => RF_CAM \in F
    /\ "wirep" \in u.stale /\ u.vmode = "WIRED" => RF_WIREP \in F \/ u.wirep
    /\ "ground" \in u.stale => RF_GROUND \in F
    /\ "ground2" \in u.stale /\ u.stereo => RF_GROUND \in F
    /\ "cluster" \in u.stale /\ u.vmode # "WIRED" => RF_CLUSTER \in F
    /\ "cluster2" \in u.stale /\ u.vmode # "WIRED" /\ u.stereo => RF_CLUSTER \in F
    /\ "selnodes" \in u.stale /\ u.vmode # "WIRED" => RF_SELNODE \in F
    /\ "selnodes2" \in u.stale /\ u.vmode # "WIRED" /\ u.stereo => RF_SELNODE \in F
    /\ "focus" \in u.stale /\ (u.vmode # "WIRED" \/ u.sel) => RF_FOCUS \in F

Glide(u, F) ==
    Animated(u) /\ "v" \in u.stale /\ "vtwe" \notin u.stale =>
        u.far > 0 /\ ("STOP" \in u.opts \/ RF_CLUSTER \in F)

(* The modes, which no step of a frame changes.                            *)
Same(u, v) == /\ v.vmode = u.vmode /\ v.dmode = u.dmode /\ v.stereo = u.stereo
              /\ v.sel = u.sel /\ v.rte = u.rte /\ v.opts = u.opts

LEMMA Making == ASSUME NEW u \in World, NEW S \in SUBSET Made
                PROVE  /\ make(u, S) \in World
                       /\ Same(u, make(u, S))
                       /\ make(u, S).rf = u.rf /\ make(u, S).wirep = u.wirep
                       /\ make(u, S).far = u.far
                       /\ make(u, S).stale = (u.stale \ S) \cup (Readers(u, u.stale \cap S) \ S)
  BY DEF make, World, Same, Readers


(* The stages of rebuild().  Before: nothing has moved yet, and what the   *)
(* camera left behind is asked for.  Placed: everything has its place; the *)
(* things in L are made.                                                   *)
Begun(u, F) ==
    /\ u \in World /\ Due(u, F) /\ u.rf = {}
    /\ Glide(u, F) \/ RF_VMODE \in F
    /\ u.vmode = "WIRED" /\ "reach" \in u.stale => RF_WIREP \in F

Placed(u, F, L) ==
    /\ u \in World /\ Due(u, F) /\ u.rf = {}
    /\ Glide(u, F)
    /\ u.vmode = "WIRED" /\ "reach" \in u.stale => RF_WIREP \in F
    /\ "fillp" \notin u.stale
    /\ IF Animated(u) THEN "vtwe" \notin u.stale ELSE "v" \notin u.stale
    /\ L \cap u.stale = {}

Kept(u, v) == Same(u, v) /\ v.rf = u.rf /\ v.wirep = u.wirep

LEMMA DataStage ==
    ASSUME NEW U, NEW F, Closed(F), \A u \in U : Begun(u, F),
           NEW x \in if_data(U, F)
    PROVE  Begun(x, F) /\ \E u \in U : Same(u, x)
<1>1. CASE RF_DATASRC \notin F
  BY <1>1 DEF if_data, Same
<1>2. CASE RF_DATASRC \in F
  <2>1. PICK u \in U : x \in fetch(u)
    BY <1>2 DEF if_data
  <2> DEFINE y == [u EXCEPT !.stale = @ \cup Readers(u, {"data"})]
  <2>2. /\ y \in World /\ Same(u, y) /\ y.rf = u.rf /\ y.wirep = u.wirep /\ y.far = u.far
        /\ y.stale = u.stale \cup Readers(u, {"data"})
    BY DEF Begun, World, Same, Readers
  <2>3. Touches(u, {"data"})
    BY TouchesLess DEF Begun
  <2>4. x = u \/ x = y
    BY <2>1 DEF fetch
  <2> HIDE DEF y
  <2>5. Due(y, F)
    BY <1>2, <2>2, <2>3 DEF Begun, Due, Closed, Touches, Same, Animated, RF_WIREP, RF_FOCUS
  <2>6. Begun(y, F)
    BY <1>2, <2>2, <2>3, <2>5 DEF Begun, Closed, Touches, Same
  <2> QED BY <2>2, <2>4, <2>6 DEF Same
<1> QED BY <1>1, <1>2

LEMMA DmodeStage ==
    ASSUME NEW U, NEW F, Closed(F), \A u \in U : Begun(u, F),
           NEW x \in if_dmode(U, F)
    PROVE  Begun(x, F) /\ "fillp" \notin x.stale /\ \E u \in U : Same(u, x)
<1>1. CASE RF_DMODE \notin F
  BY <1>1 DEF if_dmode, Same, Begun, Due
<1>2. CASE RF_DMODE \in F
  <2>1. PICK u \in U : x = make(u, {"fillp"})
    BY <1>2 DEF if_dmode, dmode_change
  <2>2. /\ x \in World /\ Kept(u, x) /\ x.far = u.far
        /\ x.stale = (u.stale \ {"fillp"}) \cup (Readers(u, u.stale \cap {"fillp"}) \ {"fillp"})
    BY <2>1, Making DEF Begun, Made, Kept
  <2>3. Touches(u, u.stale \cap {"fillp"})
    BY TouchesLess DEF Begun
  <2>4. Due(x, F)
    BY <2>2, <2>3 DEF Begun, Due, Closed, Touches, Kept, Same, Animated, RF_WIREP, RF_FOCUS
  <2>5. Glide(x, F) \/ RF_VMODE \in F
    BY <2>2, <2>3 DEF Begun, Due, Glide, Closed, Touches, Kept, Same, Animated
  <2>6. Begun(x, F) /\ "fillp" \notin x.stale
    BY <2>2, <2>3, <2>4, <2>5 DEF Begun, Touches, Kept, Same
  <2> QED BY <2>2, <2>6 DEF Kept
<1> QED BY <1>1, <1>2

LEMMA VmodeStage ==
    ASSUME NEW U, NEW F, Closed(F), \A u \in U : Begun(u, F) /\ "fillp" \notin u.stale,
           NEW x \in if_vmode(U, F)
    PROVE  Placed(x, F, {}) /\ \E u \in U : Same(u, x)
<1>1. CASE RF_VMODE \notin F
  BY <1>1 DEF if_vmode, Same, Begun, Placed, Due, Glide
<1>2. CASE RF_VMODE \in F
  <2>1. PICK u \in U : x = vmode_change(u)
    BY <1>2 DEF if_vmode
  <2>a. Begun(u, F) /\ "fillp" \notin u.stale
    OBVIOUS
  <2>2. CASE Animated(u)
    <3> DEFINE n == IF "v" \in u.stale THEN Steps ELSE 0
    <3>1. n \in 0 .. Steps
      BY RebuildAssumption
    <3>2. x = [u EXCEPT !.stale = @ \ {"vtwe"}, !.far = n]
      BY <2>1, <2>2 DEF vmode_change
    <3>3. /\ x \in World /\ Kept(u, x) /\ x.far = n
          /\ x.stale = u.stale \ {"vtwe"}
      <4> HIDE DEF n
      <4> QED BY <2>a, <3>1, <3>2 DEF Begun, World, Kept, Same
    <3> HIDE DEF n
    <3>4. Due(x, F)
      BY <2>a, <3>3 DEF Begun, Due, Kept, Same, Animated
    <3>5. Glide(x, F)
      BY <1>2, <3>3, RebuildAssumption DEF Glide, Closed, n
    <3> QED BY <2>a, <2>2, <3>3, <3>4, <3>5 DEF Begun, Placed, Kept, Same, Animated
  <2>3. CASE ~Animated(u)
    <3> DEFINE n == IF "vtwe" \in u.stale THEN Steps ELSE 0
               m == make(u, {"v"})
    <3>1. n \in 0 .. Steps
      BY RebuildAssumption
    <3>2. x = [m EXCEPT !.far = n]
      BY <2>1, <2>3 DEF vmode_change
    <3>3. /\ m \in World /\ Kept(u, m)
          /\ m.stale = (u.stale \ {"v"}) \cup (Readers(u, u.stale \cap {"v"}) \ {"v"})
      BY <2>a, Making DEF Begun, Made, Kept
    <3>4. /\ x \in World /\ Kept(u, x)
          /\ x.stale = (u.stale \ {"v"}) \cup (Readers(u, u.stale \cap {"v"}) \ {"v"})
      <4> HIDE DEF n, m
      <4> QED BY <3>1, <3>2, <3>3 DEF World, Kept, Same
    <3>5. Touches(u, u.stale \cap {"v"})
      BY <2>a, TouchesLess DEF Begun
    <3> HIDE DEF n, m
    <3>6. Due(x, F)
      BY <1>2, <2>a, <2>3, <3>4, <3>5
      DEF Begun, Due, Closed, Touches, Kept, Same, Animated, RF_WIREP, RF_FOCUS
    <3> QED BY <2>a, <2>3, <3>4, <3>5, <3>6
            DEF Begun, Placed, Glide, Touches, Kept, Same, Animated
  <2> QED BY <2>2, <2>3
<1> QED BY <1>1, <1>2

LEMMA CamStage ==
    ASSUME NEW U, NEW F, Closed(F), \A u \in U : Placed(u, F, {}),
           NEW x \in if_cam(U, F)
    PROVE  Placed(x, F, {"clip"}) /\ \E u \in U : Same(u, x)
<1>1. CASE RF_CAM \notin F
  BY <1>1 DEF if_cam, Same, Placed, Due
<1>2. CASE RF_CAM \in F
  <2>1. PICK u \in U : x = make(u, {"clip"})
    BY <1>2 DEF if_cam
  <2>2. /\ x \in World /\ Kept(u, x) /\ x.far = u.far
        /\ x.stale = (u.stale \ {"clip"}) \cup (Readers(u, u.stale \cap {"clip"}) \ {"clip"})
    BY <2>1, Making DEF Placed, Made, Kept
  <2>3. Touches(u, u.stale \cap {"clip"})
    BY TouchesLess DEF Placed
  <2>4. Due(x, F)
    BY <1>2, <2>2, <2>3 DEF Placed, Due, Closed, Touches, Kept, Same, Animated, RF_WIREP, RF_FOCUS
  <2> QED BY <2>2, <2>3, <2>4 DEF Placed, Glide, Touches, Kept, Same, Animated
<1> QED BY <1>1, <1>2

LEMMA GroundStage ==
    ASSUME NEW U, NEW F, Closed(F), \A u \in U : Placed(u, F, {"clip"}),
           NEW x \in if_ground(U, F, "left")
    PROVE  Placed(x, F, {"clip", "ground"}) /\ \E u \in U : Same(u, x)
<1>1. CASE RF_GROUND \notin F
  BY <1>1 DEF if_ground, Same, Placed, Due
<1>2. CASE RF_GROUND \in F
  <2>1. PICK u \in U : x = make(u, {"ground"})
    BY <1>2 DEF if_ground, make_ground
  <2>2. /\ x \in World /\ Kept(u, x) /\ x.far = u.far
        /\ x.stale = (u.stale \ {"ground"})
                        \cup (Readers(u, u.stale \cap {"ground"}) \ {"ground"})
    BY <2>1, Making DEF Placed, Made, Lists, Kept
  <2>3. Touches(u, u.stale \cap {"ground"})
    BY TouchesLess DEF Placed
  <2>4. Due(x, F)
    BY <1>2, <2>2, <2>3 DEF Placed, Due, Closed, Touches, Kept, Same, Animated, RF_WIREP, RF_FOCUS
  <2> QED BY <2>2, <2>3, <2>4 DEF Placed, Glide, Touches, Kept, Same, Animated
<1> QED BY <1>1, <1>2

LEMMA DimStage ==
    ASSUME NEW U, NEW F, Closed(F), \A u \in U : Placed(u, F, {"clip", "ground"}),
           NEW x \in if_dim(U, F)
    PROVE  Placed(x, F, {"clip", "ground", "dimp"}) /\ \E u \in U : Same(u, x)
<1>1. CASE RF_DIM \notin F
  BY <1>1 DEF if_dim, Same, Placed, Due
<1>2. CASE RF_DIM \in F
  <2>1. PICK u \in U : x = make(u, {"dimp"})
    BY <1>2 DEF if_dim, dim_update
  <2>2. /\ x \in World /\ Kept(u, x) /\ x.far = u.far
        /\ x.stale = (u.stale \ {"dimp"}) \cup (Readers(u, u.stale \cap {"dimp"}) \ {"dimp"})
    BY <2>1, Making DEF Placed, Made, Kept
  <2>3. Touches(u, u.stale \cap {"dimp"})
    BY TouchesLess DEF Placed
  <2>4. Due(x, F)
    BY <1>2, <2>2, <2>3 DEF Placed, Due, Closed, Touches, Kept, Same, Animated, RF_WIREP, RF_FOCUS
  <2> QED BY <2>2, <2>3, <2>4 DEF Placed, Glide, Touches, Kept, Same, Animated
<1> QED BY <1>1, <1>2

(* The repetitions are made in the wired mode if any of them is asked for. *)
Repeated(u) == u.vmode = "WIRED" => ~u.wirep /\ "wirep" \notin u.stale /\ "reach" \notin u.stale

Sized(u, F) == Placed(u, F, {"clip", "ground", "dimp"}) /\ Repeated(u)

LEMMA WirepStage ==
    ASSUME NEW U, NEW F, Closed(F),
           \A u \in U : Placed(u, F, {"clip", "ground", "dimp"}),
           NEW x \in if_wirep(U, F)
    PROVE  Sized(x, F) /\ \E u \in U : Same(u, x)
<1>1. PICK u \in U : x = wirep_update([u EXCEPT !.wirep = @ \/ RF_WIREP \in F])
  BY DEF if_wirep
<1> DEFINE y == [u EXCEPT !.wirep = @ \/ RF_WIREP \in F]
           m == make(y, {"wirep"})
<1>2. Placed(u, F, {"clip", "ground", "dimp"})
  OBVIOUS
<1>3. /\ y \in World /\ Same(u, y) /\ y.rf = u.rf /\ y.far = u.far /\ y.stale = u.stale
      /\ y.wirep <=> u.wirep \/ RF_WIREP \in F
  <2> DEFINE b == u.wirep \/ RF_WIREP \in F
  <2>1. b \in BOOLEAN
    OBVIOUS
  <2>2. y = [u EXCEPT !.wirep = b]
    OBVIOUS
  <2> HIDE DEF b, y
  <2>3. y \in World /\ Same(u, y) /\ y.rf = u.rf /\ y.far = u.far /\ y.stale = u.stale
    BY <1>2, <2>1, <2>2 DEF Placed, World, Same
  <2>4. y.wirep = b
    BY <1>2, <2>1, <2>2 DEF Placed, World
  <2> QED BY <2>3, <2>4 DEF b
<1>4. x = wirep_update(y)
  BY <1>1
<1> HIDE DEF y
<1>5. Placed(y, F, {"clip", "ground", "dimp"})
  BY <1>2, <1>3 DEF Placed, Due, Glide, Same, Animated
<1>6. CASE ~(y.vmode = "WIRED" /\ y.wirep)
  <2>1. x = y
    BY <1>4, <1>6 DEF wirep_update
  <2> QED BY <1>3, <1>5, <1>6, <2>1 DEF Sized, Repeated, Placed, Due, Same
<1>7. CASE y.vmode = "WIRED" /\ y.wirep
  <2>1. x = [m EXCEPT !.stale = @ \ {"reach"}, !.wirep = FALSE]
    BY <1>4, <1>7 DEF wirep_update
  <2>2. /\ m \in World /\ Kept(y, m) /\ m.far = y.far
        /\ m.stale = (y.stale \ {"wirep"}) \cup (Readers(y, y.stale \cap {"wirep"}) \ {"wirep"})
    BY <1>5, Making DEF Placed, Made, Kept
  <2> HIDE DEF m
  <2>3. /\ x \in World /\ Same(m, x) /\ x.rf = m.rf /\ x.far = m.far
        /\ x.stale = m.stale \ {"reach"} /\ ~x.wirep
    BY <2>1, <2>2 DEF World, Same
  <2>4. Touches(y, y.stale \cap {"wirep"})
    BY <1>5, TouchesLess DEF Placed
  <2>5. Due(x, F)
    BY <1>5, <1>7, <2>2, <2>3, <2>4 DEF Placed, Due, Touches, Kept, Same, Animated
  <2>6. Placed(x, F, {"clip", "ground", "dimp"}) /\ Repeated(x)
    BY <1>5, <1>7, <2>2, <2>3, <2>4, <2>5
    DEF Placed, Repeated, Glide, Touches, Kept, Same, Animated
  <2> QED BY <1>3, <2>2, <2>3, <2>6 DEF Sized, Kept, Same
<1> QED BY <1>6, <1>7

Moving == {RF_CLUSTER, RF_SELNODE}

(* After the nodes were drawn: those on their way asked for another frame. *)
Drawn(u, F) ==
    /\ u \in World
    /\ u.rf = {} \/ (u.rf = Moving /\ Animated(u) /\ RF_CLUSTER \in F)
    /\ {"fillp", "clip", "ground", "dimp"} \cap u.stale = {}
    /\ IF Animated(u) THEN "vtwe" \notin u.stale ELSE "v" \notin u.stale
    /\ "v" \in u.stale => u.far > 0 /\ ("STOP" \in u.opts \/ u.rf = Moving)
    /\ Repeated(u)
    /\ "view" \in u.stale /\ ~u.stereo => RF_CAM \in F
    /\ "ground2" \in u.stale /\ u.stereo => RF_GROUND \in F
    /\ u.vmode # "WIRED" =>
          /\ "cluster" \notin u.stale
          /\ "cluster2" \in u.stale /\ u.stereo => RF_CLUSTER \in F
          /\ "selnodes" \in u.stale => RF_SELNODE \in F \/ u.rf = Moving
          /\ "selnodes2" \in u.stale /\ u.stereo => RF_SELNODE \in F \/ u.rf = Moving
    /\ "focus" \in u.stale /\ (u.vmode # "WIRED" \/ u.sel) => RF_FOCUS \in F \/ u.rf = Moving

LEMMA Drawing ==
    ASSUME NEW u, NEW F, Closed(F), Sized(u, F), RF_CLUSTER \in F
    PROVE  LET x == draw_node(u) IN
           /\ x \in World /\ Same(u, x) /\ x.wirep = u.wirep
           /\ x.rf = {} \/ (x.rf = Moving /\ Animated(x))
           /\ x.stale \ {"v", "cluster", "cluster2", "selnodes", "selnodes2", "focus"} \subseteq u.stale
           /\ x.stale # u.stale => x.rf = Moving
           /\ "v" \in x.stale => Animated(x) /\ x.far > 0 /\ ("STOP" \in x.opts \/ x.rf = Moving)
<1>1. CASE ~(Animated(u) /\ "STOP" \notin u.opts /\ u.far > 0)
  <2>1. draw_node(u) = u
    BY <1>1 DEF draw_node
  <2> QED BY <1>1, <2>1 DEF Sized, Placed, Glide, Same
<1>2. CASE Animated(u) /\ "STOP" \notin u.opts /\ u.far > 0
  <2> DEFINE r == u.rf \cup Moving
             n == u.far - 1
             y == [u EXCEPT !.far = n, !.rf = r, !.stale = @ \cup Readers(u, {"v"})]
             s == IF n = 0 /\ "vtwe" \notin y.stale THEN y.stale \ {"v"} ELSE y.stale \cup {"v"}
             x == [y EXCEPT !.stale = s]
  <2>1. u \in World /\ r = Moving /\ r \in SUBSET RF_INIT
    BY DEF Sized, Placed, Moving, RF_INIT
  <2>2. n \in 0 .. Steps
    BY <1>2, <2>1, RebuildAssumption DEF World
  <2> HIDE DEF r, n
  <2>3. /\ y \in World /\ Same(u, y) /\ y.wirep = u.wirep /\ y.rf = r /\ y.far = n
        /\ y.stale = u.stale \cup Readers(u, {"v"})
    BY <2>1, <2>2 DEF World, Same, Readers
  <2> HIDE DEF y
  <2>4. s \in SUBSET Made
    BY <2>3 DEF World, Made
  <2>5. /\ x \in World /\ Same(u, x) /\ x.wirep = u.wirep /\ x.rf = r /\ x.far = n
        /\ x.stale = s
    <3> HIDE DEF s
    <3> QED BY <2>3, <2>4 DEF World, Same
  <2>6. draw_node(u) = x
    BY <1>2, <2>3 DEF draw_node, y, n, r, Moving
  <2>7. Touches(u, {"v"})
    BY <2>1, TouchesLess
  <2>8. Readers(u, {"v"}) \subseteq {"cluster", "cluster2", "selnodes", "selnodes2", "focus"}
    BY <2>7 DEF Touches, Readers, Made, Lists
  <2>9. "vtwe" \notin y.stale
    BY <1>2, <2>3, <2>8 DEF Sized, Placed
  <2> HIDE DEF x
  <2>10. "v" \in x.stale => x.far > 0
    BY <2>2, <2>5, <2>9
  <2> QED BY <1>2, <2>1, <2>3, <2>5, <2>6, <2>8, <2>10 DEF Animated, Same
<1> QED BY <1>1, <1>2

LEMMA ClusterStage ==
    ASSUME NEW U, NEW F, Closed(F), \A u \in U : Sized(u, F),
           NEW x \in if_cluster(U, F, "left")
    PROVE  Drawn(x, F) /\ \E u \in U : Same(u, x)
<1>1. CASE RF_CLUSTER \notin F
  <2>1. x \in U /\ Sized(x, F)
    BY <1>1 DEF if_cluster
  <2> QED BY <1>1, <2>1 DEF Sized, Placed, Due, Glide, Drawn, Same
<1>2. CASE RF_CLUSTER \in F
  <2>1. PICK u \in U : x = make(draw_node(u), {"cluster"})
    BY <1>2 DEF if_cluster, make_cluster
  <2>a. Sized(u, F)
    OBVIOUS
  <2> DEFINE d == draw_node(u)
  <2>2. /\ d \in World /\ Same(u, d) /\ d.wirep = u.wirep
        /\ d.rf = {} \/ (d.rf = Moving /\ Animated(d))
        /\ d.stale \ {"v", "cluster", "cluster2", "selnodes", "selnodes2", "focus"} \subseteq u.stale
        /\ d.stale # u.stale => d.rf = Moving
        /\ "v" \in d.stale => Animated(d) /\ d.far > 0 /\ ("STOP" \in d.opts \/ d.rf = Moving)
    BY <1>2, <2>a, Drawing
  <2> HIDE DEF d
  <2>3. /\ x \in World /\ Kept(d, x) /\ x.far = d.far
        /\ x.stale = (d.stale \ {"cluster"})
                        \cup (Readers(d, d.stale \cap {"cluster"}) \ {"cluster"})
    BY <2>1, <2>2, Making DEF Made, Lists, Kept, d
  <2>4. Touches(d, d.stale \cap {"cluster"})
    BY <2>2, TouchesLess
  <2>5. x.stale \subseteq (d.stale \ {"cluster"}) \cup {"focus"}
    BY <2>3, <2>4 DEF Touches, Readers, Made, Lists
  <2>6. "focus" \in x.stale /\ (x.vmode # "WIRED" \/ x.sel) => "focus" \in d.stale
    BY <2>3, <2>4 DEF Touches, Kept, Same
  <2>7. /\ {"fillp", "clip", "ground", "dimp"} \cap x.stale = {}
        /\ IF Animated(x) THEN "vtwe" \notin x.stale ELSE "v" \notin x.stale
        /\ Repeated(x)
        /\ "view" \in x.stale => "view" \in u.stale
        /\ "ground2" \in x.stale => "ground2" \in u.stale
        /\ "cluster" \notin x.stale
    <3>1. \A a \in {"fillp", "clip", "ground", "dimp", "vtwe", "wirep", "reach", "view", "ground2"} :
             a \in x.stale => a \in u.stale
      BY <2>2, <2>5
    <3>2. /\ "fillp" \notin u.stale /\ {"clip", "ground", "dimp"} \cap u.stale = {}
          /\ Animated(u) => "vtwe" \notin u.stale
          /\ Repeated(u)
      BY <2>a DEF Sized, Placed
    <3>3. (Animated(x) <=> Animated(u)) /\ (Animated(x) <=> Animated(d))
      BY <2>2, <2>3 DEF Kept, Same, Animated
    <3>4. IF Animated(x) THEN "vtwe" \notin x.stale ELSE "v" \notin x.stale
      BY <2>2, <2>5, <3>1, <3>2, <3>3
    <3>5. Repeated(x)
      BY <2>2, <2>3, <3>1, <3>2 DEF Repeated, Kept, Same
    <3>6. "cluster" \notin x.stale
      BY <2>3
    <3> QED BY <3>1, <3>2, <3>4, <3>5, <3>6
  <2>8. /\ "v" \in x.stale => x.far > 0 /\ ("STOP" \in x.opts \/ x.rf = Moving)
        /\ x.rf = {} \/ (x.rf = Moving /\ Animated(x) /\ RF_CLUSTER \in F)
    BY <1>2, <2>2, <2>3, <2>5 DEF Kept, Same, Animated
  <2>9. \A a \in {"cluster2", "selnodes", "selnodes2"} :
           a \in x.stale => a \in u.stale \/ x.rf = Moving
    BY <2>2, <2>3, <2>5 DEF Kept
  <2>10. "focus" \in x.stale /\ (x.vmode # "WIRED" \/ x.sel) => "focus" \in u.stale \/ x.rf = Moving
    BY <2>2, <2>3, <2>6 DEF Kept
  <2>11. Due(u, F) /\ x.vmode = u.vmode /\ x.stereo = u.stereo /\ x.sel = u.sel
    BY <2>a, <2>2, <2>3 DEF Sized, Placed, Kept, Same
  <2>12. Drawn(x, F)
    BY <1>2, <2>3, <2>7, <2>8, <2>9, <2>10, <2>11 DEF Due, Drawn
  <2> QED BY <2>2, <2>3, <2>12 DEF Kept, Same
<1> QED BY <1>1, <1>2

SelnodeStale(u, F) ==
    u.vmode # "WIRED" /\ "selnodes" \in u.stale => RF_SELNODE \notin F /\ u.rf = Moving
FocusStale(u, F) ==
    "focus" \in u.stale /\ (u.vmode # "WIRED" \/ u.sel) => RF_FOCUS \notin F /\ u.rf = Moving

LEMMA SelnodeStage ==
    ASSUME NEW U, NEW F, Closed(F), \A u \in U : Drawn(u, F),
           NEW x \in if_selnode(U, F, "left")
    PROVE  Drawn(x, F) /\ SelnodeStale(x, F) /\ \E u \in U : Same(u, x)
<1>1. CASE RF_SELNODE \notin F
  BY <1>1 DEF if_selnode, Same, Drawn, SelnodeStale
<1>2. CASE RF_SELNODE \in F
  <2>1. PICK u \in U : x = make(u, {"selnodes"})
    BY <1>2 DEF if_selnode, make_selnodes
  <2>a. Drawn(u, F)
    OBVIOUS
  <2>2. /\ x \in World /\ Kept(u, x) /\ x.far = u.far
        /\ x.stale = (u.stale \ {"selnodes"})
                        \cup (Readers(u, u.stale \cap {"selnodes"}) \ {"selnodes"})
    BY <2>a, <2>1, Making DEF Drawn, Made, Lists, Kept
  <2>3. Touches(u, u.stale \cap {"selnodes"})
    BY <2>a, TouchesLess DEF Drawn
  <2>4. x.stale \subseteq (u.stale \ {"selnodes"}) \cup {"focus"}
    BY <2>2, <2>3 DEF Touches, Readers, Made, Lists
  <2>5. "focus" \in x.stale /\ (x.vmode # "WIRED" \/ x.sel) => "focus" \in u.stale
    BY <2>2, <2>3 DEF Touches, Kept, Same
  <2>6. Drawn(x, F) /\ SelnodeStale(x, F)
    BY <2>a, <2>2, <2>4, <2>5 DEF Drawn, SelnodeStale, Repeated, Kept, Same, Animated
  <2> QED BY <2>2, <2>6 DEF Kept
<1> QED BY <1>1, <1>2

LEMMA FocusStage ==
    ASSUME NEW U, NEW F, Closed(F), \A u \in U : Drawn(u, F) /\ SelnodeStale(u, F),
           NEW x \in if_focus(U, F)
    PROVE  /\ Drawn(x, F) /\ SelnodeStale(x, F) /\ FocusStale(x, F)
           /\ \E u \in U : Same(u, x)
<1>1. CASE RF_FOCUS \notin F
  BY <1>1 DEF if_focus, Same, Drawn, FocusStale
<1>2. CASE RF_FOCUS \in F
  <2>1. PICK u \in U : x = make(u, {"focus"})
    BY <1>2 DEF if_focus, update_focus
  <2>a. Drawn(u, F) /\ SelnodeStale(u, F)
    OBVIOUS
  <2>2. /\ x \in World /\ Kept(u, x) /\ x.far = u.far
        /\ x.stale = (u.stale \ {"focus"})
                        \cup (Readers(u, u.stale \cap {"focus"}) \ {"focus"})
    BY <2>a, <2>1, Making DEF Drawn, Made, Kept
  <2>3. Touches(u, u.stale \cap {"focus"})
    BY <2>a, TouchesLess DEF Drawn
  <2>4. x.stale \subseteq u.stale \ {"focus"}
    BY <2>2, <2>3 DEF Touches, Readers, Made, Lists
  <2>6. Drawn(x, F) /\ SelnodeStale(x, F) /\ FocusStale(x, F)
    BY <2>a, <2>2, <2>4
    DEF Drawn, SelnodeStale, FocusStale, Repeated, Kept, Same, Animated
  <2> QED BY <2>2, <2>6 DEF Kept
<1> QED BY <1>1, <1>2

(* The first eye, from the flags' closure to the focus.                    *)
Eyed(u, F) == Drawn(u, F) /\ SelnodeStale(u, F) /\ FocusStale(u, F)

LEMMA LeftEye ==
    ASSUME NEW u, NEW F, Closed(F), Begun(u, F), NEW x \in rebuild({u}, F, "left")
    PROVE  Eyed(x, F) /\ Same(u, x)
<1> DEFINE U0 == {u}
           U1 == if_data(U0, F)
           U2 == if_dmode(U1, F)
           U3 == if_vmode(U2, F)
           U4 == if_cam(U3, F)
           U5 == if_ground(U4, F, "left")
           U6 == if_dim(U5, F)
           U7 == if_wirep(U6, F)
           U8 == if_cluster(U7, F, "left")
           U9 == if_selnode(U8, F, "left")
<1>0. x \in if_focus(U9, F)
  BY DEF rebuild
<1>1. \A y \in U1 : Begun(y, F) /\ Same(u, y)
  <2>1. \A y \in U0 : Begun(y, F) /\ y = u
    OBVIOUS
  <2> HIDE DEF U0
  <2> QED BY <2>1, DataStage
<1> HIDE DEF U1
<1>2. \A y \in U2 : Begun(y, F) /\ "fillp" \notin y.stale /\ Same(u, y)
  BY <1>1, DmodeStage DEF Same
<1> HIDE DEF U2
<1>3. \A y \in U3 : Placed(y, F, {}) /\ Same(u, y)
  BY <1>2, VmodeStage DEF Same
<1> HIDE DEF U3
<1>4. \A y \in U4 : Placed(y, F, {"clip"}) /\ Same(u, y)
  BY <1>3, CamStage DEF Same
<1> HIDE DEF U4
<1>5. \A y \in U5 : Placed(y, F, {"clip", "ground"}) /\ Same(u, y)
  BY <1>4, GroundStage DEF Same
<1> HIDE DEF U5
<1>6. \A y \in U6 : Placed(y, F, {"clip", "ground", "dimp"}) /\ Same(u, y)
  BY <1>5, DimStage DEF Same
<1> HIDE DEF U6
<1>7. \A y \in U7 : Sized(y, F) /\ Same(u, y)
  BY <1>6, WirepStage DEF Same
<1> HIDE DEF U7
<1>8. \A y \in U8 : Drawn(y, F) /\ Same(u, y)
  BY <1>7, ClusterStage DEF Same
<1> HIDE DEF U8
<1>9. \A y \in U9 : Drawn(y, F) /\ SelnodeStale(y, F) /\ Same(u, y)
  BY <1>8, SelnodeStage DEF Same
<1> HIDE DEF U9
<1> QED BY <1>0, <1>9, FocusStage DEF Eyed, Same

(* Nothing that is shown reads the lists of the second eye or the view.    *)
LEMMA LastMaking ==
    ASSUME NEW u \in World, NEW a \in {"ground2", "cluster2", "selnodes2", "view"}
    PROVE  LET x == make(u, {a}) IN
           /\ x \in World /\ Same(u, x) /\ x.rf = u.rf /\ x.wirep = u.wirep /\ x.far = u.far
           /\ a \notin x.stale
           /\ x.stale \ {"focus"} \subseteq u.stale
           /\ "focus" \in x.stale => "focus" \in u.stale \/ (u.vmode = "WIRED" /\ ~u.sel)
<1> DEFINE x == make(u, {a})
<1>1. /\ x \in World /\ Same(u, x) /\ x.rf = u.rf /\ x.wirep = u.wirep /\ x.far = u.far
      /\ x.stale = (u.stale \ {a}) \cup (Readers(u, u.stale \cap {a}) \ {a})
  <2>1. {a} \in SUBSET Made
    BY DEF Made, Lists
  <2> QED BY <2>1, Making
<1>2. Touches(u, u.stale \cap {a})
  BY TouchesLess
<1>3. Readers(u, u.stale \cap {a}) \subseteq {"focus"}
  BY <1>2 DEF Touches, Readers, Made, Lists
<1>4. "focus" \in Readers(u, u.stale \cap {a}) => u.vmode = "WIRED" /\ ~u.sel
  BY <1>2 DEF Touches
<1> HIDE DEF x
<1>5. a \notin x.stale
  BY <1>1
<1>6. x.stale \ {"focus"} \subseteq u.stale
  BY <1>1, <1>3
<1>7. "focus" \in x.stale => "focus" \in u.stale \/ (u.vmode = "WIRED" /\ ~u.sel)
  BY <1>1, <1>4
<1> QED BY <1>1, <1>5, <1>6, <1>7 DEF x

(* What the second eye leaves of v: it makes its own lists, moves nothing  *)
(* and asks for nothing.                                                   *)
Second(v, x, F) ==
    /\ x \in World /\ Same(v, x) /\ x.rf = v.rf /\ x.wirep = v.wirep /\ x.far = v.far
    /\ x.stale \ {"focus"} \subseteq v.stale
    /\ "focus" \in x.stale => "focus" \in v.stale \/ (v.vmode = "WIRED" /\ ~v.sel)
    /\ RF_GROUND \in F => "ground2" \notin x.stale
    /\ RF_CLUSTER \in F => "cluster2" \notin x.stale
    /\ RF_SELNODE \in F => "selnodes2" \notin x.stale

LEMMA RightEye ==
    ASSUME NEW u \in World, ~(u.vmode = "WIRED" /\ u.wirep), NEW F,
           NEW x \in rebuild({u}, F \cap RF_STEREO, "right")
    PROVE  Second(u, x, F)
<1> DEFINE G == F \cap RF_STEREO
           y == IF RF_GROUND \in F THEN make(u, {"ground2"}) ELSE u
           z == IF RF_CLUSTER \in F THEN make(y, {"cluster2"}) ELSE y
           v == IF RF_SELNODE \in F THEN make(z, {"selnodes2"}) ELSE z
<1> USE DEF RF_DATASRC, RF_DMODE, RF_VMODE, RF_CAM, RF_GROUND, RF_DIM, RF_CLUSTER,
            RF_SELNODE, RF_FOCUS, RF_WIREP
<1>1. /\ RF_DATASRC \notin G /\ RF_DMODE \notin G /\ RF_VMODE \notin G /\ RF_CAM \notin G
      /\ RF_DIM \notin G /\ RF_WIREP \notin G /\ RF_FOCUS \notin G
      /\ RF_GROUND \in G <=> RF_GROUND \in F
      /\ RF_CLUSTER \in G <=> RF_CLUSTER \in F
      /\ RF_SELNODE \in G <=> RF_SELNODE \in F
  BY DEF RF_STEREO
<1>2. /\ y \in World /\ Same(u, y) /\ y.rf = u.rf /\ y.wirep = u.wirep /\ y.far = u.far
      /\ y.stale \ {"focus"} \subseteq u.stale
      /\ "focus" \in y.stale => "focus" \in u.stale \/ (u.vmode = "WIRED" /\ ~u.sel)
      /\ RF_GROUND \in F => "ground2" \notin y.stale
  BY LastMaking DEF Same
<1>3. /\ z \in World /\ Same(y, z) /\ z.rf = y.rf /\ z.wirep = y.wirep /\ z.far = y.far
      /\ z.stale \ {"focus"} \subseteq y.stale
      /\ "focus" \in z.stale => "focus" \in y.stale \/ (y.vmode = "WIRED" /\ ~y.sel)
      /\ RF_CLUSTER \in F => "cluster2" \notin z.stale
  <2> HIDE DEF y
  <2> QED BY <1>2, LastMaking DEF Same
<1>4. /\ v \in World /\ Same(z, v) /\ v.rf = z.rf /\ v.wirep = z.wirep /\ v.far = z.far
      /\ v.stale \ {"focus"} \subseteq z.stale
      /\ "focus" \in v.stale => "focus" \in z.stale \/ (z.vmode = "WIRED" /\ ~z.sel)
      /\ RF_SELNODE \in F => "selnodes2" \notin v.stale
  <2> HIDE DEF z
  <2> QED BY <1>3, LastMaking DEF Same
<1>5. x = v
  <2>1. if_cam(if_vmode(if_dmode(if_data({u}, G), G), G), G) = {u}
    BY <1>1, Zenon DEF if_cam, if_vmode, if_dmode, if_data
  <2>2. if_ground({u}, G, "right") = {y}
    BY <1>1 DEF if_ground, make_ground
  <2> HIDE DEF y
  <2>3. if_dim({y}, G) = {y}
    BY <1>1, Zenon DEF if_dim
  <2>4. if_wirep({y}, G) = {y}
    <3>1. [y EXCEPT !.wirep = y.wirep \/ RF_WIREP \in G] = y
      <4>1. (y.wirep \/ RF_WIREP \in G) = y.wirep
        BY <1>1, <1>2 DEF World
      <4>2. [y EXCEPT !.wirep = y.wirep] = y
        BY <1>2 DEF World
      <4> QED BY <4>1, <4>2, Zenon
    <3>2. wirep_update(y) = y
      BY <1>2, Zenon DEF wirep_update, Same
    <3> QED BY <3>1, <3>2, Zenon DEF if_wirep
  <2>5. if_cluster({y}, G, "right") = {z}
    BY <1>1 DEF if_cluster, make_cluster
  <2> HIDE DEF z
  <2>6. if_selnode({z}, G, "right") = {v}
    BY <1>1 DEF if_selnode, make_selnodes
  <2> HIDE DEF v
  <2>7. if_focus({v}, G) = {v}
    BY <1>1, Zenon DEF if_focus
  <2>8. x \in rebuild({u}, G, "right")
    OBVIOUS
  <2> HIDE DEF G
  <2> QED BY <2>1, <2>2, <2>3, <2>4, <2>5, <2>6, <2>7, <2>8 DEF rebuild
<1> HIDE DEF v, z, y
<1> QED BY <1>2, <1>3, <1>4, <1>5 DEF Second, Same

(* What a frame leaves: only what glides is stale, and is asked for.       *)
Painted(u, F) ==
    /\ u \in World
    /\ u.rf = {} \/ (u.rf = Moving /\ Animated(u))
    /\ {"fillp", "clip", "ground", "dimp", "view"} \cap u.stale = {}
    /\ IF Animated(u) THEN "vtwe" \notin u.stale ELSE "v" \notin u.stale
    /\ "v" \in u.stale => u.far > 0 /\ ("STOP" \in u.opts \/ u.rf = Moving)
    /\ Repeated(u)
    /\ u.stereo => "ground2" \notin u.stale
    /\ u.vmode # "WIRED" =>
          /\ "cluster" \notin u.stale
          /\ u.stereo => "cluster2" \notin u.stale
          /\ "selnodes" \in u.stale => RF_SELNODE \notin F /\ u.rf = Moving
          /\ "selnodes2" \in u.stale /\ u.stereo => RF_SELNODE \notin F /\ u.rf = Moving
    /\ "focus" \in u.stale /\ (u.vmode # "WIRED" \/ u.sel) => RF_FOCUS \notin F /\ u.rf = Moving

LEMMA OneEye ==
    ASSUME NEW u, NEW x \in gl_displayh_default(u), u.stereo = FALSE,
           Begun([u EXCEPT !.rf = {}], rf_deps(u.rf))
    PROVE  Painted(x, rf_deps(u.rf)) /\ Same([u EXCEPT !.rf = {}], x)
<1> DEFINE F == rf_deps(u.rf)
           y == [u EXCEPT !.rf = {}]
<1>1. Closed(F) /\ Begun(y, F)
  BY DepsClosed
<1>2. x \in LET U == rebuild({y}, F, "left")
            IN  IF RF_CAM \in F THEN {make(v, {"view"}) : v \in U} ELSE U
  BY DEF gl_displayh_default
<1>0. y.stereo = FALSE
  OBVIOUS
<1> HIDE DEF F, y
<1>3. CASE RF_CAM \in F
  <2>1. PICK v \in rebuild({y}, F, "left") : x = make(v, {"view"})
    BY <1>2, <1>3
  <2>2. Eyed(v, F) /\ Same(y, v)
    BY <1>1, LeftEye
  <2>3. /\ x \in World /\ Same(v, x) /\ x.rf = v.rf /\ x.wirep = v.wirep /\ x.far = v.far
        /\ "view" \notin x.stale
        /\ x.stale \ {"focus"} \subseteq v.stale
        /\ "focus" \in x.stale => "focus" \in v.stale \/ (v.vmode = "WIRED" /\ ~v.sel)
    BY <2>1, <2>2, LastMaking DEF Eyed, Drawn
  <2>4. Painted(x, F)
    BY <1>0, <2>2, <2>3
    DEF Eyed, Drawn, SelnodeStale, FocusStale, Painted, Repeated, Same, Animated
  <2> QED BY <2>2, <2>3, <2>4 DEF Same, F, y
<1>4. CASE RF_CAM \notin F
  <2>1. Eyed(x, F) /\ Same(y, x)
    BY <1>1, <1>2, <1>4, LeftEye
  <2>2. Painted(x, F)
    BY <1>0, <1>4, <2>1 DEF Eyed, Drawn, SelnodeStale, FocusStale, Painted, Same
  <2> QED BY <2>1, <2>2 DEF F, y
<1> QED BY <1>3, <1>4

LEMMA TwoEyes ==
    ASSUME NEW u, NEW x \in gl_displayh_stereo(u), u.stereo = TRUE,
           Begun([u EXCEPT !.rf = {}], rf_deps(u.rf))
    PROVE  Painted(x, rf_deps(u.rf)) /\ Same([u EXCEPT !.rf = {}], x)
<1> DEFINE F == rf_deps(u.rf)
           y == [u EXCEPT !.rf = {}]
           paused(v) == [v EXCEPT !.opts = @ \cup {"STOP"}, !.rf = {}]
<1>1. Closed(F) /\ Begun(y, F)
  BY DepsClosed
<1>2. \E v \in rebuild({y}, F, "left") :
         \E r \in rebuild({paused(v)}, F \cap RF_STEREO, "right") :
            x = make([r EXCEPT !.opts = v.opts, !.rf = v.rf], {"view"})
  BY DEF gl_displayh_stereo
<1>0. y.stereo = TRUE
  OBVIOUS
<1> HIDE DEF F, y, paused
<1>3. PICK v \in rebuild({y}, F, "left") :
         \E r \in rebuild({paused(v)}, F \cap RF_STEREO, "right") :
            x = make([r EXCEPT !.opts = v.opts, !.rf = v.rf], {"view"})
  BY <1>2
<1>4. PICK r \in rebuild({paused(v)}, F \cap RF_STEREO, "right") :
         x = make([r EXCEPT !.opts = v.opts, !.rf = v.rf], {"view"})
  BY <1>3
<1>5. Eyed(v, F) /\ Same(y, v) /\ v \in World
  BY <1>1, LeftEye DEF Eyed, Drawn
<1> DEFINE p == paused(v)
           q == [r EXCEPT !.opts = v.opts, !.rf = v.rf]
<1>6. /\ p \in World /\ p.vmode = v.vmode /\ p.dmode = v.dmode /\ p.stereo = v.stereo
      /\ p.sel = v.sel /\ p.rte = v.rte /\ p.wirep = v.wirep /\ p.far = v.far
      /\ p.stale = v.stale
  BY <1>5 DEF paused, World
<1> HIDE DEF p
<1>7. Second(p, r, F)
  <2>1. ~(p.vmode = "WIRED" /\ p.wirep)
    BY <1>5, <1>6 DEF Eyed, Drawn, Repeated
  <2>2. r \in rebuild({p}, F \cap RF_STEREO, "right")
    BY DEF p
  <2> QED BY <1>6, <2>1, <2>2, RightEye
<1>8. /\ q \in World /\ Same(v, q) /\ q.rf = v.rf /\ q.wirep = v.wirep /\ q.far = v.far
      /\ q.stale = r.stale
  BY <1>5, <1>6, <1>7 DEF Second, World, Same
<1> HIDE DEF q
<1>9. /\ x \in World /\ Same(q, x) /\ x.rf = q.rf /\ x.wirep = q.wirep /\ x.far = q.far
      /\ "view" \notin x.stale
      /\ x.stale \ {"focus"} \subseteq q.stale
      /\ "focus" \in x.stale => "focus" \in q.stale \/ (q.vmode = "WIRED" /\ ~q.sel)
  BY <1>4, <1>8, LastMaking DEF q
<1>10. /\ x \in World /\ Same(v, x) /\ x.rf = v.rf /\ x.wirep = v.wirep /\ x.far = v.far
  BY <1>8, <1>9 DEF Same
<1>11. /\ "view" \notin x.stale
       /\ x.stale \ {"focus"} \subseteq v.stale
       /\ "focus" \in x.stale => "focus" \in v.stale \/ (v.vmode = "WIRED" /\ ~v.sel)
       /\ RF_GROUND \in F => "ground2" \notin x.stale
       /\ RF_CLUSTER \in F => "cluster2" \notin x.stale
       /\ RF_SELNODE \in F => "selnodes2" \notin x.stale
  BY <1>6, <1>7, <1>8, <1>9 DEF Second, Same
<1>12. Painted(x, F)
  BY <1>5, <1>10, <1>11
  DEF Eyed, Drawn, SelnodeStale, FocusStale, Painted, Repeated, Same, Animated
<1> QED BY <1>5, <1>10, <1>12 DEF Same, F, y

Eyes(u) == IF u.stereo THEN gl_displayh_stereo(u) ELSE gl_displayh_default(u)

LEMMA FramePaints ==
    ASSUME NEW u \in World, NEW x \in Eyes(u), Begun([u EXCEPT !.rf = {}], rf_deps(u.rf))
    PROVE  Painted(x, rf_deps(u.rf)) /\ Same(u, x)
<1>1. Same(u, [u EXCEPT !.rf = {}])
  BY DEF World, Same
<1>2. CASE u.stereo
  <2>1. u.stereo = TRUE /\ x \in gl_displayh_stereo(u)
    BY <1>2 DEF World, Eyes
  <2> QED BY <1>1, <2>1, TwoEyes DEF Same
<1>3. CASE ~u.stereo
  <2>1. u.stereo = FALSE /\ x \in gl_displayh_default(u)
    BY <1>3 DEF World, Eyes
  <2> QED BY <1>1, <2>1, OneEye DEF Same
<1> QED BY <1>2, <1>3

-----------------------------------------------------------------------------
Good(u) == u \in World /\ Due(u, rf_deps(u.rf)) /\ Glide(u, rf_deps(u.rf))

LEMMA DepsOther == ASSUME NEW F, NEW b, b \notin RF_INIT PROVE b \in rf_deps(F) <=> b \in F
  BY DEF rf_deps, add, RF_INIT, RF_DATASRC, RF_DMODE, RF_VMODE, RF_CAM, RF_GROUND, RF_DIM,
         RF_CLUSTER, RF_SELNODE, RF_FOCUS, RF_WIREP

LEMMA DepsUnion == ASSUME NEW F, NEW G PROVE rf_deps(F \cup G) = rf_deps(F) \cup rf_deps(G)
<1>1. ASSUME NEW b PROVE b \in rf_deps(F \cup G) <=> b \in rf_deps(F) \/ b \in rf_deps(G)
  <2>1. CASE b \notin RF_INIT
    BY <2>1, DepsOther
  <2>2. CASE b \in RF_INIT
    BY <2>2, Deps DEF Brought, RF_INIT
  <2> QED BY <2>1, <2>2
<1> QED BY <1>1

(* wired_update() only adds to the flags.                                  *)
LEMMA Leaving ==
    ASSUME NEW u \in World
    PROVE  LET v == wired_update(u)
               y == [v EXCEPT !.rf = {}] IN
           /\ v \in World /\ Same(u, v)
           /\ y \in World /\ Same(u, y) /\ y.rf = {} /\ y.wirep = u.wirep /\ y.far = u.far
           /\ y.stale = u.stale
           /\ rf_deps(u.rf) \subseteq rf_deps(v.rf)
           /\ u.vmode = "WIRED" /\ "reach" \in u.stale => RF_WIREP \in rf_deps(v.rf)
<1> DEFINE v == wired_update(u)
           y == [v EXCEPT !.rf = {}]
<1>1. /\ v \in World /\ Same(u, v) /\ v.wirep = u.wirep /\ v.far = u.far /\ v.stale = u.stale
      /\ v.rf = u.rf \/ v.rf = u.rf \cup {RF_WIREP}
      /\ u.vmode = "WIRED" /\ "reach" \in u.stale => RF_WIREP \in v.rf
  <2>1. CASE v = u
    BY <2>1 DEF wired_update, Same
  <2>2. CASE u.vmode = "WIRED" /\ "reach" \in u.stale
    <3> DEFINE r == u.rf \cup {RF_WIREP}
    <3>1. r \in SUBSET RF_INIT /\ v = [u EXCEPT !.rf = r]
      BY <2>2 DEF wired_update, World, RF_INIT, RF_WIREP, RF_FOCUS
    <3>2. RF_WIREP \in r
      OBVIOUS
    <3> HIDE DEF v
    <3>3. v.rf = r
      BY <3>1 DEF World
    <3> HIDE DEF r
    <3>4. v \in World /\ Same(u, v) /\ v.wirep = u.wirep /\ v.far = u.far /\ v.stale = u.stale
      BY <3>1 DEF World, Same
    <3> QED BY <3>2, <3>3, <3>4 DEF r
  <2> QED BY <2>1, <2>2 DEF wired_update
<1> HIDE DEF v
<1>2. /\ y \in World /\ Same(v, y) /\ y.rf = {} /\ y.wirep = v.wirep /\ y.far = v.far
      /\ y.stale = v.stale
  BY <1>1 DEF World, Same
<1> HIDE DEF y
<1>3. rf_deps(u.rf) \subseteq rf_deps(v.rf)
  BY <1>1, DepsUnion
<1>4. RF_WIREP \in v.rf => RF_WIREP \in rf_deps(v.rf)
  BY Deps DEF Brought, RF_WIREP, RF_FOCUS
<1> QED BY <1>1, <1>2, <1>3, <1>4 DEF v, y, Same

LEMMA FrameGood ==
    ASSUME NEW u, Good(u), NEW x \in Eyes(wired_update(u))
    PROVE  \E F : Painted(x, F) /\ Same(u, x)
<1> DEFINE v == wired_update(u)
           y == [v EXCEPT !.rf = {}]
           F == rf_deps(v.rf)
<1>1. u \in World
  BY DEF Good
<1>2. /\ v \in World /\ Same(u, v)
      /\ y \in World /\ Same(u, y) /\ y.rf = {} /\ y.wirep = u.wirep /\ y.far = u.far
      /\ y.stale = u.stale
      /\ rf_deps(u.rf) \subseteq rf_deps(v.rf)
      /\ u.vmode = "WIRED" /\ "reach" \in u.stale => RF_WIREP \in rf_deps(v.rf)
  BY <1>1, Leaving
<1> HIDE DEF v
<1>3. Begun(y, F)
  <2> HIDE DEF y
  <2> QED BY <1>2 DEF Good, Begun, Due, Glide, Same, Animated
<1>4. Painted(x, F) /\ Same(v, x)
  BY <1>2, <1>3, FramePaints DEF v
<1> QED BY <1>2, <1>4 DEF Same

LEMMA FrameFetch ==
    ASSUME NEW u \in World, RF_DATASRC \in u.rf, NEW x \in Eyes(wired_update(u))
    PROVE  \E F : Painted(x, F) /\ RF_SELNODE \in F /\ RF_FOCUS \in F
<1> DEFINE v == wired_update(u)
           y == [v EXCEPT !.rf = {}]
           F == rf_deps(v.rf)
<1>2. /\ v \in World /\ Same(u, v)
      /\ y \in World /\ Same(u, y) /\ y.rf = {} /\ y.wirep = u.wirep /\ y.far = u.far
      /\ y.stale = u.stale
      /\ rf_deps(u.rf) \subseteq rf_deps(v.rf)
  BY Leaving
<1> HIDE DEF v
<1>3. /\ RF_DATASRC \in F /\ RF_DMODE \in F /\ RF_VMODE \in F /\ RF_CAM \in F /\ RF_GROUND \in F
      /\ RF_DIM \in F /\ RF_CLUSTER \in F /\ RF_SELNODE \in F /\ RF_FOCUS \in F
  <2>1. RF_DATASRC \in F
    BY <1>2, Deps DEF Brought
  <2> QED BY <2>1, DepsClosed DEF Closed
<1>4. Begun(y, F)
  <2> HIDE DEF y, F
  <2> QED BY <1>2, <1>3 DEF Begun, Due, RF_WIREP, RF_FOCUS
<1>5. Painted(x, F)
  BY <1>2, <1>4, FramePaints DEF v
<1> QED BY <1>3, <1>5

(* The shape of an operation.                                              *)
LEMMA Changing ==
    ASSUME NEW u \in World, NEW v \in World, NEW S, NEW F \in SUBSET RF_INIT,
           NEW x \in Change(u, v, S, F)
    PROVE  /\ x \in World /\ Same(v, x) /\ x.rf = v.rf \cup F /\ x.wirep = v.wirep
           /\ \/ /\ x.far = v.far
                 /\ x.stale = v.stale \cup Readers(u, S) \cup Readers(v, S)
              \/ /\ Animated(v) /\ S \cap {"hl", "data", "subset"} # {}
                 /\ x.far = Steps
                 /\ x.stale = v.stale \cup Readers(u, S) \cup Readers(v, S) \cup {"v"}
<1> DEFINE r == v.rf \cup F
           t == v.stale \cup Readers(u, S) \cup Readers(v, S)
           y == [v EXCEPT !.rf = r, !.stale = t]
           z == [y EXCEPT !.far = Steps, !.stale = @ \cup {"v"}]
<1>1. y = [v EXCEPT !.rf = @ \cup F, !.stale = @ \cup Readers(u, S) \cup Readers(v, S)]
  OBVIOUS
<1>2. x \in reveal(y, S)
  BY <1>1, Zenon DEF Change
<1>3. r \in SUBSET RF_INIT /\ t \in SUBSET Made
  BY DEF World, Readers
<1> HIDE DEF r, t
<1>4. y \in World /\ Same(v, y) /\ y.rf = r /\ y.stale = t /\ y.far = v.far /\ y.wirep = v.wirep
  BY <1>3 DEF World, Same
<1> HIDE DEF y
<1>5. /\ z \in World /\ Same(y, z) /\ z.rf = y.rf /\ z.stale = y.stale \cup {"v"}
      /\ z.far = Steps /\ z.wirep = y.wirep
  <2> DEFINE q == y.stale \cup {"v"}
  <2>1. Steps \in 0 .. Steps
    BY RebuildAssumption
  <2>2. q \in SUBSET Made
    BY <1>4 DEF World, Made
  <2>3. z = [y EXCEPT !.far = Steps, !.stale = q]
    OBVIOUS
  <2> HIDE DEF q, z
  <2>4. z \in World /\ Same(y, z) /\ z.rf = y.rf /\ z.stale = q /\ z.far = Steps /\ z.wirep = y.wirep
    BY <1>4, <2>1, <2>2, <2>3 DEF World, Same
  <2> QED BY <2>4 DEF q
<1> HIDE DEF z
<1>6. \/ x = y
      \/ x = z /\ Animated(y) /\ S \cap {"hl", "data", "subset"} # {}
  <2>1. CASE Animated(y) /\ S \cap {"hl", "data", "subset"} # {}
    <3>1. x \in {y, z}
      BY <1>2, <2>1, Zenon DEF reveal, z
    <3> QED BY <2>1, <3>1
  <2>2. CASE ~(Animated(y) /\ S \cap {"hl", "data", "subset"} # {})
    BY <1>2, <2>2, Zenon DEF reveal
  <2> QED BY <2>1, <2>2
<1> QED BY <1>4, <1>5, <1>6 DEF r, t, Same, Animated

(* What an operation that changes the sources S and turns u into v must    *)
(* ask for, D being its flags with what they bring.                        *)
Covered(u, v, S, D) ==
    /\ S \subseteq {"vmode", "dmode", "wi", "rt", "pipes", "hl", "sel", "subset", "look", "skel",
                    "vnmode", "cam"}
    /\ v.stereo = u.stereo /\ v.rf = u.rf /\ v.wirep = u.wirep /\ v.far = u.far
    /\ v.stale = u.stale
    /\ "NODEANIM" \in v.opts <=> "NODEANIM" \in u.opts
    /\ "STOP" \in v.opts <=> "STOP" \in u.opts
    /\ v.vmode # u.vmode => "vmode" \in S
    /\ v.sel # u.sel => "sel" \in S
    /\ "vmode" \in S \/ "wi" \in S => RF_VMODE \in D
    /\ {"vnmode", "hl", "sel", "dmode", "rt"} \cap S # {} /\ v.vmode = "VNEIGHBOR" => RF_VMODE \in D
    /\ "dmode" \in S \/ "rt" \in S => RF_DMODE \in D /\ RF_SELNODE \in D
    /\ "sel" \in S => RF_SELNODE \in D
    /\ {"pipes", "hl", "subset", "look"} \cap S # {} => RF_CLUSTER \in D /\ RF_SELNODE \in D
    /\ "skel" \in S => RF_CLUSTER \in D
    /\ "cam" \in S => RF_CAM \in D

(* What is asked for is not forgotten.                                     *)
Promise(u, x) == Owed(u) \cap Shown(x) \subseteq Owed(x)

LEMMA Promising ==
    ASSUME NEW u \in World, NEW x, Good(x),
           rf_deps(u.rf) \subseteq rf_deps(x.rf), u.stale \subseteq x.stale, x.wirep = u.wirep,
           Animated(u) /\ ~Animated(x) => RF_VMODE \in rf_deps(x.rf)
    PROVE  Promise(u, x)
<1>1. Closed(rf_deps(x.rf))
  BY DepsClosed
<1>2. "vtwe" \in x.stale /\ Animated(x) => RF_VMODE \in rf_deps(x.rf)
  BY DEF Good, Due
<1>3. ASSUME NEW a, a \in Owed(u), a \in Shown(x) PROVE a \in Owed(x)
  <2>1. CASE a = "v"
    <3>1. \/ RF_VMODE \in rf_deps(u.rf) /\ (~Animated(u) \/ "vtwe" \in u.stale)
          \/ RF_CLUSTER \in rf_deps(u.rf) /\ ~(~Animated(u) \/ "vtwe" \in u.stale)
      BY <1>3, <2>1 DEF Owed
    <3> QED BY <1>1, <1>2, <1>3, <2>1, <3>1 DEF Owed, Closed
  <2>2. CASE a \in {"wirep", "reach"}
    BY <1>3, <2>2 DEF Owed
  <2>3. CASE a \notin {"v", "wirep", "reach"}
    BY <1>3, <2>3 DEF Owed
  <2> QED BY <2>1, <2>2, <2>3
<1> QED BY <1>3 DEF Promise

LEMMA Covering ==
    ASSUME NEW u, Good(u), NEW v \in World, NEW S, NEW F \in SUBSET RF_INIT,
           Covered(u, v, S, rf_deps(F)), NEW x \in Change(u, v, S, F)
    PROVE  Good(x) /\ Promise(u, x)
<1> DEFINE O == rf_deps(u.rf)
           D == rf_deps(x.rf)
           X == Readers(u, S) \cup Readers(v, S)
<1>1. u \in World /\ Due(u, O) /\ Glide(u, O)
  BY DEF Good
<1>2. /\ x \in World /\ Same(v, x) /\ x.rf = u.rf \cup F /\ x.wirep = u.wirep
      /\ \/ x.far = u.far /\ x.stale = u.stale \cup X
         \/ /\ Animated(v) /\ S \cap {"hl", "data", "subset"} # {}
            /\ x.far = Steps
            /\ x.stale = u.stale \cup X \cup {"v"}
  BY <1>1, Changing DEF Covered
<1>3. D = O \cup rf_deps(F) /\ Closed(D) /\ Closed(rf_deps(F))
  BY <1>2, DepsUnion, DepsClosed
<1>4. Touches(u, S) /\ Touches(v, S)
  BY <1>1, TouchesLess
<1>5. /\ "NODEANIM" \in v.opts <=> "NODEANIM" \in u.opts
      /\ "STOP" \in v.opts <=> "STOP" \in u.opts
      /\ v.stereo = u.stereo
      /\ v.vmode = u.vmode \/ RF_VMODE \in rf_deps(F)
      /\ v.sel = u.sel \/ RF_SELNODE \in rf_deps(F)
  BY DEF Covered
<1>a. S \cap {"data", "geom", "v", "dimp", "fillp", "clip", "hl", "subset"} \subseteq {"hl", "subset"}
  BY DEF Covered
<1> HIDE DEF O, D, X
<1>6. /\ "fillp" \in x.stale => "fillp" \in u.stale \/ "dmode" \in S \/ "rt" \in S
      /\ "v" \in x.stale /\ ~Animated(x) => "v" \in u.stale \/ RF_VMODE \in rf_deps(F)
      /\ "vtwe" \in x.stale => "vtwe" \in u.stale \/ RF_VMODE \in rf_deps(F)
      /\ "dimp" \in x.stale => "dimp" \in u.stale \/ RF_VMODE \in rf_deps(F)
      /\ "clip" \in x.stale => "clip" \in u.stale \/ RF_VMODE \in rf_deps(F)
      /\ "view" \in x.stale => "view" \in u.stale \/ RF_CAM \in rf_deps(F)
      /\ "wirep" \in x.stale => "wirep" \in u.stale \/ RF_VMODE \in rf_deps(F)
  <2>1. \A a \in {"fillp", "vtwe", "dimp", "clip", "view", "wirep"} : a \in x.stale =>
           a \in u.stale \/ a \in Readers(u, S) \/ a \in Readers(v, S)
    BY <1>2 DEF X
  <2>2. "v" \in x.stale /\ ~Animated(x) =>
           "v" \in u.stale \/ "v" \in Readers(u, S) \/ "v" \in Readers(v, S)
    BY <1>2 DEF X, Same, Animated
  <2>3. /\ "fillp" \in Readers(u, S) \/ "fillp" \in Readers(v, S) => "dmode" \in S \/ "rt" \in S
        /\ "dimp" \in Readers(u, S) \/ "dimp" \in Readers(v, S) => RF_VMODE \in rf_deps(F)
        /\ "clip" \in Readers(u, S) \/ "clip" \in Readers(v, S) => RF_VMODE \in rf_deps(F)
        /\ "view" \in Readers(u, S) \/ "view" \in Readers(v, S) => RF_CAM \in rf_deps(F)
        /\ "wirep" \in Readers(u, S) \/ "wirep" \in Readers(v, S) => RF_VMODE \in rf_deps(F)
    BY <1>4, <1>a DEF Covered, Touches
  <2>4. "v" \in Readers(u, S) \/ "v" \in Readers(v, S) => RF_VMODE \in rf_deps(F)
    BY <1>4, <1>a DEF Covered, Touches
  <2>5. "vtwe" \in Readers(u, S) \/ "vtwe" \in Readers(v, S) => RF_VMODE \in rf_deps(F)
    BY <1>4, <2>4 DEF Touches
  <2> QED BY <2>1, <2>2, <2>3, <2>4, <2>5
<1>7. /\ \A a \in {"ground", "ground2"} :
            a \in x.stale => a \in u.stale \/ RF_VMODE \in rf_deps(F)
      /\ \A a \in {"cluster", "cluster2"} :
            a \in x.stale => a \in u.stale \/ RF_CLUSTER \in rf_deps(F)
      /\ \A a \in {"selnodes", "selnodes2"} :
            a \in x.stale => a \in u.stale \/ RF_SELNODE \in rf_deps(F)
      /\ "focus" \in x.stale /\ (x.vmode # "WIRED" \/ x.sel) =>
            "focus" \in u.stale \/ RF_FOCUS \in rf_deps(F)
  <2>1. \A a \in Lists \cup {"focus"} : a \in x.stale =>
           a \in u.stale \/ a \in Readers(u, S) \/ a \in Readers(v, S)
    BY <1>2 DEF X, Lists
  <2>2. \A a \in {"ground", "ground2"} :
           a \in Readers(u, S) \/ a \in Readers(v, S) => RF_VMODE \in rf_deps(F)
    BY <1>4 DEF Covered, Touches
  <2>3. \A a \in {"cluster", "cluster2"} :
           a \in Readers(u, S) \/ a \in Readers(v, S) => RF_CLUSTER \in rf_deps(F)
    BY <1>3, <1>4, <1>a DEF Covered, Touches, Closed
  <2>4. \A a \in {"selnodes", "selnodes2"} :
           a \in Readers(u, S) \/ a \in Readers(v, S) => RF_SELNODE \in rf_deps(F)
    BY <1>3, <1>4, <1>a DEF Covered, Touches, Closed
  <2>5. ("focus" \in Readers(u, S) \/ "focus" \in Readers(v, S)) /\ (x.vmode # "WIRED" \/ x.sel)
           => RF_FOCUS \in rf_deps(F)
    BY <1>2, <1>3, <1>4, <1>5, <1>a DEF Covered, Touches, Closed, Same
  <2> QED BY <2>1, <2>2, <2>3, <2>4, <2>5 DEF Lists
<1>8. Due(x, D)
  <2>1. /\ RF_VMODE \in rf_deps(F) =>
              {RF_VMODE, RF_CAM, RF_GROUND, RF_DIM, RF_CLUSTER, RF_SELNODE, RF_FOCUS, RF_WIREP}
                  \subseteq D
        /\ RF_SELNODE \in rf_deps(F) => RF_SELNODE \in D /\ RF_FOCUS \in D
        /\ "dmode" \in S \/ "rt" \in S => RF_DMODE \in D /\ RF_SELNODE \in D /\ RF_CLUSTER \in D
        /\ ("dmode" \in S \/ "rt" \in S) /\ x.vmode = "VNEIGHBOR" => RF_VMODE \in D
    BY <1>2, <1>3 DEF Covered, Closed, RF_WIREP, RF_FOCUS, Same
  <2>2. CASE RF_VMODE \in rf_deps(F)
    BY <1>1, <1>3, <1>6, <2>1, <2>2 DEF Due
  <2>3. CASE RF_VMODE \notin rf_deps(F)
    <3>1. x.vmode = u.vmode /\ x.stereo = u.stereo /\ (Animated(x) <=> Animated(u))
      BY <1>2, <1>5, <2>3 DEF Same, Animated
    <3>2. x.sel = u.sel \/ (RF_SELNODE \in D /\ RF_FOCUS \in D)
      BY <1>2, <1>5, <2>1 DEF Same
    <3>3. /\ \A b : b \in O => b \in D
          /\ \A b : b \in rf_deps(F) => b \in D
      BY <1>3
    <3> QED BY <1>1, <1>2, <1>6, <1>7, <2>1, <2>3, <3>1, <3>2, <3>3 DEF Due
  <2> QED BY <2>2, <2>3
<1>9. Glide(x, D)
  <2>1. SUFFICES ASSUME Animated(x), "v" \in x.stale, "vtwe" \notin x.stale
                 PROVE  x.far > 0 /\ ("STOP" \in x.opts \/ RF_CLUSTER \in D)
    BY DEF Glide
  <2>2. CASE S \cap {"hl", "data", "subset"} # {} /\ x.far = Steps
    <3>1. RF_CLUSTER \in D
      BY <1>3, <2>2 DEF Covered
    <3> QED BY <2>2, <3>1, RebuildAssumption
  <2>3. CASE x.far = u.far /\ x.stale = u.stale \cup X
    <3>1. "v" \notin Readers(u, S) /\ "v" \notin Readers(v, S) /\ "vtwe" \notin u.stale
      BY <1>4, <2>1, <2>3 DEF Touches, X
    <3>2. "v" \in u.stale
      BY <2>1, <2>3, <3>1 DEF X
    <3>3. CASE Animated(u)
      BY <1>1, <1>2, <1>3, <1>5, <2>3, <3>1, <3>2, <3>3 DEF Glide, Same
    <3>4. CASE ~Animated(u)
      <4>1. v.vmode # u.vmode
        BY <1>2, <1>5, <2>1, <3>4 DEF Animated, Same
      <4>2. "vmode" \in S
        BY <4>1 DEF Covered
      <4>3. "vtwe" \in Readers(u, S)
        BY <1>1, <4>2 DEF Readers, Reads, vmode_change_reads, Made
      <4> QED BY <2>1, <2>3, <4>3 DEF X
    <3> QED BY <3>3, <3>4
  <2> QED BY <1>2, <2>2, <2>3
<1>10. Good(x)
  BY <1>2, <1>8, <1>9 DEF Good, D
<1>11. Promise(u, x)
  <2>1. Animated(u) /\ ~Animated(x) => RF_VMODE \in D
    BY <1>2, <1>3, <1>5 DEF Same, Animated
  <2>2. O \subseteq D /\ u.stale \subseteq x.stale
    BY <1>2, <1>3
  <2> QED BY <1>1, <1>2, <1>10, <2>1, <2>2, Promising DEF O, D
<1> QED BY <1>10, <1>11

-----------------------------------------------------------------------------
(* The operations that ask for all they change.                            *)
Asking == {"gotojob", "set_vmode", "vnmode", "wi", "pipes", "hl", "sel", "subset", "look",
           "show_pipes", "skel", "stop", "cam", "update", "flyby_init", "egg"}

(* For each of them: what it changes is covered by the flags it sets.      *)
LEMMA Keeps_uinpcb_gotojob == ASSUME Good(w), uinpcb_gotojob PROVE Good(w') /\ Promise(w, w')
<1> DEFINE F == {RF_CLUSTER, RF_SELNODE, RF_DMODE} \cup vn(w)
<1>1. w' \in Change(w, [w EXCEPT !.dmode = "other"], {"hl", "dmode"}, F)
  BY DEF uinpcb_gotojob
<1> DEFINE v == [w EXCEPT !.dmode = "other"]
<1>2. w \in World /\ F \in SUBSET RF_INIT
  BY DEF Good, RF_INIT, vn
<1>3. v \in World
  BY <1>2 DEF World, DMode
<1>4. Covered(w, v, {"hl", "dmode"}, rf_deps(F))
  <2>1. Closed(rf_deps(F)) /\ Brought(F, rf_deps(F))
    BY Deps, DepsClosed
  <2> QED BY <1>2, <2>1 DEF Covered, Closed, Brought, World, vn, DMode,
          RF_DATASRC, RF_DMODE, RF_VMODE, RF_CAM, RF_GROUND, RF_DIM, RF_CLUSTER, RF_SELNODE, RF_FOCUS
<1> HIDE DEF v, F
<1> QED BY <1>1, <1>2, <1>3, <1>4, Covering DEF v

LEMMA Keeps_gl_keyh_vmode == ASSUME Good(w), gl_keyh_vmode PROVE Good(w') /\ Promise(w, w')
<1> DEFINE F == {RF_VMODE}
<1>1. PICK m \in VMode : w' \in Change(w, [w EXCEPT !.vmode = m], {"vmode"}, F)
  BY DEF gl_keyh_vmode
<1> DEFINE v == [w EXCEPT !.vmode = m]
<1>2. w \in World /\ F \in SUBSET RF_INIT
  BY DEF Good, RF_INIT, vn
<1>3. v \in World
  BY <1>2 DEF World
<1>4. Covered(w, v, {"vmode"}, rf_deps(F))
  <2>1. Closed(rf_deps(F)) /\ Brought(F, rf_deps(F))
    BY Deps, DepsClosed
  <2> QED BY <1>2, <2>1 DEF Covered, Closed, Brought, World, vn,
          RF_DATASRC, RF_DMODE, RF_VMODE, RF_CAM, RF_GROUND, RF_DIM, RF_CLUSTER, RF_SELNODE, RF_FOCUS
<1> HIDE DEF v, F
<1> QED BY <1>1, <1>2, <1>3, <1>4, Covering DEF v

LEMMA Keeps_gscb_pw_vnmode == ASSUME Good(w), gscb_pw_vnmode PROVE Good(w') /\ Promise(w, w')
<1> DEFINE F == {RF_VMODE}
<1>1. w' \in Change(w, w, {"vnmode"}, F)
  BY DEF gscb_pw_vnmode
<1> DEFINE v == w
<1>2. w \in World /\ F \in SUBSET RF_INIT
  BY DEF Good, RF_INIT, vn
<1>3. v \in World
  BY <1>2 DEF World
<1>4. Covered(w, v, {"vnmode"}, rf_deps(F))
  <2>1. Closed(rf_deps(F)) /\ Brought(F, rf_deps(F))
    BY Deps, DepsClosed
  <2> QED BY <1>2, <2>1 DEF Covered, Closed, Brought, World, vn,
          RF_DATASRC, RF_DMODE, RF_VMODE, RF_CAM, RF_GROUND, RF_DIM, RF_CLUSTER, RF_SELNODE, RF_FOCUS
<1> HIDE DEF v, F
<1> QED BY <1>1, <1>2, <1>3, <1>4, Covering DEF v

LEMMA Keeps_gl_keyh_incr == ASSUME Good(w), gl_keyh_incr PROVE Good(w') /\ Promise(w, w')
<1> DEFINE F == {RF_CLUSTER, RF_GROUND, RF_CAM, RF_SELNODE, RF_VMODE}
<1>1. w' \in Change(w, w, {"wi"}, F)
  BY DEF gl_keyh_incr
<1> DEFINE v == w
<1>2. w \in World /\ F \in SUBSET RF_INIT
  BY DEF Good, RF_INIT, vn
<1>3. v \in World
  BY <1>2 DEF World
<1>4. Covered(w, v, {"wi"}, rf_deps(F))
  <2>1. Closed(rf_deps(F)) /\ Brought(F, rf_deps(F))
    BY Deps, DepsClosed
  <2> QED BY <1>2, <2>1 DEF Covered, Closed, Brought, World, vn,
          RF_DATASRC, RF_DMODE, RF_VMODE, RF_CAM, RF_GROUND, RF_DIM, RF_CLUSTER, RF_SELNODE, RF_FOCUS
<1> HIDE DEF v, F
<1> QED BY <1>1, <1>2, <1>3, <1>4, Covering DEF v

LEMMA Keeps_gl_spkeyh_wiadj == ASSUME Good(w), gl_spkeyh_wiadj PROVE Good(w') /\ Promise(w, w')
<1> DEFINE F == {RF_CLUSTER, RF_SELNODE, RF_GROUND, RF_VMODE}
<1>1. w' \in Change(w, w, {"wi"}, F)
  BY DEF gl_spkeyh_wiadj
<1> DEFINE v == w
<1>2. w \in World /\ F \in SUBSET RF_INIT
  BY DEF Good, RF_INIT, vn
<1>3. v \in World
  BY <1>2 DEF World
<1>4. Covered(w, v, {"wi"}, rf_deps(F))
  <2>1. Closed(rf_deps(F)) /\ Brought(F, rf_deps(F))
    BY Deps, DepsClosed
  <2> QED BY <1>2, <2>1 DEF Covered, Closed, Brought, World, vn,
          RF_DATASRC, RF_DMODE, RF_VMODE, RF_CAM, RF_GROUND, RF_DIM, RF_CLUSTER, RF_SELNODE, RF_FOCUS
<1> HIDE DEF v, F
<1> QED BY <1>1, <1>2, <1>3, <1>4, Covering DEF v

LEMMA Keeps_gl_keyh_pipes == ASSUME Good(w), gl_keyh_pipes PROVE Good(w') /\ Promise(w, w')
<1> DEFINE F == {RF_CLUSTER, RF_SELNODE}
<1>1. PICK r \in BOOLEAN : w' \in Change(w, [w EXCEPT !.rte = r], {"pipes"}, F)
  BY DEF gl_keyh_pipes
<1> DEFINE v == [w EXCEPT !.rte = r]
<1>2. w \in World /\ F \in SUBSET RF_INIT
  BY DEF Good, RF_INIT, vn
<1>3. v \in World
  BY <1>2 DEF World
<1>4. Covered(w, v, {"pipes"}, rf_deps(F))
  <2>1. Closed(rf_deps(F)) /\ Brought(F, rf_deps(F))
    BY Deps, DepsClosed
  <2> QED BY <1>2, <2>1 DEF Covered, Closed, Brought, World, vn,
          RF_DATASRC, RF_DMODE, RF_VMODE, RF_CAM, RF_GROUND, RF_DIM, RF_CLUSTER, RF_SELNODE, RF_FOCUS
<1> HIDE DEF v, F
<1> QED BY <1>1, <1>2, <1>3, <1>4, Covering DEF v

LEMMA Keeps_nc_apply == ASSUME Good(w), nc_apply PROVE Good(w') /\ Promise(w, w')
<1> DEFINE F == {RF_CLUSTER, RF_SELNODE} \cup vn(w)
<1>1. w' \in Change(w, w, {"hl"}, F)
  BY DEF nc_apply
<1> DEFINE v == w
<1>2. w \in World /\ F \in SUBSET RF_INIT
  BY DEF Good, RF_INIT, vn
<1>3. v \in World
  BY <1>2 DEF World
<1>4. Covered(w, v, {"hl"}, rf_deps(F))
  <2>1. Closed(rf_deps(F)) /\ Brought(F, rf_deps(F))
    BY Deps, DepsClosed
  <2> QED BY <1>2, <2>1 DEF Covered, Closed, Brought, World, vn,
          RF_DATASRC, RF_DMODE, RF_VMODE, RF_CAM, RF_GROUND, RF_DIM, RF_CLUSTER, RF_SELNODE, RF_FOCUS
<1> HIDE DEF v, F
<1> QED BY <1>1, <1>2, <1>3, <1>4, Covering DEF v

LEMMA Keeps_sn_insert == ASSUME Good(w), sn_insert PROVE Good(w') /\ Promise(w, w')
<1> DEFINE F == {RF_SELNODE} \cup vn(w)
<1>1. w' \in Change(w, [w EXCEPT !.sel = TRUE], {"sel"}, F)
  BY DEF sn_insert
<1> DEFINE v == [w EXCEPT !.sel = TRUE]
<1>2. w \in World /\ F \in SUBSET RF_INIT
  BY DEF Good, RF_INIT, vn
<1>3. v \in World
  BY <1>2 DEF World
<1>4. Covered(w, v, {"sel"}, rf_deps(F))
  <2>1. Closed(rf_deps(F)) /\ Brought(F, rf_deps(F))
    BY Deps, DepsClosed
  <2> QED BY <1>2, <2>1 DEF Covered, Closed, Brought, World, vn,
          RF_DATASRC, RF_DMODE, RF_VMODE, RF_CAM, RF_GROUND, RF_DIM, RF_CLUSTER, RF_SELNODE, RF_FOCUS
<1> HIDE DEF v, F
<1> QED BY <1>1, <1>2, <1>3, <1>4, Covering DEF v

LEMMA Keeps_sn_replace == ASSUME Good(w), sn_replace PROVE Good(w') /\ Promise(w, w')
<1> DEFINE F == {RF_SELNODE} \cup vn(w)
<1>1. w' \in Change(w, w, {"sel"}, F)
  BY DEF sn_replace
<1> DEFINE v == w
<1>2. w \in World /\ F \in SUBSET RF_INIT
  BY DEF Good, RF_INIT, vn
<1>3. v \in World
  BY <1>2 DEF World
<1>4. Covered(w, v, {"sel"}, rf_deps(F))
  <2>1. Closed(rf_deps(F)) /\ Brought(F, rf_deps(F))
    BY Deps, DepsClosed
  <2> QED BY <1>2, <2>1 DEF Covered, Closed, Brought, World, vn,
          RF_DATASRC, RF_DMODE, RF_VMODE, RF_CAM, RF_GROUND, RF_DIM, RF_CLUSTER, RF_SELNODE, RF_FOCUS
<1> HIDE DEF v, F
<1> QED BY <1>1, <1>2, <1>3, <1>4, Covering DEF v

LEMMA Keeps_sn_clear == ASSUME Good(w), sn_clear PROVE Good(w') /\ Promise(w, w')
<1> DEFINE F == {RF_SELNODE} \cup vn(w)
<1>1. w' \in Change(w, [w EXCEPT !.sel = FALSE], {"sel"}, F)
  BY DEF sn_clear
<1> DEFINE v == [w EXCEPT !.sel = FALSE]
<1>2. w \in World /\ F \in SUBSET RF_INIT
  BY DEF Good, RF_INIT, vn
<1>3. v \in World
  BY <1>2 DEF World
<1>4. Covered(w, v, {"sel"}, rf_deps(F))
  <2>1. Closed(rf_deps(F)) /\ Brought(F, rf_deps(F))
    BY Deps, DepsClosed
  <2> QED BY <1>2, <2>1 DEF Covered, Closed, Brought, World, vn,
          RF_DATASRC, RF_DMODE, RF_VMODE, RF_CAM, RF_GROUND, RF_DIM, RF_CLUSTER, RF_SELNODE, RF_FOCUS
<1> HIDE DEF v, F
<1> QED BY <1>1, <1>2, <1>3, <1>4, Covering DEF v

LEMMA Keeps_gscb_pw_help == ASSUME Good(w), gscb_pw_help PROVE Good(w') /\ Promise(w, w')
<1> DEFINE F == {RF_CLUSTER, RF_SELNODE}
<1>1. w' \in Change(w, w, {"subset"}, F)
  BY DEF gscb_pw_help
<1> DEFINE v == w
<1>2. w \in World /\ F \in SUBSET RF_INIT
  BY DEF Good, RF_INIT, vn
<1>3. v \in World
  BY <1>2 DEF World
<1>4. Covered(w, v, {"subset"}, rf_deps(F))
  <2>1. Closed(rf_deps(F)) /\ Brought(F, rf_deps(F))
    BY Deps, DepsClosed
  <2> QED BY <1>2, <2>1 DEF Covered, Closed, Brought, World, vn,
          RF_DATASRC, RF_DMODE, RF_VMODE, RF_CAM, RF_GROUND, RF_DIM, RF_CLUSTER, RF_SELNODE, RF_FOCUS
<1> HIDE DEF v, F
<1> QED BY <1>1, <1>2, <1>3, <1>4, Covering DEF v

LEMMA Keeps_opt_flip_look == ASSUME Good(w), opt_flip_look PROVE Good(w') /\ Promise(w, w')
<1> DEFINE F == {RF_CLUSTER, RF_SELNODE}
<1>1. w' \in Change(w, w, {"look"}, F)
  BY DEF opt_flip_look
<1> DEFINE v == w
<1>2. w \in World /\ F \in SUBSET RF_INIT
  BY DEF Good, RF_INIT, vn
<1>3. v \in World
  BY <1>2 DEF World
<1>4. Covered(w, v, {"look"}, rf_deps(F))
  <2>1. Closed(rf_deps(F)) /\ Brought(F, rf_deps(F))
    BY Deps, DepsClosed
  <2> QED BY <1>2, <2>1 DEF Covered, Closed, Brought, World, vn,
          RF_DATASRC, RF_DMODE, RF_VMODE, RF_CAM, RF_GROUND, RF_DIM, RF_CLUSTER, RF_SELNODE, RF_FOCUS
<1> HIDE DEF v, F
<1> QED BY <1>1, <1>2, <1>3, <1>4, Covering DEF v

LEMMA Keeps_opt_flip_pipes == ASSUME Good(w), opt_flip_pipes PROVE Good(w') /\ Promise(w, w')
<1> DEFINE F == {RF_CLUSTER, RF_SELNODE}
<1>1. PICK o \in {"PIPES", "SELPIPES"} : w' \in Change(w, [w EXCEPT !.opts = flipped(@, o)], {"pipes"}, F)
  BY DEF opt_flip_pipes
<1> DEFINE v == [w EXCEPT !.opts = flipped(@, o)]
<1>2. w \in World /\ F \in SUBSET RF_INIT
  BY DEF Good, RF_INIT, vn
<1>3. v \in World
  BY <1>2 DEF World, flipped
<1>4. Covered(w, v, {"pipes"}, rf_deps(F))
  <2>1. Closed(rf_deps(F)) /\ Brought(F, rf_deps(F))
    BY Deps, DepsClosed
  <2> QED BY <1>2, <2>1 DEF Covered, Closed, Brought, World, vn, flipped,
          RF_DATASRC, RF_DMODE, RF_VMODE, RF_CAM, RF_GROUND, RF_DIM, RF_CLUSTER, RF_SELNODE, RF_FOCUS
<1> HIDE DEF v, F
<1> QED BY <1>1, <1>2, <1>3, <1>4, Covering DEF v

LEMMA Keeps_opt_flip_skel == ASSUME Good(w), opt_flip_skel PROVE Good(w') /\ Promise(w, w')
<1> DEFINE F == {RF_CLUSTER}
<1>1. w' \in Change(w, w, {"skel"}, F)
  BY DEF opt_flip_skel
<1> DEFINE v == w
<1>2. w \in World /\ F \in SUBSET RF_INIT
  BY DEF Good, RF_INIT, vn
<1>3. v \in World
  BY <1>2 DEF World
<1>4. Covered(w, v, {"skel"}, rf_deps(F))
  <2>1. Closed(rf_deps(F)) /\ Brought(F, rf_deps(F))
    BY Deps, DepsClosed
  <2> QED BY <1>2, <2>1 DEF Covered, Closed, Brought, World, vn,
          RF_DATASRC, RF_DMODE, RF_VMODE, RF_CAM, RF_GROUND, RF_DIM, RF_CLUSTER, RF_SELNODE, RF_FOCUS
<1> HIDE DEF v, F
<1> QED BY <1>1, <1>2, <1>3, <1>4, Covering DEF v

LEMMA Keeps_flyby_read_init == ASSUME Good(w), flyby_read_init PROVE Good(w') /\ Promise(w, w')
<1> DEFINE F == {RF_VMODE, RF_DMODE, RF_CAM, RF_SELNODE}
<1>1. PICK m \in VMode, d \in DMode : w' \in Change(w, [w EXCEPT !.vmode = m, !.dmode = d], {"vmode", "dmode", "rt", "vnmode", "wi", "pipes", "cam"}, F)
  BY DEF flyby_read_init
<1> DEFINE v == [w EXCEPT !.vmode = m, !.dmode = d]
<1>2. w \in World /\ F \in SUBSET RF_INIT
  BY DEF Good, RF_INIT, vn
<1>3. v \in World
  BY <1>2 DEF World
<1>4. Covered(w, v, {"vmode", "dmode", "rt", "vnmode", "wi", "pipes", "cam"}, rf_deps(F))
  <2>1. Closed(rf_deps(F)) /\ Brought(F, rf_deps(F))
    BY Deps, DepsClosed
  <2> QED BY <1>2, <2>1 DEF Covered, Closed, Brought, World, vn,
          RF_DATASRC, RF_DMODE, RF_VMODE, RF_CAM, RF_GROUND, RF_DIM, RF_CLUSTER, RF_SELNODE, RF_FOCUS
<1> HIDE DEF v, F
<1> QED BY <1>1, <1>2, <1>3, <1>4, Covering DEF v

LEMMA Keeps_egg_matrix == ASSUME Good(w), egg_matrix PROVE Good(w') /\ Promise(w, w')
<1> DEFINE F == {RF_CLUSTER, RF_SELNODE, RF_DMODE, RF_GROUND, RF_VMODE}
<1>1. PICK m \in VMode, d \in DMode : w' \in Change(w, [w EXCEPT !.vmode = m, !.dmode = d], {"vmode", "dmode", "cam"}, F)
  BY DEF egg_matrix
<1> DEFINE v == [w EXCEPT !.vmode = m, !.dmode = d]
<1>2. w \in World /\ F \in SUBSET RF_INIT
  BY DEF Good, RF_INIT, vn
<1>3. v \in World
  BY <1>2 DEF World
<1>4. Covered(w, v, {"vmode", "dmode", "cam"}, rf_deps(F))
  <2>1. Closed(rf_deps(F)) /\ Brought(F, rf_deps(F))
    BY Deps, DepsClosed
  <2> QED BY <1>2, <2>1 DEF Covered, Closed, Brought, World, vn,
          RF_DATASRC, RF_DMODE, RF_VMODE, RF_CAM, RF_GROUND, RF_DIM, RF_CLUSTER, RF_SELNODE, RF_FOCUS
<1> HIDE DEF v, F
<1> QED BY <1>1, <1>2, <1>3, <1>4, Covering DEF v


(* The others set flags, and may leave one thing S behind, which they ask  *)
(* for or which is looked at before it matters.                            *)
LEMMA Adding ==
    ASSUME Good(w), NEW F \in SUBSET RF_INIT, NEW S \in SUBSET {"view", "focus", "reach"},
           NEW x \in World, x.vmode = w.vmode, x.dmode = w.dmode, x.stereo = w.stereo,
           x.sel = w.sel, "NODEANIM" \in x.opts <=> "NODEANIM" \in w.opts,
           x.wirep = w.wirep, x.far = w.far, x.stale = w.stale \cup S, x.rf = w.rf \cup F,
           "view" \in S => RF_CAM \in F,
           "focus" \in S => w.vmode = "WIRED" /\ ~w.sel,
           "STOP" \in w.opts /\ "STOP" \notin x.opts => RF_CLUSTER \in F
    PROVE  Good(x) /\ Promise(w, x)
<1> DEFINE O == rf_deps(w.rf)
           D == rf_deps(x.rf)
<1>1. w \in World /\ Due(w, O) /\ Glide(w, O)
  BY DEF Good
<1>2. D = O \cup rf_deps(F)
  BY DepsUnion
<1>3. /\ RF_CAM \in F => RF_CAM \in D
      /\ RF_CLUSTER \in F => RF_CLUSTER \in D
      /\ \A b : b \in O => b \in D
  BY <1>2, Deps DEF Brought
<1> HIDE DEF O, D
<1>4. Animated(x) <=> Animated(w)
  BY DEF Animated
<1>5. /\ \A a : a \in x.stale /\ a \notin {"view", "focus", "reach"} => a \in w.stale
      /\ "view" \in x.stale => "view" \in w.stale \/ RF_CAM \in D
      /\ "focus" \in x.stale /\ (x.vmode # "WIRED" \/ x.sel) => "focus" \in w.stale
  BY <1>3
<1>6. Due(x, D)
  BY <1>1, <1>3, <1>4, <1>5 DEF Due
<1>7. Glide(x, D)
  BY <1>1, <1>3, <1>4 DEF Glide
<1>8. Good(x)
  BY <1>6, <1>7 DEF Good, D
<1>9. Promise(w, x)
  BY <1>1, <1>2, <1>4, <1>8, Promising DEF O, D
<1> QED BY <1>8, <1>9

LEMMA Keeps_opt_flip_stop == ASSUME Good(w), opt_flip_stop PROVE Good(w') /\ Promise(w, w')
<1> DEFINE F == {RF_CAM, RF_CLUSTER, RF_SELNODE}
           on == w.opts \cup {"STOP"}
           off == w.opts \ {"STOP"}
           r == w.rf \cup F
<1>1. w \in World
  BY DEF Good
<1>2. /\ F \in SUBSET RF_INIT /\ RF_CLUSTER \in F
      /\ r \in SUBSET RF_INIT
      /\ on \in SUBSET {"PIPES", "SELPIPES", "NODEANIM", "STOP"}
      /\ off \in SUBSET {"PIPES", "SELPIPES", "NODEANIM", "STOP"}
  BY <1>1 DEF RF_INIT, World
<1>3. /\ "STOP" \in w.opts => w' = [w EXCEPT !.opts = off, !.rf = r]
      /\ "STOP" \notin w.opts => w' = [w EXCEPT !.opts = on]
  BY DEF opt_flip_stop
<1>4. /\ "NODEANIM" \in on <=> "NODEANIM" \in w.opts
      /\ "NODEANIM" \in off <=> "NODEANIM" \in w.opts
      /\ "STOP" \in on
  OBVIOUS
<1>a. r = w.rf \cup F
  OBVIOUS
<1> HIDE DEF F, on, off, r
<1>5. /\ w' \in World /\ w'.vmode = w.vmode /\ w'.dmode = w.dmode /\ w'.stereo = w.stereo
      /\ w'.sel = w.sel /\ w'.wirep = w.wirep /\ w'.far = w.far /\ w'.stale = w.stale
      /\ IF "STOP" \in w.opts THEN w'.opts = off /\ w'.rf = r ELSE w'.opts = on /\ w'.rf = w.rf
  BY <1>1, <1>2, <1>3 DEF World
<1>6. w'.stale = w.stale \cup {} /\ {} \in SUBSET {"view", "focus", "reach"} /\ {} \in SUBSET RF_INIT
  BY <1>5
<1>7. w.rf = w.rf \cup {}
  OBVIOUS
<1>8. CASE "STOP" \in w.opts
  <2>1. w'.opts = off /\ w'.rf = w.rf \cup F
    BY <1>5, <1>8, <1>a
  <2> QED BY <1>2, <1>4, <1>5, <1>6, <2>1, Adding
<1>9. CASE "STOP" \notin w.opts
  BY <1>4, <1>5, <1>6, <1>7, <1>9, Adding
<1> QED BY <1>8, <1>9

LEMMA Keeps_tween_pop == ASSUME Good(w), tween_pop PROVE Good(w') /\ Promise(w, w')
<1>1. PICK r \in SUBSET {"reach"} :
         w' = [w EXCEPT !.rf = @ \cup {RF_CAM}, !.stale = @ \cup Readers(w, {"cam"}) \cup r]
  BY DEF tween_pop
<1> DEFINE S == Readers(w, {"cam"}) \cup r
           f == w.rf \cup {RF_CAM}
           t == w.stale \cup S
<1>2. w \in World
  BY DEF Good
<1>3. Touches(w, {"cam"})
  BY <1>2, TouchesLess
<1>4. S \in SUBSET {"view", "focus", "reach"}
  BY <1>3 DEF Touches, Readers, Made, Lists
<1>5. "focus" \in S => w.vmode = "WIRED" /\ ~w.sel
  BY <1>3 DEF Touches
<1>6. {RF_CAM} \in SUBSET RF_INIT /\ f \in SUBSET RF_INIT
  BY <1>2 DEF World, RF_INIT
<1>7. t \in SUBSET Made
  BY <1>2, <1>4 DEF World, Made
<1>8. w' = [w EXCEPT !.rf = f, !.stale = t]
  <2>1. w.stale \cup Readers(w, {"cam"}) \cup r = t
    OBVIOUS
  <2> HIDE DEF t
  <2> QED BY <1>1, <2>1
<1>9. f = w.rf \cup {RF_CAM} /\ t = w.stale \cup S
  OBVIOUS
<1> HIDE DEF S, f, t
<1>10. /\ w' \in World /\ Same(w, w') /\ w'.rf = f /\ w'.stale = t
       /\ w'.wirep = w.wirep /\ w'.far = w.far
  BY <1>2, <1>6, <1>7, <1>8 DEF World, Same
<1> QED BY <1>4, <1>5, <1>6, <1>9, <1>10, Adding DEF Same

LEMMA Keeps_gl_select == ASSUME Good(w), gl_select PROVE Good(w') /\ Promise(w, w')
<1> DEFINE f == w.rf \cup {RF_CAM}
           t == w.stale \cup {"view"}
<1>1. w' = [w EXCEPT !.rf = f, !.stale = t]
  BY DEF gl_select
<1>2. w \in World /\ {RF_CAM} \in SUBSET RF_INIT
  BY DEF Good, RF_INIT
<1>3. f \in SUBSET RF_INIT /\ t \in SUBSET Made
  BY <1>2 DEF World, Made
<1>4. f = w.rf \cup {RF_CAM} /\ t = w.stale \cup {"view"}
  OBVIOUS
<1> HIDE DEF f, t
<1>5. /\ w' \in World /\ Same(w, w') /\ w'.rf = f /\ w'.stale = t
      /\ w'.wirep = w.wirep /\ w'.far = w.far
  BY <1>1, <1>2, <1>3 DEF World, Same
<1> QED BY <1>2, <1>4, <1>5, Adding DEF Same

LEMMA Keeps_gl_keyh_update == ASSUME Good(w), gl_keyh_update PROVE Good(w') /\ Promise(w, w')
<1> DEFINE f == w.rf \cup {RF_DATASRC}
<1>1. w' = [w EXCEPT !.rf = f]
  BY DEF gl_keyh_update
<1>2. w \in World /\ {RF_DATASRC} \in SUBSET RF_INIT
  BY DEF Good, RF_INIT
<1>3. f \in SUBSET RF_INIT
  BY <1>2 DEF World
<1>4. f = w.rf \cup {RF_DATASRC} /\ w.stale = w.stale \cup {}
  OBVIOUS
<1> HIDE DEF f
<1>5. /\ w' \in World /\ Same(w, w') /\ w'.rf = f /\ w'.stale = w.stale
      /\ w'.wirep = w.wirep /\ w'.far = w.far
  BY <1>1, <1>2, <1>3 DEF World, Same
<1>6. w'.stale = w.stale \cup {} /\ {} \in SUBSET {"view", "focus", "reach"}
  BY <1>4, <1>5
<1> QED BY <1>2, <1>4, <1>5, <1>6, Adding DEF Same

-----------------------------------------------------------------------------
(* Whatever the flags, the steps of a frame lead from worlds to worlds.    *)
LEMMA StageTyped ==
    ASSUME NEW u \in World, NEW F, NEW eye
    PROVE  /\ fetch(u) \subseteq World
           /\ vmode_change(u) \in World
           /\ wirep_update([u EXCEPT !.wirep = @ \/ RF_WIREP \in F]) \in World
           /\ draw_node(u) \in World
           /\ make_cluster(u, eye) \in World
<1>1. fetch(u) \subseteq World
  <2> DEFINE t == u.stale \cup Readers(u, {"data"})
  <2>1. t \in SUBSET Made
    BY DEF World, Readers
  <2>2. fetch(u) = {u, [u EXCEPT !.stale = t]}
    BY Zenon DEF fetch
  <2> HIDE DEF t
  <2> QED BY <2>1, <2>2 DEF World
<1>2. vmode_change(u) \in World
  <2>1. CASE Animated(u)
    <3> DEFINE n == IF "v" \in u.stale THEN Steps ELSE 0
               t == u.stale \ {"vtwe"}
    <3>1. n \in 0 .. Steps /\ t \in SUBSET Made
      BY RebuildAssumption DEF World
    <3>2. vmode_change(u) = [u EXCEPT !.stale = t, !.far = n]
      BY <2>1, Zenon DEF vmode_change
    <3> HIDE DEF n, t
    <3> QED BY <3>1, <3>2 DEF World
  <2>2. CASE ~Animated(u)
    <3> DEFINE n == IF "vtwe" \in u.stale THEN Steps ELSE 0
               m == make(u, {"v"})
    <3>1. n \in 0 .. Steps
      BY RebuildAssumption
    <3>2. m \in World
      BY Making DEF Made
    <3>3. vmode_change(u) = [m EXCEPT !.far = n]
      BY <2>2, Zenon DEF vmode_change
    <3> HIDE DEF n, m
    <3> QED BY <3>1, <3>2, <3>3 DEF World
  <2> QED BY <2>1, <2>2
<1>3. wirep_update([u EXCEPT !.wirep = @ \/ RF_WIREP \in F]) \in World
  <2> DEFINE b == u.wirep \/ RF_WIREP \in F
             y == [u EXCEPT !.wirep = b]
             m == make(y, {"wirep"})
             t == m.stale \ {"reach"}
  <2>1. b \in BOOLEAN
    OBVIOUS
  <2> HIDE DEF b
  <2>2. y \in World
    BY <2>1 DEF World
  <2>3. m \in World
    BY <2>2, Making DEF Made
  <2>4. wirep_update(y) \in {y, [m EXCEPT !.stale = t, !.wirep = FALSE]}
    BY Zenon DEF wirep_update
  <2> HIDE DEF y, m
  <2>5. t \in SUBSET Made
    BY <2>3 DEF World
  <2> HIDE DEF t
  <2>6. [m EXCEPT !.stale = t, !.wirep = FALSE] \in World
    BY <2>3, <2>5 DEF World
  <2>7. wirep_update(y) \in World
    BY <2>2, <2>4, <2>6
  <2> QED BY <2>7 DEF y, b
<1>4. draw_node(u) \in World
  <2> DEFINE r == u.rf \cup {RF_CLUSTER, RF_SELNODE}
             n == u.far - 1
             c == u.stale \cup Readers(u, {"v"})
             y == [u EXCEPT !.far = n, !.rf = r, !.stale = c]
             s == IF y.far = 0 /\ "vtwe" \notin y.stale THEN y.stale \ {"v"} ELSE y.stale \cup {"v"}
  <2>1. CASE Animated(u) /\ "STOP" \notin u.opts /\ u.far > 0
    <3>1. r \in SUBSET RF_INIT /\ n \in 0 .. Steps /\ c \in SUBSET Made
      BY <2>1, RebuildAssumption DEF World, RF_INIT, Readers
    <3>2. draw_node(u) = [y EXCEPT !.stale = s]
      BY <2>1, Zenon DEF draw_node
    <3> HIDE DEF r, n, c
    <3>3. y \in World
      BY <3>1 DEF World
    <3> HIDE DEF y
    <3>4. s \in SUBSET Made
      BY <3>3 DEF World, Made
    <3> HIDE DEF s
    <3> QED BY <3>2, <3>3, <3>4 DEF World
  <2>2. CASE ~(Animated(u) /\ "STOP" \notin u.opts /\ u.far > 0)
    BY <2>2, Zenon DEF draw_node
  <2> QED BY <2>1, <2>2
<1>5. make_cluster(u, eye) \in World
  <2>1. {"cluster"} \in SUBSET Made /\ {"cluster2"} \in SUBSET Made
    BY DEF Made, Lists
  <2> QED BY <1>4, <2>1, Making DEF make_cluster
<1> QED BY <1>1, <1>2, <1>3, <1>4, <1>5

LEMMA RebuildTyped ==
    ASSUME NEW U, U \subseteq World, NEW F, NEW eye
    PROVE  rebuild(U, F, eye) \subseteq World
<1>1. ASSUME NEW W, W \subseteq World, NEW a \in Made
      PROVE  {make(u, {a}) : u \in W} \subseteq World
  <2>1. {a} \in SUBSET Made
    BY <1>1
  <2>2. ASSUME NEW u \in W PROVE make(u, {a}) \in World
    BY <1>1, <2>1, Making
  <2> QED BY <2>2
<1>2. ASSUME NEW W, W \subseteq World
      PROVE  /\ if_data(W, F) \subseteq World /\ if_dmode(W, F) \subseteq World
             /\ if_vmode(W, F) \subseteq World /\ if_cam(W, F) \subseteq World
             /\ if_ground(W, F, eye) \subseteq World /\ if_dim(W, F) \subseteq World
             /\ if_wirep(W, F) \subseteq World /\ if_cluster(W, F, eye) \subseteq World
             /\ if_selnode(W, F, eye) \subseteq World /\ if_focus(W, F) \subseteq World
  <2>1. if_data(W, F) \subseteq World /\ if_vmode(W, F) \subseteq World
    BY <1>2, StageTyped DEF if_data, if_vmode
  <2>2. if_wirep(W, F) \subseteq World
    BY <1>2, StageTyped DEF if_wirep
  <2>3. if_cluster(W, F, eye) \subseteq World
    BY <1>2, StageTyped DEF if_cluster
  <2>4. /\ if_dmode(W, F) \subseteq World /\ if_cam(W, F) \subseteq World
        /\ if_dim(W, F) \subseteq World /\ if_focus(W, F) \subseteq World
    BY <1>1, <1>2 DEF if_dmode, if_cam, if_dim, if_focus, dmode_change, dim_update, update_focus, Made
  <2>5. if_ground(W, F, eye) \subseteq World /\ if_selnode(W, F, eye) \subseteq World
    <3>1. {"ground", "ground2", "selnodes", "selnodes2"} \subseteq Made
      BY DEF Made, Lists
    <3> QED BY <1>1, <1>2, <3>1 DEF if_ground, if_selnode, make_ground, make_selnodes
  <2> QED BY <2>1, <2>2, <2>3, <2>4, <2>5
<1> DEFINE U4 == if_cam(if_vmode(if_dmode(if_data(U, F), F), F), F)
           U7 == if_wirep(if_dim(if_ground(U4, F, eye), F), F)
<1>3. U4 \subseteq World
  BY <1>2
<1> HIDE DEF U4
<1>4. U7 \subseteq World
  BY <1>2, <1>3
<1> HIDE DEF U7
<1>5. if_focus(if_selnode(if_cluster(U7, F, eye), F, eye), F) \subseteq World
  BY <1>2, <1>4
<1> QED BY <1>5, Zenon DEF rebuild, U4, U7

LEMMA FrameTyped == ASSUME w \in World, frame PROVE w' \in World
<1> DEFINE u == wired_update(w)
<1>1. u \in World /\ w' \in Eyes(u)
  BY Leaving DEF frame, Eyes
<1> HIDE DEF u
<1> DEFINE y == [u EXCEPT !.rf = {}]
           F == rf_deps(u.rf)
<1>2. y \in World /\ {y} \subseteq World
  BY <1>1 DEF World
<1> HIDE DEF y, F
<1>3. rebuild({y}, F, "left") \subseteq World
  BY <1>2, RebuildTyped
<1>4. {"view"} \in SUBSET Made
  BY DEF Made
<1>5. CASE ~u.stereo
  <2>1. w' \in rebuild({y}, F, "left")
           \/ \E v \in rebuild({y}, F, "left") : w' = make(v, {"view"})
    BY <1>1, <1>5 DEF Eyes, gl_displayh_default, y, F
  <2>2. ASSUME NEW v \in rebuild({y}, F, "left") PROVE make(v, {"view"}) \in World
    BY <1>3, <1>4, Making
  <2> QED BY <1>3, <2>1, <2>2
<1>6. CASE u.stereo
  <2> DEFINE paused(v) == [v EXCEPT !.opts = @ \cup {"STOP"}, !.rf = {}]
  <2>1. \E v \in rebuild({y}, F, "left") :
           \E r \in rebuild({paused(v)}, F \cap RF_STEREO, "right") :
              w' = make([r EXCEPT !.opts = v.opts, !.rf = v.rf], {"view"})
    BY <1>1, <1>6 DEF Eyes, gl_displayh_stereo, y, F
  <2>2. PICK v \in rebuild({y}, F, "left") :
           \E r \in rebuild({paused(v)}, F \cap RF_STEREO, "right") :
              w' = make([r EXCEPT !.opts = v.opts, !.rf = v.rf], {"view"})
    BY <2>1
  <2>3. PICK r \in rebuild({paused(v)}, F \cap RF_STEREO, "right") :
           w' = make([r EXCEPT !.opts = v.opts, !.rf = v.rf], {"view"})
    BY <2>2
  <2>4. v \in World
    BY <1>3
  <2>5. paused(v) \in World
    BY <2>4 DEF World
  <2>6. r \in World
    BY <2>5, RebuildTyped
  <2>7. [r EXCEPT !.opts = v.opts, !.rf = v.rf] \in World
    BY <2>4, <2>6 DEF World
  <2> QED BY <1>4, <2>3, <2>7, Making
<1> QED BY <1>5, <1>6

LEMMA ChangeTyped ==
    ASSUME NEW u \in World, NEW v \in World, NEW S, NEW F \in SUBSET RF_INIT
    PROVE  Change(u, v, S, F) \subseteq World
  BY Changing

LEMMA OperationTyped == ASSUME w \in World, operation PROVE w' \in World
<1>1. vn(w) \in SUBSET RF_INIT
  BY DEF vn, RF_INIT
<1>2. /\ {RF_DMODE} \in SUBSET RF_INIT
      /\ {RF_DIM, RF_CLUSTER, RF_SELNODE, RF_DMODE} \in SUBSET RF_INIT
      /\ {RF_CLUSTER, RF_SELNODE, RF_DMODE} \cup vn(w) \in SUBSET RF_INIT
      /\ {RF_VMODE} \in SUBSET RF_INIT
      /\ {RF_CLUSTER, RF_GROUND, RF_CAM, RF_SELNODE, RF_VMODE} \in SUBSET RF_INIT
      /\ {RF_CLUSTER, RF_SELNODE, RF_GROUND, RF_VMODE} \in SUBSET RF_INIT
      /\ {RF_CLUSTER, RF_DMODE} \in SUBSET RF_INIT
      /\ {RF_CLUSTER, RF_SELNODE} \in SUBSET RF_INIT
      /\ {RF_CLUSTER, RF_SELNODE} \cup vn(w) \in SUBSET RF_INIT
      /\ {RF_SELNODE} \cup vn(w) \in SUBSET RF_INIT
      /\ {RF_CLUSTER} \in SUBSET RF_INIT
      /\ {RF_VMODE, RF_DMODE, RF_CAM, RF_SELNODE} \in SUBSET RF_INIT
      /\ {RF_CLUSTER, RF_SELNODE, RF_DMODE, RF_GROUND, RF_VMODE} \in SUBSET RF_INIT
  BY <1>1 DEF RF_INIT
<1>3. /\ \A d \in DMode : [w EXCEPT !.dmode = d] \in World
      /\ \A m \in VMode : [w EXCEPT !.vmode = m] \in World
      /\ \A m \in VMode, d \in DMode : [w EXCEPT !.vmode = m, !.dmode = d] \in World
      /\ \A m \in VMode, d \in DMode : [w EXCEPT !.vmode = m, !.dmode = d, !.rf = {}] \in World
      /\ \A r \in BOOLEAN : [w EXCEPT !.rte = r] \in World
      /\ [w EXCEPT !.sel = TRUE] \in World /\ [w EXCEPT !.sel = FALSE] \in World
      /\ \A o \in {"PIPES", "SELPIPES"} : [w EXCEPT !.opts = flipped(@, o)] \in World
  BY DEF World, flipped
<1>4. gl_keyh_dmode \/ gscb_pw_dmode \/ uinpcb_gotojob \/ gl_keyh_vmode \/ gscb_pw_vnmode
         => w' \in World
  <2>1. "other" \in DMode
    BY DEF DMode
  <2> QED BY <1>2, <1>3, <2>1, ChangeTyped
      DEF gl_keyh_dmode, gscb_pw_dmode, uinpcb_gotojob, gl_keyh_vmode, gscb_pw_vnmode
<1>5. gl_keyh_incr \/ gl_spkeyh_wiadj \/ gl_keyh_route \/ gl_keyh_pipes \/ nc_apply => w' \in World
  BY <1>2, <1>3, ChangeTyped
  DEF gl_keyh_incr, gl_spkeyh_wiadj, gl_keyh_route, gl_keyh_pipes, nc_apply
<1>6. sn_insert \/ sn_replace \/ sn_clear \/ gscb_pw_help \/ opt_flip_look => w' \in World
  BY <1>2, <1>3, ChangeTyped DEF sn_insert, sn_replace, sn_clear, gscb_pw_help, opt_flip_look
<1>7. opt_flip_pipes \/ opt_flip_skel \/ opt_flip_subset => w' \in World
  BY <1>2, <1>3, ChangeTyped DEF opt_flip_pipes, opt_flip_skel, opt_flip_subset
<1>8. flyby_read_init \/ egg_matrix => w' \in World
  BY <1>2, <1>3, ChangeTyped DEF flyby_read_init, egg_matrix
<1>9. opt_flip_nodeanim => w' \in World
  <2> DEFINE on == w.opts \cup {"NODEANIM"}
             off == w.opts \ {"NODEANIM"}
             r == w.rf \cup {RF_CLUSTER}
             t == w.stale \cup IF w.far > 0 THEN Readers(w, {"v"}) ELSE {}
             v == [w EXCEPT !.opts = off, !.far = 0, !.rf = r, !.stale = t]
             t1 == v.stale \cup {"v"}
             t2 == v.stale \ {"v"}
  <2>1. /\ on \in SUBSET {"PIPES", "SELPIPES", "NODEANIM", "STOP"}
        /\ off \in SUBSET {"PIPES", "SELPIPES", "NODEANIM", "STOP"}
        /\ r \in SUBSET RF_INIT /\ t \in SUBSET Made /\ 0 \in 0 .. Steps
    BY RebuildAssumption DEF World, Readers, RF_INIT
  <2>2. opt_flip_nodeanim =>
           w' \in {[v EXCEPT !.stale = t1], [v EXCEPT !.stale = t2], [w EXCEPT !.opts = on]}
    BY DEF opt_flip_nodeanim, nodeanim_off
  <2> HIDE DEF on, off, r, t
  <2>3. v \in World
    BY <2>1 DEF World
  <2> HIDE DEF v
  <2>4. t1 \in SUBSET Made /\ t2 \in SUBSET Made
    BY <2>3 DEF World, Made
  <2> HIDE DEF t1, t2
  <2> QED BY <2>1, <2>2, <2>3, <2>4 DEF World
<1>10. opt_flip_stop => w' \in World
  <2> DEFINE on == w.opts \cup {"STOP"}
             off == w.opts \ {"STOP"}
             r == w.rf \cup {RF_CAM, RF_CLUSTER, RF_SELNODE}
  <2>1. /\ on \in SUBSET {"PIPES", "SELPIPES", "NODEANIM", "STOP"}
        /\ off \in SUBSET {"PIPES", "SELPIPES", "NODEANIM", "STOP"}
        /\ r \in SUBSET RF_INIT
    BY DEF World, RF_INIT
  <2>2. opt_flip_stop => w' \in {[w EXCEPT !.opts = off, !.rf = r], [w EXCEPT !.opts = on]}
    BY DEF opt_flip_stop
  <2> HIDE DEF on, off, r
  <2> QED BY <2>1, <2>2 DEF World
<1>11. tween_pop \/ gl_select \/ gl_keyh_update => w' \in World
  <2> DEFINE f == w.rf \cup {RF_CAM}
             g == w.rf \cup {RF_DATASRC}
             t(r) == w.stale \cup Readers(w, {"cam"}) \cup r
             s == w.stale \cup {"view"}
  <2>1. /\ f \in SUBSET RF_INIT /\ g \in SUBSET RF_INIT /\ s \in SUBSET Made
        /\ \A r \in SUBSET {"reach"} : t(r) \in SUBSET Made
    BY DEF World, RF_INIT, Made, Readers
  <2>2. tween_pop => \E r \in SUBSET {"reach"} : w' = [w EXCEPT !.rf = f, !.stale = t(r)]
    BY DEF tween_pop
  <2>3. /\ gl_select => w' = [w EXCEPT !.rf = f, !.stale = s]
        /\ gl_keyh_update => w' = [w EXCEPT !.rf = g]
    BY DEF gl_select, gl_keyh_update
  <2> HIDE DEF f, g, t, s
  <2>4. tween_pop => w' \in World
    <3>1. ASSUME NEW c \in SUBSET Made PROVE [w EXCEPT !.rf = f, !.stale = c] \in World
      BY <2>1 DEF World
    <3> QED BY <2>1, <2>2, <3>1
  <2>5. gl_select \/ gl_keyh_update => w' \in World
    BY <2>1, <2>3 DEF World
  <2> QED BY <2>4, <2>5
<1>12. load_state => w' \in World
  <2>1. ASSUME NEW S PROVE load_flags(S) \in SUBSET RF_INIT
    BY DEF load_flags, RF_INIT
  <2> QED BY <1>3, <2>1, ChangeTyped DEF load_state
<1> QED BY <1>4, <1>5, <1>6, <1>7, <1>8, <1>9, <1>10, <1>11, <1>12 DEF operation

-----------------------------------------------------------------------------
(* Whatever bits are set and forgotten, the state keeps its types: the     *)
(* frames to go stay within Steps, and only known bits are set.            *)
TypeOK == w \in World

THEOREM TypesHold == Spec => []TypeOK
<1>1. Init => TypeOK
  <2>1. Steps \in 0 .. Steps
    BY RebuildAssumption
  <2> QED BY <2>1 DEF Init, TypeOK, World, VMode, DMode, RF_INIT
<1>2. TypeOK /\ [Next]_vars => TypeOK'
  BY FrameTyped, OperationTyped DEF TypeOK, Next, vars
<1> QED BY <1>1, <1>2, PTL DEF Spec

(* The frame after a fetch leaves nothing on the screen that is not made   *)
(* from the present state, once no node is on its way: for every set of    *)
(* operations, those that forget bits included.                            *)
THEOREM FetchingHeals == Spec => FetchHeals
<1>1. TypeOK => [(RF_DATASRC \in w.rf /\ frame /\ w'.far = 0) => w'.stale \cap Shown(w') = {}]_vars
  <2>1. SUFFICES ASSUME TypeOK, RF_DATASRC \in w.rf, frame, w'.far = 0
                 PROVE  w'.stale \cap Shown(w') = {}
    OBVIOUS
  <2>2. w' \in Eyes(wired_update(w))
    BY <2>1 DEF frame, Eyes
  <2>3. PICK F : Painted(w', F) /\ RF_SELNODE \in F /\ RF_FOCUS \in F
    BY <2>1, <2>2, FrameFetch DEF TypeOK
  <2>4. "v" \notin w'.stale
    BY <2>1, <2>3 DEF Painted
  <2> QED BY <2>3, <2>4 DEF Painted, Repeated, Shown
<1> QED BY <1>1, TypesHold, PTL DEF FetchHeals

-----------------------------------------------------------------------------
(* The refinement.                                                         *)
LEMMA GoodOwes ==
    ASSUME NEW u, Good(u)
    PROVE  Wrong(u) \subseteq Owed(u) /\ Owed(u) \subseteq Shown(u) /\ Shown(u) \subseteq Made
<1>1. Shown(u) \subseteq Made
  BY DEF Shown, Made, Lists
<1>2. Closed(rf_deps(u.rf))
  BY DepsClosed
<1>3. ASSUME NEW a \in Wrong(u) PROVE a \in Owed(u)
  <2>1. a \in u.stale /\ a \in Shown(u)
    BY <1>3 DEF Wrong
  <2>2. CASE a = "v"
    BY <1>2, <1>3, <2>1, <2>2 DEF Wrong, Good, Due, Glide, Owed, Closed
  <2>3. CASE a \in {"wirep", "reach", "clip", "view"}
    BY <2>1, <2>3 DEF Good, Due, Owed, Shown
  <2>4. CASE a \in {"fillp", "dimp", "ground", "focus"}
    BY <2>1, <2>4 DEF Good, Due, Owed, Shown
  <2>5. CASE a \in {"cluster", "selnodes"}
    BY <2>1, <2>5 DEF Good, Due, Owed, Shown
  <2>6. CASE a \in {"cluster2", "selnodes2", "ground2"}
    BY <2>1, <2>6 DEF Good, Due, Owed, Shown
  <2> QED BY <1>1, <2>1, <2>2, <2>3, <2>4, <2>5, <2>6 DEF Shown
<1>4. Owed(u) \subseteq Shown(u)
  BY DEF Owed
<1> QED BY <1>1, <1>3, <1>4

LEMMA InitGood == Init => Good(w)
<1>1. SUFFICES ASSUME Init PROVE Good(w)
  OBVIOUS
<1>2. w \in World
  <2>1. Steps \in 0 .. Steps
    BY RebuildAssumption
  <2> QED BY <1>1, <2>1 DEF Init, World, VMode, DMode, RF_INIT
<1>3. w.rf = RF_INIT /\ w.stale = Made
  BY <1>1 DEF Init
<1>4. RF_INIT \subseteq rf_deps(w.rf)
  BY <1>3, Deps DEF Brought, RF_INIT
<1>5. Due(w, rf_deps(w.rf))
  BY <1>4 DEF Due, RF_INIT, RF_WIREP, RF_FOCUS
<1>6. Glide(w, rf_deps(w.rf))
  BY <1>3 DEF Glide, Made
<1> QED BY <1>2, <1>5, <1>6 DEF Good

LEMMA FrameKeeps ==
    ASSUME Good(w), frame
    PROVE  /\ Good(w')
           /\ Shown(w') = Shown(w)
           /\ Owed(w') \subseteq {"v", "cluster", "cluster2", "selnodes", "selnodes2", "focus"}
<1>1. w' \in Eyes(wired_update(w))
  BY DEF frame, Eyes
<1>2. PICK F : Painted(w', F) /\ Same(w, w')
  BY <1>1, FrameGood
<1>3. Shown(w') = Shown(w)
  BY <1>2 DEF Shown, Same
<1> DEFINE D == rf_deps(w'.rf)
<1>4. /\ w'.rf = {} => RF_CLUSTER \notin D /\ RF_SELNODE \notin D /\ RF_FOCUS \notin D
      /\ w'.rf = Moving => RF_CLUSTER \in D /\ RF_SELNODE \in D /\ RF_FOCUS \in D
      /\ {RF_DATASRC, RF_DMODE, RF_VMODE, RF_CAM, RF_GROUND, RF_DIM} \cap D = {}
  <2>1. Brought(w'.rf, D) /\ (w'.rf = {} \/ w'.rf = Moving)
    BY <1>2, Deps DEF Painted
  <2> HIDE DEF D
  <2> USE DEF Brought, RF_DATASRC, RF_DMODE, RF_VMODE, RF_CAM, RF_GROUND, RF_DIM, RF_CLUSTER,
              RF_SELNODE, RF_FOCUS
  <2>2. CASE w'.rf = {}
    BY <2>1, <2>2 DEF Moving
  <2>3. CASE w'.rf = Moving
    BY <2>1, <2>3 DEF Moving
  <2> QED BY <2>1, <2>2, <2>3
<1>5. w'.rf = Moving => Animated(w')
  BY <1>2 DEF Painted, Moving
<1> HIDE DEF D
<1>6. Good(w')
  <2>1. Due(w', D)
    BY <1>2, <1>4, <1>5 DEF Painted, Due, Repeated, Animated
  <2>2. Glide(w', D)
    BY <1>2, <1>4 DEF Painted, Glide
  <2> QED BY <1>2, <2>1, <2>2 DEF Good, Painted, D
<1>7. ASSUME NEW a \in Owed(w')
      PROVE  a \in {"v", "cluster", "cluster2", "selnodes", "selnodes2", "focus"}
  <2>1. RF_WIREP \in D => w'.vmode # "WIRED"
    BY <1>2, <1>4, <1>5 DEF RF_WIREP, RF_FOCUS, Painted, Animated
  <2>2. a \notin {"wirep", "reach"}
    BY <1>2, <1>7, <2>1 DEF Owed, Shown, Painted, Repeated, D
  <2> QED BY <1>4, <1>7, <2>2 DEF Owed, D
<1> QED BY <1>3, <1>6, <1>7

(* When only operations that ask for all they change are used, rebuilding  *)
(* implements Scene, whatever the number of operations between two frames  *)
(* and of frames a node needs.                                             *)
THEOREM Refinement ==
    ASSUME Ops \subseteq Asking
    PROVE  Spec => KeepsPromise
<1> DEFINE IInv == Good(w)
<1>1. Init => IInv
  BY InitGood
<1>2. IInv /\ operation => IInv' /\ Promise(w, w')
  <2> USE Ops \subseteq Asking
  <2>1. ASSUME IInv, gl_keyh_dmode \/ gscb_pw_dmode \/ gl_keyh_route \/ opt_flip_subset
                        \/ opt_flip_nodeanim \/ load_state
        PROVE  FALSE
    BY <2>1 DEF Asking, gl_keyh_dmode, gscb_pw_dmode, gl_keyh_route, opt_flip_subset,
                opt_flip_nodeanim, load_state
  <2> QED BY <2>1, Keeps_uinpcb_gotojob, Keeps_gl_keyh_vmode, Keeps_gscb_pw_vnmode,
             Keeps_gl_keyh_incr, Keeps_gl_spkeyh_wiadj, Keeps_gl_keyh_pipes, Keeps_nc_apply,
             Keeps_sn_insert, Keeps_sn_replace, Keeps_sn_clear, Keeps_gscb_pw_help,
             Keeps_opt_flip_look, Keeps_opt_flip_pipes, Keeps_opt_flip_skel,
             Keeps_opt_flip_stop, Keeps_tween_pop, Keeps_gl_select, Keeps_gl_keyh_update,
             Keeps_flyby_read_init, Keeps_egg_matrix
          DEF operation
<1>3. IInv => Wrong(w) \subseteq Owed(w) /\ Owed(w) \subseteq Shown(w) /\ Shown(w) \subseteq Made
  BY GoodOwes
<1>4. IInv' => (Wrong(w) \subseteq Owed(w) /\ Owed(w) \subseteq Shown(w) /\ Shown(w) \subseteq Made)'
  BY GoodOwes
<1>5. IInv /\ [Next]_vars => IInv'
  <2>1. ASSUME IInv, vars' = vars PROVE IInv'
    BY <2>1 DEF vars
  <2> QED BY <1>2, <2>1, FrameKeeps DEF Next
<1>6. Init => Picture!Init
  BY <1>1, <1>3 DEF Picture!Init
<1>7. IInv /\ [Next]_vars => [Picture!Next]_(Picture!vars)
  <2>1. ASSUME IInv, operation PROVE Picture!Change
    BY <1>2, <1>4, <2>1 DEF Picture!Change, Promise
  <2>2. ASSUME IInv, frame PROVE Picture!Draw
    BY <1>4, <2>2, FrameKeeps DEF Picture!Draw
  <2>3. ASSUME vars' = vars PROVE Picture!vars' = Picture!vars
    BY <2>3 DEF vars, Picture!vars
  <2> QED BY <2>1, <2>2, <2>3 DEF Next, Picture!Next
<1> QED BY <1>1, <1>5, <1>6, <1>7, PTL DEF Spec, KeepsPromise, Picture!Spec
=============================================================================
