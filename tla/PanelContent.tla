---------------------------- MODULE PanelContent ----------------------------
(***************************************************************************)
(* What the panels show (prefresh.c, draw_panels in panel.c).              *)
(*                                                                         *)
(* A panel keeps the text and the buttons it composed last, and each frame *)
(* its refresh function decides whether they still hold.  There is no      *)
(* common rule: one function looks at a flag of its own panel, another     *)
(* compares with a static copy, a third keeps a bit in one of three global *)
(* words, and text panels share the flag UINPO_DIRTY.  The text is what    *)
(* the panel read: a function from the things it read to their values.     *)
(* Passive stereo, where a second window replays the panels of the first,  *)
(* and the place and animation of a panel are left out.                    *)
(***************************************************************************)
EXTENDS Naturals, Sequences, SequencesExt

CONSTANTS
    Groups,      \* sets of panels one behaviour uses
    MaxChange    \* bound: changes between two frames

(* pinfo[]                                                                 *)
Panel == {"fps", "ninfo", "cmd", "legend", "fbstat", "gotonode", "cam", "sshot",
          "status", "eggs", "date", "options", "gotojob", "panels", "login",
          "help", "vmode", "dmode", "reel", "pipe", "wiadj", "rt", "fbcho",
          "fbcreat", "compass", "keyh", "dxcho", "dscho", "vnmode", "pipedim"}
Uinp == {"cmd", "gotonode", "sshot", "eggs", "gotojob", "login", "fbcreat"}

ASSUME ContentAssumption == Groups \subseteq SUBSET Panel /\ MaxChange \in Nat \ {0}

(* Everything a panel reads.  "data" is the machine's state as the last    *)
(* fetch left it, "hl" which node classes are shown, "wi" the offsets and  *)
(* spacing of the wired mode, "rtset" the port set and the error type.     *)
Stored == {"fps", "sel", "buf", "dmode", "data", "hl", "fmode", "fbfile", "cam",
           "focus", "capture", "log", "mtime", "opts", "atpass", "exthelp",
           "vmode", "reelpos", "reeldir", "pipemode", "wi", "rtset", "keyh",
           "dxfile", "live", "dsdir", "vnmode", "pipedim"}
Derived == {"pids", "fbpids"}

VARIABLES
    w,           \* the record described at World
    group,       \* the panels this behaviour uses
    changes,     \* changes since the last frame
    fresh        \* the last step was a frame

vars == <<w, group, changes, fresh>>

NoStr == [s \in {} |-> 0]            \* p_str == NULL

NewPanel == [remove |-> FALSE, refresh |-> FALSE, dirty |-> FALSE,
             str |-> NoStr, dl |-> NoStr]

Word == {"selnode", "dmode_data", "hlnc"}
Flag == {"RF_DATASRC", "RF_CAM", "RF_DMODE", "RF_VMODE", "RF_SELNODE", "RF_FOCUS"}

-----------------------------------------------------------------------------
(* What each refresh function reads while it composes its panel.           *)

val(u, s) ==
    CASE s = "pids"   -> ToSet(u.list)
      [] s = "fbpids" -> ToSet(u.list) \cap {"fbcreat", "fbcho"}
      [] s \in Stored -> u.src[s]

Reads(u, p) ==
    CASE p = "ninfo"    -> IF u.src["sel"] = 0 THEN {"sel"}
                           ELSE {"sel", "dmode", "data", "rtset", "pipemode", "opts"}
      [] p = "cmd"      -> IF u.src["sel"] = 0 THEN {"sel"} ELSE {"sel", "buf"}
      [] p = "legend"   -> {"dmode", "data", "hl"}
      [] p = "fbstat"   -> {"fbfile", "fmode", "fbpids"}
      [] p = "cam"      -> {"cam", "focus"}
      [] p = "sshot"    -> {"buf", "capture"}
      [] p = "status"   -> {"log"}
      [] p = "date"     -> {"mtime"}
      [] p = "options"  -> {"opts"}
      [] p = "panels"   -> {"pids"}
      [] p = "login"    -> {"buf", "atpass"}
      [] p = "help"     -> {"exthelp", "sel"}
      [] p = "reel"     -> {"reelpos", "reeldir", "fmode", "opts"}
      [] p = "pipe"     -> {"pipemode"}
      [] p = "wiadj"    -> {"wi"}
      [] p = "rt"       -> {"rtset", "data"}
      [] p = "fbcho"    -> {"fbfile"}
      [] p = "compass"  -> {"cam"}
      [] p = "dxcho"    -> {"dxfile"}
      [] p = "dscho"    -> {"live", "dsdir"}
      [] p \in {"gotonode", "gotojob", "eggs", "fbcreat"} -> {"buf"}
      [] p \in {"fps", "vmode", "dmode", "keyh", "vnmode", "pipedim"} -> {p}

snapshot(u, S) == [s \in S |-> val(u, s)]

(* What a panel shows although its refresh function does not look whether  *)
(* it has changed.  What is typed, see TypedShownAlone.                    *)
Unseen ==
    {<<"ninfo", "rtset">>, <<"ninfo", "pipemode">>, <<"ninfo", "opts">>,
     <<"cam", "focus">>, <<"reel", "fmode">>, <<"reel", "opts">>, <<"rt", "data">>,
     <<"dscho", "live">>, <<"vnmode", "vnmode">>} \cup (Uinp \X {"buf"})

Watched(u, p) == {s \in Reads(u, p) : <<p, s>> \notin Unseen}

-----------------------------------------------------------------------------
(* Variants with a plausible mistake; no specification below uses them.    *)

panel_set_content_not_dirty(u, p) ==
    [u EXCEPT !.pan[p].str = snapshot(u, Reads(u, p))]

panel_refresh_ninfo_any(u) ==
    IF "ninfo" \in u.clean["selnode"] /\ u.pan["ninfo"].str # NoStr
    THEN [u EXCEPT !.pan["ninfo"].refresh = FALSE]
    ELSE [u EXCEPT !.pan["ninfo"].str = snapshot(u, Reads(u, "ninfo")),
                   !.pan["ninfo"].dirty = TRUE,
                   !.clean["selnode"] = @ \cup {"ninfo"}]

ready_ignores_typing(u, p) == ~u.pan[p].refresh /\ u.pan[p].str # NoStr

-----------------------------------------------------------------------------
(* The helpers of prefresh.c.                                              *)

(* Compose the panel anew; it and every panel below it is drawn again.     *)
panel_set_content(u, p) ==
    LET below == {u.list[i] : i \in {j \in 1 .. Len(u.list) :
                     \E k \in 1 .. j : u.list[k] = p}}
    IN  [u EXCEPT !.pan = [q \in DOMAIN @ |->
            IF q = p THEN [@[q] EXCEPT !.str = snapshot(u, Reads(u, p)), !.dirty = TRUE]
            ELSE IF q \in below THEN [@[q] EXCEPT !.dirty = TRUE] ELSE @[q]]]

ready(u, p) ==
    ~u.pan[p].refresh /\ ~(p \in Uinp /\ u.typed) /\ u.pan[p].str # NoStr

(* What panel_ready() does besides answering: it takes the marks.          *)
panel_ready(u, p) ==
    [u EXCEPT !.pan[p].refresh = FALSE, !.typed = @ /\ p \notin Uinp]

(* if (panel_ready(p)) return;                                             *)
if_marked(u, p) ==
    IF ready(u, p) THEN panel_ready(u, p) ELSE panel_set_content(panel_ready(u, p), p)

(* if (panel_ready(p) && sav == now) return; sav = now;                    *)
if_saved_differs(u, p, S) ==
    LET now == snapshot(u, S)
        v   == panel_ready(u, p)
    IN  IF ready(u, p) /\ u.sav[p] = now THEN v
        ELSE panel_set_content([v EXCEPT !.sav[p] = now], p)

(* if (<bits are set> && panel_ready(p)) return; <set the bits>;           *)
if_unclean(u, p, words, clean) ==
    LET v == IF clean THEN panel_ready(u, p) ELSE u
    IN  IF clean /\ ready(u, p) THEN v
        ELSE panel_set_content([v EXCEPT !.clean = [x \in Word |->
                 IF x \in words THEN @[x] \cup {p} ELSE @[x]]], p)

panel_refresh_fps(u) == if_marked(u, "fps")

panel_refresh_cmd(u) ==
    if_unclean(u, "cmd", {"selnode"}, "cmd" \in u.clean["selnode"])

panel_refresh_legend(u) ==
    if_unclean(u, "legend", {"dmode_data", "hlnc"},
               "legend" \in u.clean["dmode_data"] \cap u.clean["hlnc"])

panel_refresh_ninfo(u) ==
    if_unclean(u, "ninfo", {"dmode_data", "selnode"},
               /\ "ninfo" \in u.clean["selnode"]
               /\ u.src["sel"] = 0 \/ "ninfo" \in u.clean["dmode_data"])

(* The copies are compared before panel_ready(), which then takes no mark. *)
panel_refresh_flyby(u) ==
    LET now == snapshot(u, {"fbpids", "fmode"})
    IN  IF u.sav["fbstat"] = now THEN if_marked(u, "fbstat")
        ELSE panel_set_content([u EXCEPT !.sav["fbstat"] = now], "fbstat")

panel_refresh_fbnew(u)    == if_marked(u, "fbcreat")
panel_refresh_gotonode(u) == if_marked(u, "gotonode")
panel_refresh_gotojob(u)  == if_marked(u, "gotojob")

panel_refresh_pos(u) ==
    IF "RF_CAM" \in u.rf THEN panel_set_content(u, "cam") ELSE if_marked(u, "cam")

panel_refresh_ss(u)   == if_marked(u, "sshot")
panel_refresh_eggs(u) == if_marked(u, "eggs")
panel_refresh_date(u) == if_marked(u, "date")
panel_refresh_opts(u) == if_saved_differs(u, "options", {"opts"})
panel_refresh_panels(u) == if_saved_differs(u, "panels", {"pids"})
panel_refresh_status(u) == if_marked(u, "status")

(* Composing the user prompt turns the encrypted fetches off.              *)
panel_refresh_login(u) ==
    LET v == if_marked(u, "login")
    IN  IF ~ready(u, "login") /\ u.src["atpass"] = 0 THEN [v EXCEPT !.ssl = FALSE] ELSE v

panel_refresh_help(u) ==
    LET now == snapshot(u, {"exthelp"})
    IN  if_unclean([u EXCEPT !.sav["help"] = now], "help", {"selnode"},
                   u.sav["help"] = now /\ "help" \in u.clean["selnode"])

panel_refresh_vmode(u)   == if_saved_differs(u, "vmode", {"vmode"})
panel_refresh_dmode(u)   == if_saved_differs(u, "dmode", {"dmode"})
panel_refresh_pipe(u)    == if_saved_differs(u, "pipe", {"pipemode"})
panel_refresh_wiadj(u)   == if_saved_differs(u, "wiadj", {"wi"})
panel_refresh_rt(u)      == if_saved_differs(u, "rt", {"rtset"})

panel_refresh_cmp(u) ==
    IF "RF_CAM" \in u.rf THEN panel_set_content(u, "compass") ELSE if_marked(u, "compass")

panel_refresh_keyh(u)    == if_saved_differs(u, "keyh", {"keyh"})
panel_refresh_fbcho(u)   == if_marked(u, "fbcho")
panel_refresh_dxcho(u)   == if_marked(u, "dxcho")
panel_refresh_reel(u)    == if_saved_differs(u, "reel", {"reelpos"})
panel_refresh_dscho(u)   == if_marked(u, "dscho")
panel_refresh_vnmode(u)  == if_marked(u, "vnmode")
panel_refresh_pipedim(u) == if_saved_differs(u, "pipedim", {"pipedim"})

(* pi_refresh of pinfo[]                                                   *)
p_refresh(u, p) ==
    CASE p = "fps" -> panel_refresh_fps(u)
      [] p = "ninfo" -> panel_refresh_ninfo(u)
      [] p = "cmd" -> panel_refresh_cmd(u)
      [] p = "legend" -> panel_refresh_legend(u)
      [] p = "fbstat" -> panel_refresh_flyby(u)
      [] p = "gotonode" -> panel_refresh_gotonode(u)
      [] p = "cam" -> panel_refresh_pos(u)
      [] p = "sshot" -> panel_refresh_ss(u)
      [] p = "status" -> panel_refresh_status(u)
      [] p = "eggs" -> panel_refresh_eggs(u)
      [] p = "date" -> panel_refresh_date(u)
      [] p = "options" -> panel_refresh_opts(u)
      [] p = "gotojob" -> panel_refresh_gotojob(u)
      [] p = "panels" -> panel_refresh_panels(u)
      [] p = "login" -> panel_refresh_login(u)
      [] p = "help" -> panel_refresh_help(u)
      [] p = "vmode" -> panel_refresh_vmode(u)
      [] p = "dmode" -> panel_refresh_dmode(u)
      [] p = "reel" -> panel_refresh_reel(u)
      [] p = "pipe" -> panel_refresh_pipe(u)
      [] p = "wiadj" -> panel_refresh_wiadj(u)
      [] p = "rt" -> panel_refresh_rt(u)
      [] p = "fbcho" -> panel_refresh_fbcho(u)
      [] p = "fbcreat" -> panel_refresh_fbnew(u)
      [] p = "compass" -> panel_refresh_cmp(u)
      [] p = "keyh" -> panel_refresh_keyh(u)
      [] p = "dxcho" -> panel_refresh_dxcho(u)
      [] p = "dscho" -> panel_refresh_dscho(u)
      [] p = "vnmode" -> panel_refresh_vnmode(u)
      [] p = "pipedim" -> panel_refresh_pipedim(u)

-----------------------------------------------------------------------------
(* A frame: rebuild() in main.c, then draw_panels().                       *)

panel_rebuild(u, S) ==
    LET marked(p) ==
            [u.pan[p] EXCEPT !.refresh = @ \/ (p \in S /\ p \in ToSet(u.list))]
    IN  [u EXCEPT !.pan = [p \in DOMAIN @ |-> marked(p)]]

rf_deps(rf) ==
    rf \cup (IF "RF_DATASRC" \in rf THEN {"RF_VMODE", "RF_DMODE"} ELSE {})
       \cup (IF rf \cap {"RF_DATASRC", "RF_VMODE"} # {}
             THEN {"RF_CAM", "RF_SELNODE", "RF_FOCUS"} ELSE {})
       \cup (IF "RF_SELNODE" \in rf THEN {"RF_FOCUS"} ELSE {})

(* The parts of rebuild() that panels read: a fetch that found new data,   *)
(* the classes assigned again, the focus computed again.                   *)
rebuild(u, opts, data, mtime) ==
    LET fetched == IF "RF_DATASRC" \in opts
                   THEN panel_rebuild([u EXCEPT !.src["data"] = data,
                                                !.src["mtime"] = mtime], {"date"})
                   ELSE u
        classed == IF "RF_DMODE" \in opts
                   THEN [fetched EXCEPT !.clean["dmode_data"] = {}] ELSE fetched
    IN  IF "RF_FOCUS" \in opts
        THEN [classed EXCEPT !.src["focus"] = classed.src["sel"]] ELSE classed

(* gone: removed panels that have left the window; still: panels at rest   *)
(* (bound: in a frame all the removed panels leave or none, all the shown  *)
(* ones are at rest or none).                                              *)
panel_draw(u, p, gone, still) ==
    IF ~u.pan[p].dirty /\ u.pan[p].dl # NoStr THEN u
    ELSE IF p \in gone
         THEN [u EXCEPT !.list = RemoveFirst(@, p), !.pan[p] = NewPanel]
    ELSE IF p \in still
         THEN [u EXCEPT !.pan[p].dl = u.pan[p].str, !.pan[p].dirty = FALSE]
    ELSE u

draw_panels(u, gone, still) ==
    LET next(v, p) == panel_draw(p_refresh(v, p), p, gone, still)
        drawn[i \in 0 .. Len(u.list)] ==
            IF i = 0 THEN u ELSE next(drawn[i - 1], u.list[i])
    IN  drawn[Len(u.list)]

(* Bound: a source changes only if a panel in use watches it (with a node  *)
(* selected), or is one of three that panels read without watching.        *)
UsedBy(g) ==
    LET one == [src |-> [x \in {"sel"} |-> 1]]
    IN  UNION {Watched(one, p) \cup (Reads(one, p) \cap {"buf", "live", "vnmode"}) : p \in g}

UsedIn  == [g \in Groups |-> UsedBy(g)]
Used(s) == s \in UsedIn[group]

Listed(p) == p \in ToSet(w.list)
Shown(p)  == Listed(p) /\ ~w.pan[p].remove

(* What a fetch in this frame leaves of a source.                          *)
Fetched(s) == IF "RF_DATASRC" \in rf_deps(w.rf) /\ Used(s) THEN 0 .. 1 ELSE {0}

frame ==
    \E data \in Fetched("data"), mtime \in Fetched("mtime") :
    \E gone \in {{}, {p \in group : Listed(p) /\ w.pan[p].remove}} :
    \E still \in {{}, {p \in group : Shown(p)}} :
        LET opts == rf_deps(w.rf)
            v    == rebuild([w EXCEPT !.rf = opts], opts, data, mtime)
        IN  /\ w' = [draw_panels(v, gone, still)
                       EXCEPT !.rf = {}, !.lost = @ /\ "RF_DMODE" \notin opts]
            /\ changes' = 0
            /\ fresh' = (w'.list = w.list)   \* no panel left during this frame
            /\ UNCHANGED group

-----------------------------------------------------------------------------
(* panel.c: panels that come and go.                                       *)

Stick(p) ==
    CASE p \in {"options", "panels", "vmode", "dmode", "vnmode"} -> "TL"
      [] p \in {"date", "wiadj", "compass", "keyh"}              -> "BL"
      [] p = "help"                                              -> "BR"
      [] OTHER                                                   -> "TR"

panel_tremove(u, p) ==
    LET released == IF p \in Uinp /\ u.focus # "none"
                    THEN [u EXCEPT !.src["buf"] = 0, !.focus = "none"] ELSE u
        turned(q) == [u.pan[q] EXCEPT !.remove = IF q = p THEN ~@ ELSE @,
                         !.dirty = @ \/ (Stick(q) = Stick(p) /\ q \in ToSet(u.list))]
    IN  [released EXCEPT !.pan = [q \in DOMAIN @ |-> turned(q)]]

(* The part of panel_toggle() that adds a panel.  A text panel takes the   *)
(* keyboard, with clean options, from the one that had it.                 *)
panel_add(u, p) ==
    LET old  == u.focus
        over == [u EXCEPT !.src["buf"] = 0, !.focus = "none"]
        v    == IF p \notin Uinp THEN u
                ELSE [IF old = "none" THEN u ELSE panel_tremove(over, old)
                      EXCEPT !.focus = p, !.typed = FALSE]
    IN  [v EXCEPT !.list = Append(@, p), !.pan[p] = NewPanel,
                  !.src["atpass"] = IF p = "login" THEN 0 ELSE @]

panel_toggle(u, p) ==
    IF p \in ToSet(u.list) THEN panel_tremove(u, p) ELSE panel_add(u, p)

panel_show(u, p) ==
    IF p \notin group THEN u
    ELSE IF p \in ToSet(u.list) /\ ~u.pan[p].remove THEN u ELSE panel_toggle(u, p)

panel_hide(u, p) ==
    IF p \in ToSet(u.list) /\ ~u.pan[p].remove THEN panel_tremove(u, p) ELSE u

-----------------------------------------------------------------------------
(* What changes the things panels show.                                    *)

(* sn_add, sn_set, sn_del, sn_clear, sn_replace: 0 is no node, 1 and 2 are *)
(* two different selections.                                               *)
select(u, v) ==
    LET s == [u EXCEPT !.src["sel"] = v, !.clean["selnode"] = {},
                       !.rf = @ \cup {"RF_SELNODE"}]
    IN  IF u.src["sel"] = v THEN u
        ELSE IF u.src["fmode"] = 1 THEN s
        ELSE IF v = 0 THEN panel_hide(s, "ninfo")
        ELSE IF u.src["sel"] = 0 THEN panel_show(s, "ninfo") ELSE s

(* nc_set, nc_apply, nc_runall, nc_runsn                                   *)
highlight(u, v) == [u EXCEPT !.src["hl"] = v, !.clean["hlnc"] = {}]

flag(u, rf) == [u EXCEPT !.rf = @ \cup rf]

step(v) ==
    /\ changes < MaxChange
    /\ w' = v
    /\ changes' = changes + 1
    /\ fresh' = FALSE
    /\ UNCHANGED group

put(s, v) == [w EXCEPT !.src[s] = v]
flip(s)   == put(s, 1 - w.src[s])

cocb_fps == Used("fps") /\ step(panel_rebuild(flip("fps"), {"fps"}))

toggle == \E p \in group : step(panel_toggle(w, p))

(* Every key a text panel reads marks the text as typed; Escape and Enter  *)
(* let go of the keyboard, a lingering panel stays.                        *)
typed == [w EXCEPT !.typed = TRUE]
let_go == [typed EXCEPT !.src["buf"] = 0, !.focus = "none"]

gl_keyh_uinput_type ==
    /\ w.focus # "none"
    /\ \E b \in 0 .. 1 : step([typed EXCEPT !.src["buf"] = b])

gl_keyh_uinput_escape ==
    /\ w.focus # "none"
    /\ step(panel_tremove(let_go, w.focus))

(* Enter in a panel whose callback changes nothing shown here, or is given *)
(* a text it turns down.                                                   *)
gl_keyh_uinput_enter ==
    /\ w.focus \notin {"none", "login"}
    /\ step(IF w.focus = "cmd" THEN let_go ELSE panel_tremove(let_go, w.focus))

uinpcb_gotonode ==
    /\ w.focus = "gotonode" /\ w.src["buf"] # 0
    /\ \E v \in 1 .. 2 :
          LET u == [typed EXCEPT !.focus = "none"]
              s == panel_show(flag(select(u, v), {"RF_CAM"}), "ninfo")
          IN  step(panel_tremove([s EXCEPT !.src["buf"] = 0], "gotonode"))

uinpcb_gotojob ==
    /\ w.focus = "gotojob" /\ w.src["buf"] # 0
    /\ LET u == highlight([typed EXCEPT !.focus = "none"], 1)
           d == IF u.src["dmode"] = 0 THEN u
                ELSE flag([u EXCEPT !.src["dmode"] = 0], {"RF_DMODE"})
       IN  step(panel_tremove([d EXCEPT !.src["buf"] = 0], "gotojob"))

(* The user name: the panel stays, asks for the password and keeps the     *)
(* keyboard; an empty name closes it.  The password closes it.             *)
uinpcb_login ==
    /\ w.focus = "login"
    /\ IF w.src["atpass"] = 1
       THEN step(panel_rebuild([panel_tremove(flag(let_go, {"RF_DATASRC"}), "login")
                                EXCEPT !.ssl = TRUE, !.src["live"] = 1], {"dscho"}))
       ELSE IF w.src["buf"] = 0
       THEN step(panel_tremove(flag(let_go, {"RF_DATASRC"}), "login"))
       ELSE step([let_go EXCEPT !.src["atpass"] = 1, !.pan["login"].refresh = TRUE,
                                !.focus = "login", !.typed = FALSE])

move_camera == Used("cam") /\ step(flag(flip("cam"), {"RF_CAM"}))

sn_set == Used("sel") /\ \E v \in 0 .. 2 : step(select(w, v))

gscb_pw_hlnc == Used("hl") /\ step(highlight(w, 1 - w.src["hl"]))

gscb_pw_dmnc ==
    /\ Used("hl")
    /\ \E m \in 0 .. 1 :
          step(highlight(IF w.src["dmode"] = m THEN w
                         ELSE flag(put("dmode", m), {"RF_DMODE"}), 1 - w.src["hl"]))

gscb_pw_opt == Used("opts") /\ step(flip("opts"))

gscb_pw_vmode == Used("vmode") /\ step(flag(flip("vmode"), {"RF_VMODE"}))

gscb_pw_dmode == Used("dmode") /\ step(flag(flip("dmode"), {"RF_DMODE"}))

(* The buttons of the help panel; pointing at one shows them all.          *)
gscb_pw_help ==
    /\ "help" \in group
    /\ \/ \E v \in 0 .. 1 : step(put("exthelp", v))
       \/ step(select(w, 0))
       \/ step(flag(w, {"RF_DATASRC"}))

gscb_pw_pipe ==
    /\ Used("pipemode")
    /\ \E o \in {w.src["opts"], 1} :
          step([flip("pipemode") EXCEPT !.src["opts"] = o, !.rf = @ \cup {"RF_SELNODE"}])

(* Begin of a playback: the selection goes, the node panel stays.          *)
flyby_begin ==
    /\ Used("fmode") /\ w.src["fmode"] = 0
    /\ step(select(put("fmode", 1), 0))

(* Its end: load_state() brings back the state st of when it began, asks   *)
(* for what differs, and drops the bits that were set before.              *)
Restored == {"dmode", "vmode", "vnmode", "pipemode", "wi", "rtset", "pipedim", "opts", "cam"}

load_state(st) ==
    LET over(s) == st[s] # w.src[s]
    IN  {"RF_CAM"} \cup (IF over("dmode") THEN {"RF_DMODE"} ELSE {})
            \cup (IF over("vmode") \/ over("wi") THEN {"RF_VMODE"} ELSE {})
            \cup (IF over("pipemode") \/ over("wi") THEN {"RF_SELNODE"} ELSE {})

flyby_end ==
    /\ Used("fmode") /\ w.src["fmode"] = 1
    /\ \E sav_st \in [{s \in Restored : Used(s)} -> 0 .. 1] :
          LET st == [s \in Stored |-> IF s = "fmode" THEN 0
                                      ELSE IF s \in DOMAIN sav_st THEN sav_st[s] ELSE w.src[s]]
              rf == load_state(st)
          IN  step([w EXCEPT !.src = st, !.rf = rf,
                             !.lost = @ \/ ("RF_DMODE" \in w.rf /\ "RF_DMODE" \notin rf)])

gscb_pw_wiadj ==
    Used("wi") /\ step(flag(flip("wi"), {"RF_CAM", "RF_SELNODE", "RF_VMODE"}))

gscb_pw_rt == Used("rtset") /\ step(flag(flip("rtset"), {"RF_DMODE"}))

gscb_pw_keyh == Used("keyh") /\ step(flip("keyh"))

(* ds_setlive()                                                            *)
gscb_pw_dscho ==
    Used("live") /\ step(panel_rebuild(flag(put("live", 1), {"RF_DATASRC"}), {"dscho"}))

(* gscb_pw_dir: flyby_set, dx_set, reel_set and ds_set                     *)
flyby_set == Used("fbfile") /\ step(panel_rebuild(flip("fbfile"), {"fbcho", "fbstat"}))
dx_set    == Used("dxfile") /\ step(panel_rebuild(flip("dxfile"), {"dxcho"}))
reel_set  == Used("reeldir") /\ step(panel_rebuild(flip("reeldir"), {"reel"}))
ds_set ==
    /\ Used("dsdir")
    /\ LET set == [flip("dsdir") EXCEPT !.src["live"] = 0]
       IN  step(panel_rebuild(flag(set, {"RF_DATASRC"}), {"dscho"}))

reel_advance ==
    /\ Used("reelpos")
    /\ step(panel_rebuild(flag([flip("reelpos") EXCEPT !.src["live"] = 0],
                               {"RF_DATASRC"}), {"reel"}))

gscb_pw_snap == Used("capture") /\ step(panel_rebuild(flip("capture"), {"sshot"}))

gscb_pw_vnmode ==
    Used("vnmode") /\ step(panel_rebuild(flag(flip("vnmode"), {"RF_VMODE"}), {"vnmode"}))

gscb_pw_pipedim == Used("pipedim") /\ step(flag(flip("pipedim"), {"RF_SELNODE"}))

(* status_add() and status_pop(); an urgent entry opens the panel and the  *)
(* last one to go closes it.                                               *)
status_add == /\ Used("log")
              /\ \E u \in {w, panel_show(w, "status")} :
                    step(panel_rebuild([u EXCEPT !.src["log"] = 1], {"status"}))

status_pop == /\ Used("log") /\ w.src["log"] = 1
              /\ LET u == panel_rebuild(put("log", 0), {"status"})
                 IN  step(panel_hide(u, "status"))

-----------------------------------------------------------------------------
(* w holds                                                                 *)
(*   src    the values of Stored        list   TAILQ panels, first to last *)
(*   pan    each panel's flags POPT_REMOVE, POPT_REFRESH, POPT_DIRTY, its  *)
(*          text p_str and the text its display list p_dl was made from    *)
(*   clean  selnode_clean, dmode_data_clean, hlnc_clean                    *)
(*   sav    the static copies of the refresh functions                     *)
(*   focus  uinp.uinp_panel             typed  UINPO_DIRTY                 *)
(*   ssl    DSFO_SSL                    rf     st.st_rf                    *)
(*   lost   history: load_state() dropped an RF_DMODE that is still needed *)
World == [src |-> [s \in Stored |-> IF s = "live" THEN 1 ELSE 0], list |-> <<>>,
          pan |-> [p \in group |-> NewPanel], clean |-> [x \in Word |-> {}],
          sav |-> [p \in group |-> NoStr], focus |-> "none", typed |-> FALSE,
          ssl |-> FALSE, rf |-> {}, lost |-> FALSE]

Init == /\ group \in Groups
        /\ w = World
        /\ changes = 0
        /\ fresh = FALSE

Next == \/ frame \/ cocb_fps \/ toggle
        \/ gl_keyh_uinput_type \/ gl_keyh_uinput_escape \/ gl_keyh_uinput_enter
        \/ uinpcb_gotonode \/ uinpcb_gotojob \/ uinpcb_login
        \/ move_camera \/ sn_set \/ gscb_pw_hlnc \/ gscb_pw_dmnc \/ gscb_pw_opt
        \/ gscb_pw_vmode \/ gscb_pw_dmode \/ gscb_pw_help \/ gscb_pw_pipe
        \/ flyby_begin \/ flyby_end \/ gscb_pw_wiadj \/ gscb_pw_rt \/ gscb_pw_keyh
        \/ gscb_pw_dscho \/ flyby_set \/ dx_set \/ reel_set \/ ds_set \/ reel_advance
        \/ gscb_pw_snap \/ gscb_pw_vnmode \/ gscb_pw_pipedim
        \/ status_add \/ status_pop

Spec == Init /\ [][Next]_vars

-----------------------------------------------------------------------------
(* A change of the data mode that load_state() has dropped is not told to  *)
(* the two panels that wait for the classes to be assigned again.          *)
Untold(p, s) == w.lost /\ s = "dmode" /\ p \in {"ninfo", "legend"}

(* After a frame every open panel shows each thing its refresh function    *)
(* watches as it is now, whatever changed since the last frame and however *)
(* the panel learns of it (prefresh.c, main.c:318).                        *)
Fresh ==
    fresh => \A p \in group : Shown(p) =>
        \A s \in Watched(w, p) :
            \/ s \in DOMAIN w.pan[p].str /\ w.pan[p].str[s] = val(w, s)
            \/ Untold(p, s)

(* A panel that is drawn from its display list is drawn as it was last     *)
(* composed: no refresh leaves an old list in use.                         *)
DisplayListCurrent ==
    \A p \in group : Listed(p) /\ ~w.pan[p].dirty /\ w.pan[p].dl # NoStr
                       => w.pan[p].dl = w.pan[p].str

Typing(p) == fresh /\ p = w.focus /\ "buf" \in Reads(w, p)

(* The text panel that has the keyboard shows what has been typed, when it *)
(* is the only text panel in use.                                          *)
TypedShownAlone ==
    \A p \in Uinp : Typing(p) /\ group \cap Uinp = {p}
                      => w.pan[p].str["buf"] = w.src["buf"]
=============================================================================
