----------------------------- MODULE PanelInput -----------------------------
(***************************************************************************)
(* The panels of the xt3dmon window (panel.c) and the text they read from  *)
(* the keyboard (uinp.c, gl_keyh_uinput in key.c).                         *)
(*                                                                         *)
(* A panel is a member of the list "panels"; a panel that is being removed *)
(* stays in the list, flagged POPT_REMOVE, until its animation has left    *)
(* the window.  Panels flagged PIF_UINP take the keyboard when they are    *)
(* added: glutKeyboardFunc(gl_keyh_uinput) and uinp.uinp_panel = p.        *)
(* Every GLUT callback runs to completion, so an action is one callback.   *)
(* The handlers call one another on shared globals; those globals are one  *)
(* record "ui" and each C function is an operator from ui to the next ui.  *)
(***************************************************************************)
EXTENDS Naturals

CONSTANTS
    Panel,       \* the panels of pinfo[] that are modelled
    NoPanel,     \* uinp.uinp_panel == NULL
    Uinp,        \* PIF_UINP: panels that read text
    Linger,      \* UINPO_LINGER: text panels that Enter does not remove
    FbIgn,       \* PIF_FBIGN: panels that panels_set() leaves alone
    Replayable,  \* panels whose recorded id flyby_read() accepts
    Scripted,    \* panels that Deus Ex scripts name
    Login,       \* PANEL_LOGIN, the panel with two prompts
    GotoNode,    \* PANEL_GOTONODE
    Ninfo,       \* PANEL_NINFO
    PanelList,   \* PANEL_PANELS, whose widgets toggle the other panels
    FbStat,      \* PANEL_FLYBY, whose widgets start and stop flybys
    MaxBuf       \* bound: characters typed into one prompt

ASSUME PanelAssumption ==
    /\ NoPanel \notin Panel
    /\ Uinp \subseteq Panel /\ Linger \subseteq Uinp /\ Replayable \subseteq Panel
    /\ Scripted \subseteq Panel
    /\ Uinp \subseteq FbIgn          \* pinfo[]: every PIF_UINP is PIF_FBIGN
    /\ Login \in Uinp /\ Login \in Linger /\ GotoNode \in Uinp \ {Login}
    /\ {Ninfo, PanelList, FbStat} \subseteq Panel \ Uinp
    /\ MaxBuf \in Nat \ {0}

VARIABLES
    ui,          \* the record described at UIState
    fmode,       \* flyby_mode
    authbuf,     \* what authbuf holds; "old" is a user name typed into a
                 \* login panel that has been freed since
    login_auth   \* what login_auth was composed from

vars == <<ui, fmode, authbuf, login_auth>>

(* "gl_keyh_prefix" stands for the handlers that wait for the second key   *)
(* of a two-key command and touch neither panels nor flybys.               *)
Handler == {"gl_keyh_default", "gl_keyh_panel", "gl_keyh_flyby",
            "gl_keyh_prefix", "gl_keyh_uinput", "gl_keyh_actflyby"}

(* popt: a panel is not in the list, in it, or in it with POPT_REMOVE.     *)
UIState == [popt   : [Panel -> {"none", "shown", "remove"}],
            kbd    : Handler,                 \* glutKeyboardFunc()
            focus  : Panel \cup {NoPanel},    \* uinp.uinp_panel
            buf    : 0 .. MaxBuf,             \* length of uinp.uinp_buf
            atpass : BOOLEAN]                 \* POPT_LOGIN_ATPASS of Login

TypeOK ==
    /\ ui \in UIState
    /\ fmode \in {"FBM_OFF", "FBM_PLAY", "FBM_REC"}
    /\ authbuf \in {"empty", "user", "old"}
    /\ login_auth \in {"none", "user:pass", "mixed"}

-----------------------------------------------------------------------------
(* Variants with a plausible mistake; no specification below uses them.    *)

panel_tremove_keeps_focus(u, p) ==
    [u EXCEPT !.popt[p] = IF @ = "remove" THEN "shown" ELSE "remove"]

panel_add_keeps_text(u, p) ==
    [u EXCEPT !.popt = [q \in Panel |-> IF q = p THEN "shown"
                                        ELSE IF q = u.focus /\ p \in Uinp
                                             THEN "remove" ELSE u.popt[q]],
              !.kbd = IF p \in Uinp THEN "gl_keyh_uinput" ELSE @,
              !.focus = IF p \in Uinp THEN p ELSE @,
              !.atpass = IF p = Login THEN FALSE ELSE @]

panel_add_without_memset(u, p) ==
    [u EXCEPT !.popt = [q \in Panel |-> IF q = p THEN "shown"
                                        ELSE IF q = u.focus /\ p \in Uinp
                                             THEN "remove" ELSE u.popt[q]],
              !.kbd = IF p \in Uinp THEN "gl_keyh_uinput" ELSE @,
              !.buf = IF p \in Uinp THEN 0 ELSE @,
              !.focus = IF p \in Uinp THEN p ELSE @]

-----------------------------------------------------------------------------
(* The operations of panel.c, as functions of ui.                          *)

(* Drop what was typed and give the keyboard back.                         *)
release_input(u) ==
    [u EXCEPT !.buf = 0, !.kbd = "gl_keyh_default", !.focus = NoPanel]

grab_input(u, p) == [u EXCEPT !.kbd = "gl_keyh_uinput", !.focus = p]

(* Start the removal of a panel, or call it off.                           *)
panel_tremove(u, p) ==
    LET v == IF p \in Uinp /\ u.focus # NoPanel THEN release_input(u) ELSE u
    IN  [v EXCEPT !.popt[p] = IF @ = "remove" THEN "shown" ELSE "remove"]

(* The "Not found; add." half of panel_toggle.                             *)
panel_add(u, p) ==
    LET dropped == [u EXCEPT !.buf = 0, !.focus = NoPanel]
        v == IF p \in Uinp /\ u.focus # NoPanel
             THEN panel_tremove(dropped, u.focus) ELSE u
        w == IF p \in Uinp THEN grab_input(v, p) ELSE v
    IN  [w EXCEPT !.popt[p] = "shown",
                  !.atpass = IF p = Login THEN FALSE ELSE @]

panel_toggle(u, p) ==
    IF u.popt[p] = "none" THEN panel_add(u, p) ELSE panel_tremove(u, p)

panel_show(u, p) == IF u.popt[p] = "shown" THEN u ELSE panel_toggle(u, p)

(* panels_hide(): panel_hide() on every panel of S, in the order of ids.   *)
(* The first text panel hidden releases the input; the order is not seen.  *)
panels_hide(u, S) ==
    LET hidden == {p \in S : u.popt[p] = "shown"}
        v == IF hidden \cap Uinp # {} /\ u.focus # NoPanel
             THEN release_input(u) ELSE u
    IN  [v EXCEPT !.popt = [p \in Panel |->
                              IF p \in hidden THEN "remove" ELSE u.popt[p]]]

(* panel_toggle() on every panel of S, none of which reads text.           *)
panels_flip(u, S) ==
    [u EXCEPT !.popt = [p \in Panel |->
        IF p \notin S THEN u.popt[p]
        ELSE IF u.popt[p] = "shown" THEN "remove" ELSE "shown"]]

panels_set(u, set) ==
    LET cur  == {p \in Panel : u.popt[p] # "none"}
        diff == (cur \ set) \cup (set \ cur)
    IN  panels_flip(u, diff \ FbIgn)

-----------------------------------------------------------------------------
Init ==
    /\ ui = [popt |-> [p \in Panel |-> "none"], kbd |-> "gl_keyh_default",
             focus |-> NoPanel, buf |-> 0, atpass |-> FALSE]
    /\ fmode = "FBM_OFF"
    /\ authbuf = "empty"
    /\ login_auth = "none"

noauth == UNCHANGED <<authbuf, login_auth>>

(* gl_keyh_default: the keys that install the handler of a two-key command *)
gl_keyh_default ==
    /\ ui.kbd = "gl_keyh_default"
    /\ \E h \in {"gl_keyh_panel", "gl_keyh_flyby", "gl_keyh_prefix"} :
          ui' = [ui EXCEPT !.kbd = h]
    /\ UNCHANGED fmode /\ noauth

gl_keyh_prefix ==
    /\ ui.kbd = "gl_keyh_prefix"
    /\ ui' = [ui EXCEPT !.kbd = "gl_keyh_default"]
    /\ UNCHANGED fmode /\ noauth

(* gl_keyh_panel: '0' hides all panels, 'a' toggles the ones that do not   *)
(* read text, a panel's own key toggles it, any other key does nothing.    *)
gl_keyh_panel ==
    LET u == [ui EXCEPT !.kbd = "gl_keyh_default"]
    IN  /\ ui.kbd = "gl_keyh_panel"
        /\ \/ ui' = panels_hide(u, Panel)
           \/ ui' = panels_flip(u, Panel \ Uinp)
           \/ \E p \in Panel : ui' = panel_toggle(u, p)
           \/ ui' = u
        /\ UNCHANGED fmode /\ noauth

-----------------------------------------------------------------------------
(* gl_keyh_uinput, one action per key.  Tab only moves the panel.          *)

uinput_type ==
    /\ ui.kbd = "gl_keyh_uinput" /\ ui.buf < MaxBuf
    /\ ui' = [ui EXCEPT !.buf = @ + 1]
    /\ UNCHANGED fmode /\ noauth

uinput_backspace ==
    /\ ui.kbd = "gl_keyh_uinput" /\ ui.buf > 0
    /\ ui' = [ui EXCEPT !.buf = @ - 1]
    /\ UNCHANGED fmode /\ noauth

uinput_escape ==
    /\ ui.kbd = "gl_keyh_uinput"
    /\ ui' = panel_tremove(release_input(ui), ui.focus)
    /\ UNCHANGED fmode /\ noauth

(* The Enter key before its callback, and after it.                        *)
enter_begin == [ui EXCEPT !.kbd = "gl_keyh_default", !.focus = NoPanel]

enter_done(u, p) ==
    LET v == [u EXCEPT !.buf = 0]
    IN  IF p \in Linger THEN v ELSE panel_tremove(v, p)

(* Callbacks that touch neither panels nor the login state; uinpcb_gotonode *)
(* ends here too when the text names no node.                              *)
uinput_enter ==
    /\ ui.kbd = "gl_keyh_uinput" /\ ui.focus # Login
    /\ ui' = enter_done(enter_begin, ui.focus)
    /\ UNCHANGED fmode /\ noauth

uinpcb_gotonode ==
    /\ ui.kbd = "gl_keyh_uinput" /\ ui.focus = GotoNode /\ ui.buf > 0
    /\ ui' = enter_done(panel_show(enter_begin, Ninfo), GotoNode)
    /\ UNCHANGED fmode /\ noauth

(* uinpcb_login at the first prompt: an empty name resets the credentials  *)
(* and closes the panel, a name moves on to the password prompt.           *)
uinpcb_login_user ==
    /\ ui.kbd = "gl_keyh_uinput" /\ ui.focus = Login /\ ~ui.atpass
    /\ \/ /\ ui.buf = 0
          /\ ui' = enter_done(panel_tremove(enter_begin, Login), Login)
          /\ UNCHANGED authbuf
       \/ /\ ui.buf > 0
          /\ ui' = enter_done([grab_input(enter_begin, Login)
                                 EXCEPT !.atpass = TRUE], Login)
          /\ authbuf' = "user"
    /\ login_auth' = "none"
    /\ UNCHANGED fmode

(* uinpcb_login at the password prompt: "user:pass" is encoded when it     *)
(* fits login_auth, and authbuf is erased.                                 *)
uinpcb_login_pass ==
    /\ ui.kbd = "gl_keyh_uinput" /\ ui.focus = Login /\ ui.atpass
    /\ ui' = enter_done(panel_tremove(enter_begin, Login), Login)
    /\ \/ login_auth' = IF authbuf = "user" THEN "user:pass" ELSE "mixed"
       \/ UNCHANGED login_auth
    /\ authbuf' = "empty"
    /\ UNCHANGED fmode

-----------------------------------------------------------------------------
(* Flybys take the keyboard as well.                                       *)

flyby_begin_play(u) ==
    /\ fmode = "FBM_OFF" /\ fmode' = "FBM_PLAY"
    /\ ui' = [u EXCEPT !.kbd = "gl_keyh_actflyby"]

flyby_begin_rec(u) == fmode = "FBM_OFF" /\ fmode' = "FBM_REC" /\ ui' = u

flyby_end(u) ==
    /\ fmode' = "FBM_OFF"
    /\ ui' = IF fmode = "FBM_PLAY"
             THEN [u EXCEPT !.kbd = "gl_keyh_default"] ELSE u

gl_keyh_flyby ==
    LET u == [ui EXCEPT !.kbd = "gl_keyh_default"]
    IN  /\ ui.kbd = "gl_keyh_flyby"
        /\ \/ flyby_begin_play(u)
           \/ flyby_begin_rec(u)
           \/ fmode # "FBM_OFF" /\ flyby_end(u)
           \/ ui' = u /\ UNCHANGED fmode
        /\ noauth

(* Any key but space while a flyby is played back.                         *)
gl_keyh_actflyby ==
    /\ ui.kbd = "gl_keyh_actflyby" /\ flyby_end(ui) /\ noauth

(* cocb_autoto: the idle timer starts a playback, whatever has the input.  *)
cocb_autoto == flyby_begin_play(ui) /\ noauth

(* flyby_read: an initial record restores the panels recorded in it, a     *)
(* panel record toggles one, the end of the file ends a flyby that does    *)
(* not loop.                                                               *)
flyby_read_init(S) ==
    /\ fmode = "FBM_PLAY" /\ ui' = panels_set(ui, S)
    /\ UNCHANGED fmode /\ noauth

flyby_read_panel ==
    /\ fmode = "FBM_PLAY"
    /\ \E p \in Replayable : ui' = panel_toggle(ui, p)
    /\ UNCHANGED fmode /\ noauth

flyby_read_eof == fmode = "FBM_PLAY" /\ flyby_end(ui) /\ noauth

-----------------------------------------------------------------------------
(* The mouse, which a playback disables (gl_mouseh_null), and the drawing. *)

gscb_pw_panel ==
    /\ fmode # "FBM_PLAY" /\ ui.popt[PanelList] # "none"
    /\ \E p \in Panel : ui' = panel_toggle(ui, p)
    /\ UNCHANGED fmode /\ noauth

gscb_pw_fb ==
    /\ fmode # "FBM_PLAY" /\ ui.popt[FbStat] # "none"
    /\ flyby_begin_play(ui) \/ flyby_begin_rec(ui) \/ flyby_end(ui)
    /\ noauth

(* Selecting nodes shows PANEL_NINFO, selecting none hides it.             *)
sn_insert ==
    /\ fmode # "FBM_PLAY" /\ ui' = panel_show(ui, Ninfo)
    /\ UNCHANGED fmode /\ noauth

sn_clear ==
    /\ fmode # "FBM_PLAY" /\ ui' = panels_hide(ui, {Ninfo})
    /\ UNCHANGED fmode /\ noauth

(* dxp_panel: a line of a Deus Ex script shows panels, one after the other, *)
(* hides some, or sets which are shown.                                    *)
dxp_panel ==
    /\ \/ \E p \in Scripted : ui' = panel_show(ui, p)
       \/ \E S \in SUBSET Scripted : ui' = panels_hide(ui, S) \/ ui' = panels_set(ui, S)
    /\ UNCHANGED fmode /\ noauth

(* panel_draw: a removed panel that has left the window is freed, and its  *)
(* flags with it.                                                          *)
panel_free(p) ==
    /\ ui.popt[p] = "remove"
    /\ ui' = [ui EXCEPT !.popt[p] = "none"]
    /\ authbuf' = IF p = Login /\ authbuf = "user" THEN "old" ELSE authbuf
    /\ UNCHANGED <<fmode, login_auth>>

Next ==
    \/ gl_keyh_default \/ gl_keyh_prefix \/ gl_keyh_panel
    \/ uinput_type \/ uinput_backspace \/ uinput_escape \/ uinput_enter
    \/ uinpcb_gotonode \/ uinpcb_login_user \/ uinpcb_login_pass
    \/ gl_keyh_flyby \/ gl_keyh_actflyby \/ cocb_autoto
    \/ \E S \in SUBSET Panel : flyby_read_init(S)
    \/ flyby_read_panel \/ flyby_read_eof
    \/ gscb_pw_panel \/ gscb_pw_fb \/ sn_insert \/ sn_clear \/ dxp_panel
    \/ \E p \in Panel : panel_free(p)

Spec == Init /\ [][Next]_vars

-----------------------------------------------------------------------------
(* The panel with the input is in the list and is not on its way out, so   *)
(* uinp.uinp_panel never points at freed memory and Enter or Escape, which *)
(* hand it to panel_tremove(), always start a removal and never call one   *)
(* off (panel_tremove, panel_toggle and gl_keyh_uinput).                   *)
FocusShown ==
    ui.focus # NoPanel => ui.focus \in Uinp /\ ui.popt[ui.focus] = "shown"

(* gl_keyh_uinput dereferences uinp.uinp_panel without a check: whenever   *)
(* it is the keyboard handler some panel has the input.                    *)
HandlerHasPanel == ui.kbd = "gl_keyh_uinput" => ui.focus # NoPanel

(* Text is kept only for the panel it was typed into: without one the      *)
(* buffer is empty (every path that clears uinp_panel resets uinp_buf).    *)
NoOrphanText == ui.focus = NoPanel => ui.buf = 0

(* Text typed into one panel is never seen by another: the buffer is empty *)
(* after every step in which the input changes hands.                      *)
TextNeverMoves == [][ui'.focus # ui.focus => ui'.buf = 0]_vars

(* Credentials are only composed of a name and a password typed into the   *)
(* same login panel, even if an earlier login was broken off between the   *)
(* two prompts (POPT_LOGIN_ATPASS and authbuf in uinpcb_login).            *)
LoginAuthWhole == login_auth # "mixed"

(* A key other than space breaks out of a playback: while one runs,        *)
(* gl_keyh_actflyby has the keyboard.                                      *)
PlaybackKeyBreaks == fmode = "FBM_PLAY" => ui.kbd = "gl_keyh_actflyby"
=============================================================================
