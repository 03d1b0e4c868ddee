-------------------------- MODULE PanelInputProofs --------------------------
(***************************************************************************)
(* Proofs about PanelInput, for any set of panels and any prompt length.   *)
(*                                                                         *)
(* The argument follows the call graph of panel.c.  UOk is what every      *)
(* operation keeps of the shared record, UText what every callback has     *)
(* restored when it returns, and AtPassword(u) says the password prompt    *)
(* has the input, which only uinpcb_login makes true.  One lemma per       *)
(* operation says so; one step per callback puts them together.            *)
(***************************************************************************)
EXTENDS PanelInput, TLAPS

UOk(u) ==
    /\ u \in UIState
    /\ u.focus # NoPanel => u.focus \in Uinp /\ u.popt[u.focus] = "shown"
    /\ u.kbd = "gl_keyh_uinput" => u.focus # NoPanel

UText(u) == u.focus = NoPanel => u.buf = 0

AtPassword(u) == u.focus = Login /\ u.atpass = TRUE

(* What an operation from u to v keeps: v is in order, text is not         *)
(* orphaned if it was not, text does not follow the input to another       *)
(* panel, and the password prompt is not given the input.                  *)
Keeps(u, v) ==
    /\ UOk(v)
    /\ UText(u) => UText(v) /\ (v.focus # u.focus => v.buf = 0)
    /\ AtPassword(v) => AtPassword(u)

(* The inductive invariant.                                                *)
IInv ==
    /\ TypeOK
    /\ UOk(ui)
    /\ UText(ui)
    /\ AtPassword(ui) => authbuf = "user"
    /\ LoginAuthWhole

-----------------------------------------------------------------------------
(* An empty buffer is within the bound.                                    *)
LEMMA EmptyBuf == 0 \in 0 .. MaxBuf
  BY PanelAssumption

(* The panels named by constants are panels.                               *)
LEMMA NamedPanels ==
    /\ Login \in Panel /\ Login # NoPanel
    /\ Ninfo \in Panel \ Uinp
    /\ Uinp \subseteq Panel /\ NoPanel \notin Uinp
    /\ Replayable \subseteq Panel
  BY PanelAssumption

(* Releasing the input stays in the type of the record.                    *)
LEMMA ReleaseType ==
    ASSUME NEW u \in UIState
    PROVE  release_input(u) \in UIState
  BY EmptyBuf DEF release_input, UIState, Handler

(* What a removal changes: the flag of its own panel and, when a text panel *)
(* goes away while some panel has the input, who has the input.            *)
LEMMA TremoveFrame ==
    ASSUME NEW u \in UIState, NEW p \in Panel
    PROVE  LET v == panel_tremove(u, p)
           IN  /\ v \in UIState
               /\ v.atpass = u.atpass
               /\ p \in Uinp /\ u.focus # NoPanel =>
                     /\ v.focus = NoPanel /\ v.buf = 0
                     /\ v.kbd = "gl_keyh_default"
               /\ ~(p \in Uinp /\ u.focus # NoPanel) =>
                     v.focus = u.focus /\ v.buf = u.buf /\ v.kbd = u.kbd
               /\ \A q \in Panel \ {p} : v.popt[q] = u.popt[q]
  <1>1. \A v \in UIState :
           [v EXCEPT !.popt[p] = IF @ = "remove" THEN "shown" ELSE "remove"]
               \in UIState
    BY DEF UIState
  <1>2. panel_tremove(u, p) \in UIState
    BY <1>1, ReleaseType DEF panel_tremove
  <1>3. QED BY <1>2 DEF panel_tremove, release_input, UIState

(* Removing a panel, or calling the removal off, keeps the record in order *)
(* because a text panel that goes away releases the input first.           *)
LEMMA TremoveKeeps ==
    ASSUME NEW u, NEW p \in Panel, UOk(u)
    PROVE  Keeps(u, panel_tremove(u, p))
  <1> DEFINE v == panel_tremove(u, p)
  <1>0. u \in UIState
    BY DEF UOk
  <1>1. /\ v \in UIState
        /\ v.atpass = u.atpass
        /\ p \in Uinp /\ u.focus # NoPanel =>
              /\ v.focus = NoPanel /\ v.buf = 0
              /\ v.kbd = "gl_keyh_default"
        /\ ~(p \in Uinp /\ u.focus # NoPanel) =>
              v.focus = u.focus /\ v.buf = u.buf /\ v.kbd = u.kbd
        /\ \A q \in Panel \ {p} : v.popt[q] = u.popt[q]
    BY <1>0, TremoveFrame
  <1> HIDE DEF v
  <1>2. Keeps(u, v)
    <2>1. CASE p \in Uinp /\ u.focus # NoPanel
      BY <1>1, <2>1, NamedPanels DEF Keeps, UOk, UText, AtPassword
    <2>2. CASE ~(p \in Uinp /\ u.focus # NoPanel)
      <3>1. u.focus # NoPanel => u.focus \in Panel \ {p}
        BY <1>0, <2>2 DEF UOk, UIState
      <3>2. UOk(v)
        BY <1>1, <2>2, <3>1 DEF UOk
      <3>3. QED
        BY <1>1, <2>2, <3>2 DEF Keeps, UText, AtPassword
    <2>3. QED BY <2>1, <2>2
  <1>3. QED BY <1>2 DEF v

(* Adding a panel: a text panel takes the input from the one that had it,  *)
(* which goes away with its text.                                          *)
LEMMA AddKeeps ==
    ASSUME NEW u, NEW p \in Panel, UOk(u), u.popt[p] = "none"
    PROVE  Keeps(u, panel_add(u, p))
  <1>0. u \in UIState
    BY DEF UOk
  <1> DEFINE dropped == [u EXCEPT !.buf = 0, !.focus = NoPanel]
             v == IF p \in Uinp /\ u.focus # NoPanel
                  THEN panel_tremove(dropped, u.focus) ELSE u
             w == IF p \in Uinp THEN grab_input(v, p) ELSE v
             x == [w EXCEPT !.popt[p] = "shown",
                            !.atpass = IF p = Login THEN FALSE ELSE @]
  <1>1. dropped \in UIState /\ dropped.focus = NoPanel /\ dropped.buf = 0
    BY <1>0, EmptyBuf DEF UIState
  <1>2. u.focus # NoPanel => u.focus \in Panel
    BY <1>0 DEF UIState
  <1>3. v \in UIState
    BY <1>0, <1>1, <1>2, TremoveFrame
  <1>4. /\ p \in Uinp /\ u.focus # NoPanel => v.focus = NoPanel /\ v.buf = 0
        /\ ~(p \in Uinp /\ u.focus # NoPanel) => v = u
    BY <1>1, <1>2, TremoveFrame
  <1> HIDE DEF v, dropped
  <1>5. w \in UIState
    BY <1>3 DEF grab_input, UIState, Handler
  <1>6. /\ p \in Uinp => w.focus = p /\ w.buf = v.buf /\ w.atpass = v.atpass
        /\ p \notin Uinp => w = u
    BY <1>3, <1>4 DEF grab_input, UIState
  <1> HIDE DEF w
  <1>7. x \in UIState
    BY <1>5 DEF UIState
  <1>8. /\ x.focus = w.focus /\ x.buf = w.buf /\ x.kbd = w.kbd
        /\ x.popt[p] = "shown"
        /\ \A q \in Panel \ {p} : x.popt[q] = w.popt[q]
        /\ p = Login => ~x.atpass
        /\ p # Login => x.atpass = w.atpass
    BY <1>5 DEF UIState
  <1>9. panel_add(u, p) = x
    BY DEF panel_add, w, v, dropped
  <1> HIDE DEF x
  <1>10. Keeps(u, x)
    <2>1. CASE p \in Uinp
      <3>1. x.focus = p /\ p # NoPanel
        BY <2>1, <1>6, <1>8, PanelAssumption
      <3>2. x.buf = IF u.focus # NoPanel THEN 0 ELSE u.buf
        BY <2>1, <1>4, <1>6, <1>8
      <3>3. u.focus = NoPanel => x.buf = u.buf
        BY <3>2
      <3>4. UOk(x)
        BY <2>1, <3>1, <1>7, <1>8 DEF UOk
      <3>5. UText(u) => x.buf = 0
        BY <3>2 DEF UText
      <3>6. ~AtPassword(x)
        <4>1. CASE p = Login
          BY <4>1, <1>8 DEF AtPassword
        <4>2. CASE p # Login
          BY <4>2, <3>1 DEF AtPassword
        <4>3. QED BY <4>1, <4>2
      <3>7. QED
        BY <3>1, <3>4, <3>5, <3>6 DEF Keeps, UText
    <2>2. CASE p \notin Uinp
      <3>1. /\ x.focus = u.focus /\ x.buf = u.buf /\ x.kbd = u.kbd
            /\ x.atpass = u.atpass
        BY <2>2, <1>6, <1>8, PanelAssumption
      <3>2. UOk(x)
        <4>1. u.focus # NoPanel => u.focus \in Panel \ {p}
          BY <2>2, <1>2 DEF UOk
        <4>2. QED
          BY <4>1, <3>1, <2>2, <1>6, <1>7, <1>8 DEF UOk
      <3>3. QED
        BY <3>1, <3>2 DEF Keeps, UText, AtPassword
    <2>3. QED BY <2>1, <2>2
  <1>11. QED BY <1>9, <1>10

(* Toggling a panel is one of the two.                                     *)
LEMMA ToggleKeeps ==
    ASSUME NEW u, NEW p \in Panel, UOk(u)
    PROVE  Keeps(u, panel_toggle(u, p))
  <1>1. CASE u.popt[p] = "none"
    BY <1>1, AddKeeps DEF panel_toggle
  <1>2. CASE u.popt[p] # "none"
    BY <1>2, TremoveKeeps DEF panel_toggle
  <1>3. QED BY <1>1, <1>2

LEMMA ShowKeeps ==
    ASSUME NEW u, NEW p \in Panel, UOk(u)
    PROVE  Keeps(u, panel_show(u, p))
  <1>1. CASE u.popt[p] = "shown"
    BY <1>1 DEF panel_show, Keeps
  <1>2. CASE u.popt[p] # "shown"
    BY <1>2, ToggleKeeps DEF panel_show
  <1>3. QED BY <1>1, <1>2

(* Hiding several panels: if the one with the input is among them, a text  *)
(* panel is hidden and the input released.                                 *)
LEMMA HideKeeps ==
    ASSUME NEW u, NEW S \in SUBSET Panel, UOk(u)
    PROVE  Keeps(u, panels_hide(u, S))
  <1> DEFINE hidden == {p \in S : u.popt[p] = "shown"}
             releases == hidden \cap Uinp # {} /\ u.focus # NoPanel
             v == IF releases THEN release_input(u) ELSE u
             f == [p \in Panel |-> IF p \in hidden THEN "remove" ELSE u.popt[p]]
             x == [v EXCEPT !.popt = f]
  <1>0. u \in UIState
    BY DEF UOk
  <1>1. /\ v \in UIState
        /\ v.atpass = u.atpass
        /\ releases => /\ v.focus = NoPanel /\ v.buf = 0
                       /\ v.kbd = "gl_keyh_default"
        /\ ~releases => v = u
    BY <1>0, ReleaseType DEF release_input, UIState
  <1>2. u.focus # NoPanel /\ u.focus \in hidden => releases
    BY DEF UOk
  <1>3. f \in [Panel -> {"none", "shown", "remove"}]
    BY <1>0 DEF UIState
  <1>4. \A q \in Panel \ hidden : f[q] = u.popt[q]
    OBVIOUS
  <1>5. panels_hide(u, S) = x
    BY DEF panels_hide
  <1> HIDE DEF f, v, hidden, releases
  <1>6. /\ x \in UIState
        /\ x.focus = v.focus /\ x.buf = v.buf /\ x.kbd = v.kbd
        /\ x.atpass = v.atpass /\ x.popt = f
    BY <1>1, <1>3 DEF UIState
  <1> HIDE DEF x
  <1>7. Keeps(u, x)
    <2>1. CASE releases
      BY <1>1, <1>6, <2>1, NamedPanels DEF Keeps, UOk, UText, AtPassword
    <2>2. CASE ~releases
      <3>1. u.focus # NoPanel => u.focus \in Panel \ hidden
        BY <1>0, <1>2, <2>2 DEF UIState
      <3>2. UOk(x)
        BY <1>1, <1>4, <1>6, <2>2, <3>1 DEF UOk
      <3>3. QED
        BY <1>1, <1>6, <2>2, <3>2 DEF Keeps, UText, AtPassword
    <2>3. QED BY <2>1, <2>2
  <1>8. QED BY <1>5, <1>7

(* Toggling panels that do not read text concerns nobody's input.          *)
LEMMA FlipKeeps ==
    ASSUME NEW u, NEW S \in SUBSET (Panel \ Uinp), UOk(u)
    PROVE  /\ Keeps(u, panels_flip(u, S))
           /\ panels_flip(u, S).kbd = u.kbd
  <1> DEFINE f == [p \in Panel |->
                     IF p \notin S THEN u.popt[p]
                     ELSE IF u.popt[p] = "shown" THEN "remove" ELSE "shown"]
             x == [u EXCEPT !.popt = f]
  <1>0. u \in UIState
    BY DEF UOk
  <1>1. f \in [Panel -> {"none", "shown", "remove"}]
    BY <1>0 DEF UIState
  <1>2. \A q \in Uinp : f[q] = u.popt[q]
    BY NamedPanels
  <1>3. panels_flip(u, S) = x
    BY DEF panels_flip
  <1> HIDE DEF f
  <1>4. /\ x \in UIState
        /\ x.focus = u.focus /\ x.buf = u.buf /\ x.kbd = u.kbd
        /\ x.atpass = u.atpass /\ x.popt = f
    BY <1>0, <1>1 DEF UIState
  <1> HIDE DEF x
  <1>5. UOk(x)
    BY <1>2, <1>4 DEF UOk
  <1>6. QED
    BY <1>3, <1>4, <1>5 DEF Keeps, UText, AtPassword

LEMMA SetKeeps ==
    ASSUME NEW u, NEW S, UOk(u), S \subseteq Panel
    PROVE  /\ Keeps(u, panels_set(u, S))
           /\ panels_set(u, S).kbd = u.kbd
  <1> DEFINE cur == {p \in Panel : u.popt[p] # "none"}
             diff == (cur \ S) \cup (S \ cur)
  <1>1. diff \ FbIgn \in SUBSET (Panel \ Uinp)
    BY PanelAssumption
  <1>2. panels_set(u, S) = panels_flip(u, diff \ FbIgn)
    BY DEF panels_set
  <1> HIDE DEF diff
  <1>3. QED BY <1>1, <1>2, FlipKeeps

(* After the callback of Enter the buffer is emptied, so whatever the      *)
(* callback did with the input the text is not left behind.                *)
LEMMA EnterDoneKeeps ==
    ASSUME NEW u, NEW p \in Panel, UOk(u)
    PROVE  /\ UOk(enter_done(u, p))
           /\ UText(enter_done(u, p))
           /\ enter_done(u, p).focus # u.focus => enter_done(u, p).buf = 0
           /\ u.focus = NoPanel \/ p \in Linger => enter_done(u, p).buf = 0
           /\ AtPassword(enter_done(u, p)) => AtPassword(u)
  <1> DEFINE v == [u EXCEPT !.buf = 0]
  <1>1. /\ v \in UIState /\ v.buf = 0
        /\ v.focus = u.focus /\ v.kbd = u.kbd /\ v.popt = u.popt
        /\ v.atpass = u.atpass
    BY EmptyBuf DEF UOk, UIState
  <1> HIDE DEF v
  <1>2. UOk(v) /\ UText(v)
    BY <1>1 DEF UOk, UText
  <1>3. CASE p \in Linger
    <2>1. enter_done(u, p) = v
      BY <1>3 DEF enter_done, v
    <2>2. QED BY <1>1, <1>2, <2>1 DEF AtPassword
  <1>4. CASE p \notin Linger
    <2>1. enter_done(u, p) = panel_tremove(v, p)
      BY <1>4 DEF enter_done, v
    <2>2. Keeps(v, panel_tremove(v, p))
      BY <1>2, TremoveKeeps
    <2>3. u.focus = NoPanel => panel_tremove(v, p).buf = 0
      BY <1>1, TremoveFrame
    <2>4. QED BY <1>1, <1>2, <1>4, <2>1, <2>2, <2>3 DEF Keeps, AtPassword
  <1>5. QED BY <1>3, <1>4

-----------------------------------------------------------------------------
(* What a callback leaves: the record in order, no orphaned text, no text  *)
(* carried to another panel.                                               *)
Leaves(u, v) ==
    /\ UOk(v) /\ UText(v)
    /\ v.focus # u.focus => v.buf = 0

(* Changing only the keyboard handler, to one other than gl_keyh_uinput.   *)
LEMMA HandlerKeeps ==
    ASSUME NEW u, NEW h \in Handler \ {"gl_keyh_uinput"}, UOk(u)
    PROVE  Keeps(u, [u EXCEPT !.kbd = h])
  <1> DEFINE v == [u EXCEPT !.kbd = h]
  <1>1. /\ v \in UIState /\ v.kbd = h
        /\ v.focus = u.focus /\ v.buf = u.buf /\ v.popt = u.popt
        /\ v.atpass = u.atpass
    BY DEF UOk, UIState
  <1> HIDE DEF v
  <1>2. Keeps(u, v)
    BY <1>1 DEF Keeps, UOk, UText, AtPassword
  <1>3. QED BY <1>2 DEF v

(* A key of the handlers that wait for it: two operations in a row.        *)
LEMMA KeepsTrans ==
    ASSUME NEW u, NEW v, NEW w, Keeps(u, v), Keeps(v, w), UText(u),
           v.focus = u.focus
    PROVE  Keeps(u, w)
  BY DEF Keeps

LEMMA EnterBegin ==
    ASSUME UOk(ui)
    PROVE  /\ UOk(enter_begin)
           /\ enter_begin.focus = NoPanel
           /\ enter_begin.popt = ui.popt
           /\ enter_begin.kbd = "gl_keyh_default"
  <1>1. /\ enter_begin \in UIState
        /\ enter_begin.focus = NoPanel
        /\ enter_begin.popt = ui.popt
        /\ enter_begin.kbd = "gl_keyh_default"
    BY DEF UOk, UIState, Handler, enter_begin
  <1>2. QED BY <1>1 DEF UOk

-----------------------------------------------------------------------------
LEMMA InitInv == Init => IInv
  <1> SUFFICES ASSUME Init PROVE IInv
    OBVIOUS
  <1>1. ui \in UIState
    BY EmptyBuf DEF Init, UIState, Handler
  <1>2. UOk(ui) /\ UText(ui) /\ ~AtPassword(ui)
    BY <1>1, NamedPanels DEF Init, UOk, UText, AtPassword
  <1>3. QED BY <1>1, <1>2 DEF Init, IInv, TypeOK, LoginAuthWhole

(* The callbacks that change the panels and nothing else.                  *)
LEMMA QuietStep ==
    ASSUME IInv, fmode' \in {"FBM_OFF", "FBM_PLAY", "FBM_REC"},
           UNCHANGED <<authbuf, login_auth>>, Keeps(ui, ui')
    PROVE  IInv' /\ (ui'.focus # ui.focus => ui'.buf = 0)
  <1>1. UOk(ui)' /\ UText(ui)' /\ (AtPassword(ui)' => AtPassword(ui))
    BY DEF IInv, Keeps, UOk, UText, AtPassword
  <1>2. TypeOK'
    BY <1>1 DEF IInv, TypeOK, UOk
  <1>3. QED
    BY <1>1, <1>2 DEF IInv, Keeps, LoginAuthWhole

(* The Enter key: four outcomes, all ending in enter_done.                 *)
LEMMA EnterStep ==
    ASSUME IInv,
           \/ uinput_enter \/ uinpcb_gotonode
           \/ uinpcb_login_user \/ uinpcb_login_pass
    PROVE  IInv' /\ (ui'.focus # ui.focus => ui'.buf = 0)
  <1> DEFINE e == enter_begin
  <1>1. /\ UOk(e) /\ e.focus = NoPanel
        /\ e.popt = ui.popt /\ e.kbd = "gl_keyh_default"
    BY EnterBegin DEF IInv
  <1> HIDE DEF e
  <1>2. /\ UOk(ui) /\ UText(ui) /\ (AtPassword(ui) => authbuf = "user")
        /\ ui \in UIState /\ LoginAuthWhole
        /\ fmode \in {"FBM_OFF", "FBM_PLAY", "FBM_REC"}
        /\ authbuf \in {"empty", "user", "old"}
        /\ login_auth \in {"none", "user:pass", "mixed"}
    BY DEF IInv, TypeOK
  <1>3. ui.kbd = "gl_keyh_uinput" =>
           ui.focus \in Uinp /\ ui.focus \in Panel /\ ui.popt[ui.focus] = "shown"
    BY <1>2, NamedPanels DEF UOk
  \* every outcome with the input released ends the same way
  <1>4. ASSUME NEW u, NEW p \in Panel, UOk(u), u.focus = NoPanel,
               ui' = enter_done(u, p)
        PROVE  /\ UOk(ui') /\ UText(ui') /\ ~AtPassword(ui')
               /\ ui'.focus # ui.focus => ui'.buf = 0
    <2>1. ~AtPassword(u)
      BY <1>4, NamedPanels DEF AtPassword
    <2>2. QED
      BY <1>4, <2>1, EnterDoneKeeps
  <1>5. ASSUME UOk(ui'), UText(ui'), ~AtPassword(ui') \/ authbuf' = "user",
               UNCHANGED fmode, authbuf' \in {"empty", "user", "old"},
               login_auth' \in {"none", "user:pass"}
        PROVE  IInv'
    <2>1. UOk(ui)' /\ UText(ui)' /\ (AtPassword(ui)' => authbuf' = "user")
      BY <1>5 DEF UOk, UText, AtPassword
    <2>2. ui' \in UIState
      BY <1>5 DEF UOk
    <2>3. QED
      BY <1>2, <1>5, <2>1, <2>2 DEF IInv, TypeOK, LoginAuthWhole
  <1>6. login_auth \in {"none", "user:pass"}
    BY <1>2 DEF LoginAuthWhole
  <1>7. CASE uinput_enter
    <2>1. ui.focus \in Panel /\ ui' = enter_done(e, ui.focus)
      BY <1>3, <1>7 DEF uinput_enter, e
    <2>2. QED
      BY <1>1, <1>2, <1>4, <1>5, <1>6, <1>7, <2>1 DEF uinput_enter, noauth
  <1>8. CASE uinpcb_gotonode
    <2> DEFINE u == panel_show(e, Ninfo)
    <2>1. GotoNode \in Panel /\ ui' = enter_done(u, GotoNode)
      BY <1>3, <1>8 DEF uinpcb_gotonode, e
    <2>2. UOk(u) /\ u.focus = NoPanel
      <3>1. Keeps(e, u)
        BY <1>1, NamedPanels, ShowKeeps
      <3>2. panel_tremove(e, Ninfo).focus = NoPanel
        BY <1>1, NamedPanels, TremoveFrame DEF UOk
      <3>3. panel_add(e, Ninfo).focus = NoPanel
        BY <1>1, NamedPanels DEF panel_add, UOk, UIState
      <3>4. u.focus = NoPanel
        BY <1>1, <3>2, <3>3 DEF panel_show, panel_toggle
      <3>5. QED BY <3>1, <3>4 DEF Keeps
    <2> HIDE DEF u
    <2>3. QED
      BY <1>2, <1>4, <1>5, <1>6, <1>8, <2>1, <2>2 DEF uinpcb_gotonode, noauth
  <1>9. CASE uinpcb_login_pass
    <2> DEFINE u == panel_tremove(e, Login)
    <2>1. ui' = enter_done(u, Login)
      BY <1>9 DEF uinpcb_login_pass, e
    <2>2. UOk(u) /\ u.focus = NoPanel
      <3>1. Keeps(e, u)
        BY <1>1, NamedPanels, TremoveKeeps
      <3>2. u.focus = NoPanel
        BY <1>1, NamedPanels, TremoveFrame DEF UOk
      <3>3. QED BY <3>1, <3>2 DEF Keeps
    <2> HIDE DEF u
    <2>3. AtPassword(ui)
      BY <1>9, <1>2 DEF uinpcb_login_pass, AtPassword, UIState
    <2>4. login_auth' \in {"none", "user:pass"}
      BY <1>2, <1>6, <1>9, <2>3 DEF uinpcb_login_pass
    <2>5. authbuf' = "empty" /\ UNCHANGED fmode
      BY <1>9 DEF uinpcb_login_pass
    <2>6. QED
      BY <1>4, <1>5, <2>1, <2>2, <2>4, <2>5, NamedPanels
  <1>10. CASE uinpcb_login_user
    <2>1. CASE ui.buf = 0 /\ UNCHANGED authbuf /\
               ui' = enter_done(panel_tremove(enter_begin, Login), Login)
      <3> DEFINE u == panel_tremove(e, Login)
      <3>1. Keeps(e, u)
        BY <1>1, NamedPanels, TremoveKeeps
      <3>2. u.focus = NoPanel
        BY <1>1, NamedPanels, TremoveFrame DEF UOk
      <3>3. UOk(u) /\ ui' = enter_done(u, Login)
        BY <2>1, <3>1 DEF Keeps, e
      <3> HIDE DEF u
      <3>4. login_auth' = "none" /\ UNCHANGED fmode
        BY <1>10 DEF uinpcb_login_user
      <3>5. QED
        BY <1>2, <1>4, <1>5, <2>1, <3>2, <3>3, <3>4, NamedPanels
    <2>2. CASE /\ ui.buf > 0 /\ authbuf' = "user"
               /\ ui' = enter_done([grab_input(enter_begin, Login)
                                      EXCEPT !.atpass = TRUE], Login)
      <3> DEFINE u == [grab_input(e, Login) EXCEPT !.atpass = TRUE]
      <3>1. e.popt[Login] = "shown" /\ ui.focus = Login
        BY <1>1, <1>3, <1>10 DEF uinpcb_login_user
      <3>2. /\ u \in UIState /\ u.focus = Login /\ u.popt = e.popt
        BY <1>1, NamedPanels DEF UOk, UIState, grab_input, Handler
      <3>3. UOk(u)
        BY <3>1, <3>2, NamedPanels, PanelAssumption DEF UOk
      <3>4. ui' = enter_done(u, Login)
        BY <2>2 DEF e
      <3> HIDE DEF u
      <3>5. /\ UOk(ui') /\ UText(ui')
            /\ ui'.focus # ui.focus => ui'.buf = 0
        <4>1. Login \in Panel /\ Login \in Linger
          BY NamedPanels, PanelAssumption
        <4>2. QED BY <3>1, <3>3, <3>4, <4>1, EnterDoneKeeps
      <3>6. login_auth' = "none" /\ UNCHANGED fmode
        BY <1>10 DEF uinpcb_login_user
      <3>7. QED
        BY <1>5, <2>2, <3>5, <3>6
    <2>3. QED
      BY <1>10, <2>1, <2>2 DEF uinpcb_login_user
  <1>11. QED
    BY <1>7, <1>8, <1>9, <1>10

(* Every callback keeps the invariant and moves no text.                   *)
LEMMA NextInv ==
    ASSUME IInv, [Next]_vars
    PROVE  IInv' /\ (ui'.focus # ui.focus => ui'.buf = 0)
  <1> DEFINE Goal == IInv' /\ (ui'.focus # ui.focus => ui'.buf = 0)
             u == [ui EXCEPT !.kbd = "gl_keyh_default"]
  <1>1. /\ UOk(ui) /\ UText(ui) /\ ui \in UIState
        /\ fmode \in {"FBM_OFF", "FBM_PLAY", "FBM_REC"}
    BY DEF IInv, TypeOK
  <1>2. \A h \in Handler \ {"gl_keyh_uinput"} :
           Keeps(ui, [ui EXCEPT !.kbd = h])
    BY <1>1, HandlerKeeps
  <1>3. /\ Keeps(ui, u) /\ UOk(u) /\ u.focus = ui.focus
    BY <1>1, <1>2 DEF Keeps, Handler, UIState
  <1>4. \A v : Keeps(u, v) => Keeps(ui, v)
    BY <1>1, <1>3, KeepsTrans
  <1>5. ASSUME UNCHANGED fmode, noauth, Keeps(ui, ui')
        PROVE  Goal
    BY <1>1, <1>5, QuietStep DEF noauth
  <1> HIDE DEF u
  <1>6. CASE gl_keyh_default
    <2>1. PICK h \in {"gl_keyh_panel", "gl_keyh_flyby", "gl_keyh_prefix"} :
             ui' = [ui EXCEPT !.kbd = h]
      BY <1>6 DEF gl_keyh_default
    <2>2. h \in Handler \ {"gl_keyh_uinput"}
      BY <2>1 DEF Handler
    <2>3. QED BY <1>2, <1>5, <1>6, <2>1, <2>2 DEF gl_keyh_default
  <1>7. CASE gl_keyh_prefix
    BY <1>3, <1>5, <1>7 DEF gl_keyh_prefix, u
  <1>8. CASE gl_keyh_panel
    <2>1. CASE ui' = panels_hide(u, Panel)
      BY <1>3, <1>4, <1>5, <1>8, <2>1, HideKeeps DEF gl_keyh_panel
    <2>2. CASE ui' = panels_flip(u, Panel \ Uinp)
      BY <1>3, <1>4, <1>5, <1>8, <2>2, FlipKeeps DEF gl_keyh_panel
    <2>3. CASE \E p \in Panel : ui' = panel_toggle(u, p)
      BY <1>3, <1>4, <1>5, <1>8, <2>3, ToggleKeeps DEF gl_keyh_panel
    <2>4. CASE ui' = u
      BY <1>3, <1>5, <1>8, <2>4 DEF gl_keyh_panel
    <2>5. QED BY <1>8, <2>1, <2>2, <2>3, <2>4 DEF gl_keyh_panel, u
  <1>9. CASE uinput_type
    <2>1. /\ ui' \in UIState /\ ui'.focus = ui.focus /\ ui'.popt = ui.popt
          /\ ui'.kbd = ui.kbd /\ ui'.atpass = ui.atpass
          /\ ui.kbd = "gl_keyh_uinput"
      BY <1>1, <1>9, PanelAssumption DEF uinput_type, UIState
    <2>2. Keeps(ui, ui')
      BY <1>1, <2>1 DEF Keeps, UOk, UText, AtPassword
    <2>3. QED BY <1>5, <1>9, <2>2 DEF uinput_type
  <1>10. CASE uinput_backspace
    <2>1. /\ ui' \in UIState /\ ui'.focus = ui.focus /\ ui'.popt = ui.popt
          /\ ui'.kbd = ui.kbd /\ ui'.atpass = ui.atpass
          /\ ui.kbd = "gl_keyh_uinput"
      BY <1>1, <1>10, PanelAssumption DEF uinput_backspace, UIState
    <2>2. Keeps(ui, ui')
      BY <1>1, <2>1 DEF Keeps, UOk, UText, AtPassword
    <2>3. QED BY <1>5, <1>10, <2>2 DEF uinput_backspace
  <1>11. CASE uinput_escape
    <2> DEFINE r == release_input(ui)
    <2>1. ui.focus \in Panel
      BY <1>1, <1>11, NamedPanels DEF uinput_escape, UOk
    <2>2. /\ r \in UIState /\ r.focus = NoPanel /\ r.buf = 0
          /\ r.kbd = "gl_keyh_default" /\ r.atpass = ui.atpass
      BY <1>1, ReleaseType DEF release_input, UIState
    <2> HIDE DEF r
    <2>3. UOk(r) /\ UText(r)
      BY <2>2 DEF UOk, UText
    <2>4. Keeps(r, panel_tremove(r, ui.focus))
      BY <2>1, <2>3, TremoveKeeps
    <2>5. panel_tremove(r, ui.focus).buf = 0
      BY <2>1, <2>2, TremoveFrame
    <2>6. Keeps(ui, panel_tremove(r, ui.focus))
      BY <2>2, <2>3, <2>4, <2>5, NamedPanels DEF Keeps, AtPassword
    <2>7. QED BY <1>5, <1>11, <2>6 DEF uinput_escape, r
  <1>12. CASE \/ uinput_enter \/ uinpcb_gotonode
              \/ uinpcb_login_user \/ uinpcb_login_pass
    BY <1>12, EnterStep
  <1>13. ASSUME NEW w, Keeps(ui, w), UOk(w), w.focus = ui.focus, noauth,
                flyby_begin_play(w) \/ flyby_begin_rec(w) \/ flyby_end(w)
         PROVE  Goal
    <2>1. fmode' \in {"FBM_OFF", "FBM_PLAY", "FBM_REC"}
      BY <1>13 DEF flyby_begin_play, flyby_begin_rec, flyby_end
    <2>2. Keeps(w, [w EXCEPT !.kbd = "gl_keyh_actflyby"])
      BY <1>13, HandlerKeeps DEF Handler
    <2>3. Keeps(w, [w EXCEPT !.kbd = "gl_keyh_default"])
      BY <1>13, HandlerKeeps DEF Handler
    <2>4. ui' = w \/ Keeps(w, ui')
      BY <1>13, <2>2, <2>3 DEF flyby_begin_play, flyby_begin_rec, flyby_end
    <2>5. Keeps(ui, ui')
      BY <1>1, <1>13, <2>4, KeepsTrans
    <2>6. QED BY <1>13, <2>1, <2>5, QuietStep DEF noauth
  <1>14. Keeps(ui, ui)
    BY <1>1 DEF Keeps
  <1>15. CASE gl_keyh_flyby
    <2>1. CASE ui' = u /\ UNCHANGED fmode
      BY <1>3, <1>5, <1>15, <2>1 DEF gl_keyh_flyby
    <2>2. CASE flyby_begin_play(u) \/ flyby_begin_rec(u) \/ flyby_end(u)
      BY <1>3, <1>13, <1>15, <2>2 DEF gl_keyh_flyby
    <2>3. QED BY <1>15, <2>1, <2>2 DEF gl_keyh_flyby, u
  <1>16. CASE gl_keyh_actflyby \/ cocb_autoto \/ flyby_read_eof \/ gscb_pw_fb
    BY <1>1, <1>13, <1>14, <1>16
    DEF gl_keyh_actflyby, cocb_autoto, flyby_read_eof, gscb_pw_fb
  <1>17. CASE \E S \in SUBSET Panel : flyby_read_init(S)
    BY <1>1, <1>5, <1>17, SetKeeps DEF flyby_read_init
  <1>18. CASE flyby_read_panel
    BY <1>1, <1>5, <1>18, NamedPanels, ToggleKeeps DEF flyby_read_panel
  <1>19. CASE gscb_pw_panel
    BY <1>1, <1>5, <1>19, ToggleKeeps DEF gscb_pw_panel
  <1>20. ASSUME NEW p \in Panel, panel_free(p)
         PROVE  Goal
    <2>1. /\ ui' \in UIState /\ ui'.focus = ui.focus /\ ui'.buf = ui.buf
          /\ ui'.kbd = ui.kbd /\ ui'.atpass = ui.atpass
          /\ \A q \in Panel \ {p} : ui'.popt[q] = ui.popt[q]
      BY <1>1, <1>20 DEF panel_free, UIState
    <2>2. ui.focus # NoPanel => ui.focus \in Panel \ {p}
      BY <1>1, <1>20, NamedPanels DEF panel_free, UOk
    <2>3. UOk(ui)' /\ UText(ui)'
      BY <1>1, <2>1, <2>2 DEF UOk, UText
    <2>4. AtPassword(ui)' => authbuf' = "user"
      <3>1. AtPassword(ui)' => Login # p /\ AtPassword(ui)
        BY <2>1, <2>2, NamedPanels DEF AtPassword
      <3>2. QED BY <3>1, <1>20 DEF panel_free, IInv
    <2>5. TypeOK' /\ LoginAuthWhole'
      BY <1>20, <2>1 DEF IInv, TypeOK, LoginAuthWhole, panel_free
    <2>6. QED BY <2>1, <2>3, <2>4, <2>5 DEF IInv
  <1>21. CASE sn_insert \/ sn_clear
    <2>1. Ninfo \in Panel /\ {Ninfo} \in SUBSET Panel
      BY NamedPanels
    <2>2. Keeps(ui, panel_show(ui, Ninfo)) /\ Keeps(ui, panels_hide(ui, {Ninfo}))
      BY <1>1, <2>1, ShowKeeps, HideKeeps
    <2>3. QED BY <1>5, <1>21, <2>2 DEF sn_insert, sn_clear
  <1>22. CASE dxp_panel
    <2>1. Scripted \subseteq Panel
      BY PanelAssumption
    <2>2. \A p \in Scripted : Keeps(ui, panel_show(ui, p))
      BY <1>1, <2>1, ShowKeeps
    <2>3. \A S \in SUBSET Scripted :
             Keeps(ui, panels_hide(ui, S)) /\ Keeps(ui, panels_set(ui, S))
      BY <1>1, <2>1, HideKeeps, SetKeeps
    <2>4. QED BY <1>5, <1>22, <2>2, <2>3 DEF dxp_panel
  <1>23. CASE UNCHANGED vars
    <2>1. IInv'
      BY <1>23 DEF vars, IInv, TypeOK, UOk, UText, AtPassword,
                   LoginAuthWhole, UIState, Handler
    <2>2. QED BY <1>23, <2>1 DEF vars
  <1>24. QED
    BY <1>6, <1>7, <1>8, <1>9, <1>10, <1>11, <1>12, <1>15, <1>16, <1>17,
       <1>18, <1>19, <1>20, <1>23, <1>21, <1>22 DEF Next

-----------------------------------------------------------------------------
(* The invariant holds throughout.                                         *)
THEOREM Invariant == Spec => []IInv
  <1>1. IInv /\ [Next]_vars => IInv'
    BY NextInv
  <1>2. QED BY InitInv, <1>1, PTL DEF Spec

(* uinp.uinp_panel, the keyboard handler and uinp_buf agree in every       *)
(* reachable state (panel_tremove, panel_toggle, gl_keyh_uinput).          *)
THEOREM InputSafe == Spec => [](TypeOK /\ FocusShown /\ HandlerHasPanel /\ NoOrphanText)
  <1>1. IInv => TypeOK /\ FocusShown /\ HandlerHasPanel /\ NoOrphanText
    BY DEF IInv, UOk, UText, FocusShown, HandlerHasPanel, NoOrphanText
  <1>2. QED BY Invariant, <1>1, PTL

(* Credentials are never a mix of two logins (uinpcb_login), whatever      *)
(* panels come and go between the name and the password.                   *)
THEOREM LoginsWhole == Spec => []LoginAuthWhole
  <1>1. IInv => LoginAuthWhole
    BY DEF IInv
  <1>2. QED BY Invariant, <1>1, PTL

(* No callback lets text typed into one panel reach another one.           *)
THEOREM TextStays == Spec => TextNeverMoves
  <1>1. IInv /\ [Next]_vars => [ui'.focus # ui.focus => ui'.buf = 0]_vars
    BY NextInv
  <1>2. QED BY Invariant, <1>1, PTL DEF Spec, TextNeverMoves

(* When flybys and scripts show no panel that reads text, every key but    *)
(* space breaks out of a playback: nothing else takes the keyboard while   *)
(* one runs.                                                               *)
THEOREM BreaksWithoutText ==
    ASSUME Replayable \cap Uinp = {}, Scripted \cap Uinp = {}
    PROVE  Spec => []PlaybackKeyBreaks
  <1>1. Init => PlaybackKeyBreaks
    BY DEF Init, PlaybackKeyBreaks
  <1>2. ASSUME IInv, PlaybackKeyBreaks, [Next]_vars
        PROVE  PlaybackKeyBreaks'
    <2>1. ui \in UIState /\ UOk(ui)
      BY <1>2 DEF IInv, TypeOK
    <2>2. CASE fmode # "FBM_PLAY" /\ fmode' = "FBM_PLAY"
      <3>1. PICK w \in {ui, [ui EXCEPT !.kbd = "gl_keyh_default"]} :
               ui' = [w EXCEPT !.kbd = "gl_keyh_actflyby"]
        BY <1>2, <2>2
        DEF Next, vars, gl_keyh_default, gl_keyh_prefix, gl_keyh_panel,
            uinput_type, uinput_backspace, uinput_escape, uinput_enter,
            uinpcb_gotonode, uinpcb_login_user, uinpcb_login_pass,
            gl_keyh_flyby, gl_keyh_actflyby, cocb_autoto, flyby_read_init,
            flyby_read_panel, flyby_read_eof, gscb_pw_panel, gscb_pw_fb,
            sn_insert, sn_clear, dxp_panel,
            panel_free, flyby_begin_play, flyby_begin_rec, flyby_end
      <3>2. ui'.kbd = "gl_keyh_actflyby"
        BY <2>1, <3>1 DEF UIState
      <3>3. QED BY <3>2 DEF PlaybackKeyBreaks
    <2>3. CASE fmode = "FBM_PLAY" /\ fmode' = "FBM_PLAY"
      <3>1. ui.kbd = "gl_keyh_actflyby"
        BY <1>2, <2>3 DEF PlaybackKeyBreaks
      <3>2. \/ UNCHANGED vars \/ \E S \in SUBSET Panel : flyby_read_init(S)
            \/ flyby_read_panel \/ dxp_panel \/ \E p \in Panel : panel_free(p)
        BY <1>2, <2>3, <3>1
        DEF Next, gl_keyh_default, gl_keyh_prefix, gl_keyh_panel,
            uinput_type, uinput_backspace, uinput_escape, uinput_enter,
            uinpcb_gotonode, uinpcb_login_user, uinpcb_login_pass,
            gl_keyh_flyby, gl_keyh_actflyby, cocb_autoto, flyby_read_eof,
            gscb_pw_panel, gscb_pw_fb, sn_insert, sn_clear, flyby_begin_play,
            flyby_begin_rec, flyby_end
      <3>3. CASE UNCHANGED vars
        BY <3>1, <3>3 DEF vars, PlaybackKeyBreaks
      <3>4. CASE \E S \in SUBSET Panel : flyby_read_init(S)
        BY <2>1, <3>1, <3>4, SetKeeps DEF flyby_read_init, PlaybackKeyBreaks
      <3>5. ASSUME NEW p \in Panel \ Uinp
            PROVE  panel_toggle(ui, p).kbd = ui.kbd
        <4>3. panel_tremove(ui, p).kbd = ui.kbd
          BY <2>1, <3>5, TremoveFrame
        <4>4. panel_add(ui, p).kbd = ui.kbd
          BY <2>1, <3>5 DEF panel_add, UIState
        <4>5. QED BY <4>3, <4>4 DEF panel_toggle
      <3>6. CASE flyby_read_panel
        <4>1. PICK p \in Replayable : ui' = panel_toggle(ui, p)
          BY <3>6 DEF flyby_read_panel
        <4>2. p \in Panel \ Uinp
          BY NamedPanels
        <4>3. QED BY <3>1, <3>5, <4>1, <4>2 DEF PlaybackKeyBreaks
      <3>7. CASE dxp_panel
        <4>1. CASE \E p \in Scripted : ui' = panel_show(ui, p)
          <5>1. \A p \in Scripted : panel_toggle(ui, p).kbd = ui.kbd
            BY <3>5, PanelAssumption
          <5>2. QED BY <3>1, <4>1, <5>1 DEF panel_show, PlaybackKeyBreaks
        <4>2. CASE \E S \in SUBSET Scripted : ui' = panels_hide(ui, S)
          <5>1. PICK S \in SUBSET Scripted : ui' = panels_hide(ui, S)
            BY <4>2
          <5>2. {p \in S : ui.popt[p] = "shown"} \cap Uinp = {}
            OBVIOUS
          <5>3. ui'.kbd = ui.kbd
            BY <2>1, <5>1, <5>2 DEF panels_hide, UIState
          <5>4. QED BY <3>1, <5>3 DEF PlaybackKeyBreaks
        <4>3. CASE \E S \in SUBSET Scripted : ui' = panels_set(ui, S)
          BY <2>1, <3>1, <4>3, SetKeeps, PanelAssumption DEF PlaybackKeyBreaks
        <4>4. QED BY <3>7, <4>1, <4>2, <4>3 DEF dxp_panel
      <3>8. CASE \E p \in Panel : panel_free(p)
        BY <2>1, <3>1, <3>8 DEF panel_free, UIState, PlaybackKeyBreaks
      <3>9. QED BY <3>2, <3>3, <3>4, <3>6, <3>8, <3>7
    <2>4. CASE fmode' # "FBM_PLAY"
      BY <2>4 DEF PlaybackKeyBreaks
    <2>5. QED BY <2>2, <2>3, <2>4
  <1>3. IInv /\ PlaybackKeyBreaks /\ [Next]_vars => PlaybackKeyBreaks'
    BY <1>2
  <1>4. QED BY Invariant, <1>1, <1>3, PTL DEF Spec
=============================================================================
