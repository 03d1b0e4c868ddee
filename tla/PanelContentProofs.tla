------------------------- MODULE PanelContentProofs -------------------------
(***************************************************************************)
(* What PanelContent promises, for any group of panels that are open       *)
(* together and any number of changes between frames.                      *)
(*                                                                         *)
(* Between frames the text of a panel may be out of date; the invariant    *)
(* says that its refresh function then finds out (Known): what it has a    *)
(* copy of it shows as the copy has it, and what it has no copy of it      *)
(* shows as it is or something has marked the panel (Late).  A handler     *)
(* keeps this because it marks whoever sees what it changes (Heeds).  In a *)
(* frame the panels are refreshed one after the other, and a refresh       *)
(* leaves the others' marks alone (Aside).                                 *)
(***************************************************************************)
EXTENDS PanelContent, WellFoundedInduction, TLAPS

-----------------------------------------------------------------------------
(* The strengthening.                                                      *)

Source == Stored \cup Derived
Value  == Int \cup SUBSET Panel
Text   == UNION {[S -> Value] : S \in SUBSET Source}
Pan    == [remove : BOOLEAN, refresh : BOOLEAN, dirty : BOOLEAN, str : Text, dl : Text]
Worlds == [src : [Stored -> Int], list : Seq(group), pan : [group -> Pan],
           clean : [Word -> SUBSET group], sav : [group -> Text],
           focus : {"none"} \cup (group \cap Uinp), typed : BOOLEAN, ssl : BOOLEAN,
           rf : SUBSET Flag, lost : BOOLEAN]

(* What a refresh function compares with a copy.                           *)
Copies == {<<"fbstat", "fbpids">>, <<"fbstat", "fmode">>, <<"options", "opts">>,
           <<"panels", "pids">>, <<"help", "exthelp">>, <<"vmode", "vmode">>,
           <<"dmode", "dmode">>, <<"pipe", "pipemode">>, <<"wiadj", "wi">>,
           <<"rt", "rtset">>, <<"keyh", "keyh">>, <<"reel", "reelpos">>,
           <<"pipedim", "pipedim">>}
Saved(p) == {s \in Source : <<p, s>> \in Copies}

(* What a panel is told of: what it watches, and what is typed if there is *)
(* no other text panel to take the mark.                                   *)
Told(u, p) == {s \in Reads(u, p) :
                  \/ <<p, s>> \notin Unseen
                  \/ s = "buf" /\ p = u.focus /\ group \cap Uinp = {p}} \ Saved(p)

Due(u, p, s) ==
    \/ u.pan[p].refresh
    \/ p \in {"ninfo", "cmd", "help"} /\ p \notin u.clean["selnode"]
    \/ p \in {"ninfo", "legend"} /\ s \in {"dmode", "data", "hl"}
                                 /\ p \notin u.clean["dmode_data"]
    \/ p = "legend" /\ p \notin u.clean["hlnc"]
    \/ p \in {"cam", "compass"} /\ "RF_CAM" \in u.rf
    \/ p \in Uinp /\ s = "buf" /\ u.typed

(* The two panels that wait for the classes to be assigned again.          *)
Mode(p, s) == p \in {"ninfo", "legend"} /\ s = "dmode"

Pending(u) == "RF_DMODE" \in u.rf \/ u.lost

Late(u, l, p, s) == Due(u, p, s) \/ (l /\ Mode(p, s))

Current(u, p, s) == s \in DOMAIN u.pan[p].str /\ u.pan[p].str[s] = u.src[s]

Copied(u, p) == \A s \in Saved(p) : /\ s \in DOMAIN u.pan[p].str
                                    /\ u.pan[p].str[s] = u.sav[p][s]

Known(u, l, p) ==
    u.pan[p].str # NoStr =>
        /\ Copied(u, p)
        /\ \A s \in Told(u, p) : Current(u, p, s) \/ Late(u, l, p, s)

Drawn(u, p) == ~u.pan[p].dirty /\ u.pan[p].dl # NoStr => u.pan[p].dl = u.pan[p].str

FocusOk(u) == u.focus # "none" => u.focus \in ToSet(u.list) /\ ~u.pan[u.focus].remove

Good(u) == /\ u \in Worlds
           /\ IsInjective(u.list)
           /\ FocusOk(u)
           /\ \A p \in ToSet(u.list) : Known(u, Pending(u), p) /\ Drawn(u, p)

(* What a refresh leaves.                                                  *)
CopyCurrent(u, p) == \A s \in Saved(p) : u.sav[p][s] = val(u, s)

Shows(u, l, p) ==
    /\ u.pan[p].str # NoStr
    /\ Copied(u, p)
    /\ \A s \in Told(u, p) : Current(u, p, s) \/ (l /\ Mode(p, s))

IInv == /\ group \in Groups
        /\ Good(w)
        /\ fresh => \A p \in ToSet(w.list) : Shows(w, w.lost, p) /\ CopyCurrent(w, p)
-----------------------------------------------------------------------------
(* Types.                                                                  *)

LEMMA NoText == NoStr \in Text
<1>1. NoStr \in [{} -> Value]  BY DEF NoStr
<1> QED BY <1>1 DEF Text

LEMMA Values == ASSUME NEW u \in Worlds, group \subseteq Panel, NEW s \in Source
                PROVE  val(u, s) \in Value /\ (s \in Stored => val(u, s) = u.src[s])
<1>1. ToSet(u.list) \subseteq Panel  BY DEF Worlds, ToSet
<1>2. CASE s \in Stored
  <2>1. s # "pids" /\ s # "fbpids"  BY <1>2 DEF Stored
  <2>2. val(u, s) = u.src[s]  BY <1>2, <2>1, Zenon DEF val
  <2>3. u.src[s] \in Int  BY <1>2 DEF Worlds
  <2> QED BY <2>2, <2>3 DEF Value
<1>3. CASE s = "pids"
  <2>2. s \notin Stored /\ s # "fbpids"  BY <1>3 DEF Stored
  <2>1. val(u, s) = ToSet(u.list)  BY <1>3, <2>2, Zenon DEF val
  <2> QED BY <2>1, <2>2, <1>1 DEF Value
<1>4. CASE s = "fbpids"
  <2>1. s \notin Stored /\ s # "pids"  BY <1>4 DEF Stored
  <2>2. val(u, s) = ToSet(u.list) \cap {"fbcreat", "fbcho"}  BY <1>4, <2>1, Zenon DEF val
  <2> QED BY <2>1, <2>2, <1>1 DEF Value
<1> QED BY <1>2, <1>3, <1>4 DEF Source, Derived

LEMMA Snapshot == ASSUME NEW u \in Worlds, group \subseteq Panel, NEW S, S \subseteq Source
                  PROVE  /\ snapshot(u, S) \in Text /\ DOMAIN snapshot(u, S) = S
                         /\ \A s \in S : snapshot(u, S)[s] = val(u, s)
<1>1. \A s \in S : val(u, s) \in Value  BY Values
<1>2. snapshot(u, S) \in [S -> Value]  BY <1>1 DEF snapshot
<1> QED BY <1>2 DEF snapshot, Text

LEMMA ReadsSources == ASSUME NEW u, NEW p \in Panel PROVE Reads(u, p) \subseteq Source
<1> DEFINE R == Reads(u, p)
<1>1. R = Reads(u, p)  OBVIOUS
<1> HIDE DEF R
<1>2. R \subseteq Source  BY <1>1 DEF Reads, Panel, Source, Stored, Derived
<1> QED BY <1>1, <1>2

-----------------------------------------------------------------------------
(* Who sees what.                                                          *)

LEMMA WhoSees ==
    ASSUME NEW u, NEW p \in Panel, NEW s \in Told(u, p)
    PROVE  /\ s \in Stored
           /\ s = "sel" => p \in {"ninfo", "cmd", "help"}
           /\ s \in {"dmode", "data"} => p \in {"ninfo", "legend"}
           /\ s = "hl" => p = "legend"
           /\ s = "cam" => p \in {"cam", "compass"}
           /\ s = "fbfile" => p \in {"fbstat", "fbcho"}
           /\ s \notin {"focus", "exthelp", "fmode", "opts", "vmode", "reelpos", "pipemode",
                        "wi", "rtset", "keyh", "live", "vnmode", "pipedim"}
           /\ s = "capture" => p = "sshot"
           /\ s = "log" => p = "status"
           /\ s = "mtime" => p = "date"
           /\ s = "atpass" => p = "login"
           /\ s = "dxfile" => p = "dxcho"
           /\ s = "dsdir" => p = "dscho"
           /\ s = "fps" => p = "fps"
           /\ s = "reeldir" => p = "reel"
           /\ s = "buf" => p \in Uinp /\ p = u.focus /\ group \cap Uinp = {p}
<1> DEFINE R == Reads(u, p)
<1>1. R = Reads(u, p)  OBVIOUS
<1>2. /\ s \in R /\ <<p, s>> \notin Copies
      /\ \/ <<p, s>> \notin Unseen
         \/ s = "buf" /\ p = u.focus /\ group \cap Uinp = {p}
  BY ReadsSources DEF Told, Saved
<1> HIDE DEF R
<1> QED BY <1>1, <1>2 DEF Reads, Panel, Stored, Unseen, Copies, Uinp

LEMMA ReadsSome ==
    ASSUME NEW u, NEW p \in Panel
    PROVE  Reads(u, p) # {} /\ Saved(p) \subseteq Reads(u, p)
<1> DEFINE R == Reads(u, p)
<1>1. R = Reads(u, p)  OBVIOUS
<1> HIDE DEF R
<1>2. R # {}  BY <1>1 DEF Reads, Panel
<1>3. ASSUME NEW s, <<p, s>> \in Copies PROVE s \in R
  BY <1>1, <1>3 DEF Reads, Panel, Copies
<1> QED BY <1>1, <1>2, <1>3 DEF Saved

LEMMA SameSight ==
    ASSUME NEW u, NEW v, NEW p, u.src = v.src
    PROVE  /\ Reads(u, p) = Reads(v, p)
           /\ u.focus = v.focus => Told(u, p) = Told(v, p)
           /\ u.list = v.list => \A s : val(u, s) = val(v, s)
<1>1. Reads(u, p) = Reads(v, p)  BY Zenon DEF Reads
<1>2. u.list = v.list => \A s : val(u, s) = val(v, s)  BY Zenon DEF val
<1> QED BY <1>1, <1>2 DEF Told

-----------------------------------------------------------------------------
(* The helpers of prefresh.c.  What a refresh of p leaves as it is.        *)

Aside(u, v, p) ==
    /\ v.src = u.src /\ v.rf = u.rf /\ v.lost = u.lost /\ v.focus = u.focus
    /\ v.list = u.list
    /\ v.typed = u.typed \/ (p \in Uinp /\ ~v.typed)
    /\ v.pan[p].remove = u.pan[p].remove
    /\ \A q \in group \ {p} :
          /\ v.pan[q].str = u.pan[q].str /\ v.pan[q].dl = u.pan[q].dl
          /\ v.pan[q].refresh = u.pan[q].refresh /\ v.pan[q].remove = u.pan[q].remove
          /\ u.pan[q].dirty => v.pan[q].dirty
          /\ v.sav[q] = u.sav[q]
          /\ \A x \in Word : q \in v.clean[x] <=> q \in u.clean[x]

LEMMA AsideTwice ==
    ASSUME NEW t, NEW u, NEW v, NEW p, Aside(t, u, p), Aside(u, v, p)
    PROVE  Aside(t, v, p)
BY DEF Aside

LEMMA SetContent ==
    ASSUME group \subseteq Panel, NEW u \in Worlds, NEW p \in group,
           NEW v, v = panel_set_content(u, p)
    PROVE  /\ v \in Worlds /\ Aside(u, v, p)
           /\ v.sav = u.sav /\ v.clean = u.clean
           /\ v.pan[p].str = snapshot(u, Reads(u, p))
           /\ v.pan[p].dirty /\ v.pan[p].dl = u.pan[p].dl
<1> DEFINE t     == snapshot(u, Reads(u, p))
           below == {u.list[i] : i \in {j \in 1 .. Len(u.list) :
                           \E k \in 1 .. j : u.list[k] = p}}
           P == [q \in group |-> IF q = p THEN [u.pan[q] EXCEPT !.str = t, !.dirty = TRUE]
                                 ELSE IF q \in below THEN [u.pan[q] EXCEPT !.dirty = TRUE]
                                 ELSE u.pan[q]]
<1>1. t \in Text  BY Snapshot, ReadsSources
<1>2. DOMAIN u.pan = group /\ \A q \in group : u.pan[q] \in Pan  BY DEF Worlds
<1>3. v = [u EXCEPT !.pan = P]  BY <1>2, Zenon DEF panel_set_content
<1> HIDE DEF t, below
<1>4. P \in [group -> Pan]  BY <1>1, <1>2 DEF Pan
<1>5. /\ P[p].str = t /\ P[p].dirty /\ P[p].dl = u.pan[p].dl
      /\ P[p].remove = u.pan[p].remove
      /\ \A q \in group \ {p} : P[q] = u.pan[q] \/ P[q] = [u.pan[q] EXCEPT !.dirty = TRUE]
  BY <1>2 DEF Pan
<1> HIDE DEF P
<1>6. v \in Worlds /\ v.pan = P /\ v.sav = u.sav /\ v.clean = u.clean
      /\ v.src = u.src /\ v.rf = u.rf /\ v.lost = u.lost /\ v.focus = u.focus
      /\ v.list = u.list /\ v.typed = u.typed
  BY <1>3, <1>4 DEF Worlds
<1>7. \A q \in group \ {p} :
          /\ P[q].str = u.pan[q].str /\ P[q].dl = u.pan[q].dl
          /\ P[q].refresh = u.pan[q].refresh /\ P[q].remove = u.pan[q].remove
          /\ u.pan[q].dirty => P[q].dirty
  <2> TAKE q \in group \ {p}
  <2>1. u.pan[q] \in Pan  BY <1>2
  <2>2. CASE P[q] = u.pan[q]  BY <2>2
  <2>3. CASE P[q] = [u.pan[q] EXCEPT !.dirty = TRUE]  BY <2>1, <2>3 DEF Pan
  <2> QED BY <1>5, <2>2, <2>3
<1> QED BY <1>5, <1>6, <1>7 DEF Aside, t

LEMMA TakesMarks ==
    ASSUME group \subseteq Panel, NEW u \in Worlds, NEW p \in group,
           NEW v, v = panel_ready(u, p)
    PROVE  /\ v \in Worlds /\ Aside(u, v, p)
           /\ v.sav = u.sav /\ v.clean = u.clean
           /\ v.pan[p] = [u.pan[p] EXCEPT !.refresh = FALSE]
<1>1. u.pan[p] \in Pan /\ u.pan \in [group -> Pan]  BY DEF Worlds
<1>2. [u.pan EXCEPT ![p].refresh = FALSE] \in [group -> Pan]  BY <1>1 DEF Pan
<1>3. /\ v \in Worlds /\ v.pan = [u.pan EXCEPT ![p].refresh = FALSE]
      /\ v.sav = u.sav /\ v.clean = u.clean
      /\ v.src = u.src /\ v.rf = u.rf /\ v.lost = u.lost /\ v.focus = u.focus
      /\ v.list = u.list /\ v.typed = (u.typed /\ p \notin Uinp)
  BY <1>2 DEF panel_ready, Worlds
<1>4. v.pan[p] = [u.pan[p] EXCEPT !.refresh = FALSE] /\ v.pan[p].remove = u.pan[p].remove
  BY <1>1, <1>3 DEF Pan
<1>5. \A q \in group \ {p} : v.pan[q] = u.pan[q]  BY <1>1, <1>3
<1>6. v.typed = u.typed \/ (p \in Uinp /\ ~v.typed)
  <2>1. u.typed \in BOOLEAN  BY DEF Worlds
  <2>2. CASE p \in Uinp  BY <1>3, <2>2
  <2>3. CASE p \notin Uinp  BY <1>3, <2>1, <2>3
  <2> QED BY <2>2, <2>3
<1> QED BY <1>3, <1>4, <1>5, <1>6, Zenon DEF Aside

LEMMA Composed ==
    ASSUME group \subseteq Panel, NEW u \in Worlds, NEW p \in group, CopyCurrent(u, p),
           NEW v, v = panel_set_content(u, p), NEW l
    PROVE  v \in Worlds /\ Aside(u, v, p) /\ Shows(v, l, p) /\ CopyCurrent(v, p) /\ Drawn(v, p)
<1> DEFINE R == Reads(u, p)
<1>1. /\ v \in Worlds /\ Aside(u, v, p) /\ v.sav = u.sav /\ v.pan[p].dirty
      /\ v.pan[p].str = snapshot(u, R)
  BY SetContent
<1>2. R # {} /\ Saved(p) \subseteq R /\ R \subseteq Source  BY ReadsSome, ReadsSources
<1>3. /\ DOMAIN v.pan[p].str = R
      /\ \A s \in R : v.pan[p].str[s] = val(u, s)
  BY <1>1, <1>2, Snapshot
<1>4. v.pan[p].str # NoStr
  <2>1. DOMAIN NoStr = {}  BY DEF NoStr
  <2> QED BY <2>1, <1>2, <1>3
<1>5. Reads(v, p) = R /\ \A s : val(v, s) = val(u, s)  BY <1>1, SameSight DEF Aside
<1>6. Copied(v, p) /\ CopyCurrent(v, p)
  BY <1>1, <1>2, <1>3, <1>5 DEF Copied, CopyCurrent
<1>7. ASSUME NEW s \in Told(v, p) PROVE Current(v, p, s)
  <2>1. s \in Stored /\ s \in R  BY <1>5, WhoSees DEF Told
  <2>2. val(u, s) = u.src[s]  BY <2>1, Values DEF Source
  <2> QED BY <2>1, <2>2, <1>1, <1>3 DEF Current, Aside
<1> QED BY <1>1, <1>4, <1>6, <1>7 DEF Shows, Drawn

(* No mark, nothing changed: the text may stay.                            *)
LEMMA Quiet ==
    ASSUME group \subseteq Panel, NEW u \in Worlds, NEW p \in group, NEW l,
           Known(u, l, p), Drawn(u, p), ready(u, p), CopyCurrent(u, p),
           \A s \in Told(u, p) : ~Due(u, p, s),
           NEW v, v = panel_ready(u, p)
    PROVE  v \in Worlds /\ Aside(u, v, p) /\ Shows(v, l, p) /\ CopyCurrent(v, p) /\ Drawn(v, p)
<1>1. /\ v \in Worlds /\ Aside(u, v, p) /\ v.sav = u.sav
      /\ v.pan[p] = [u.pan[p] EXCEPT !.refresh = FALSE]
  BY TakesMarks
<1>2. u.pan[p] \in Pan  BY DEF Worlds
<1>3. /\ v.pan[p].str = u.pan[p].str /\ v.pan[p].dl = u.pan[p].dl
      /\ v.pan[p].dirty = u.pan[p].dirty
  BY <1>1, <1>2 DEF Pan
<1>4. Told(v, p) = Told(u, p) /\ \A s : val(v, s) = val(u, s)  BY <1>1, SameSight DEF Aside
<1>5. u.pan[p].str # NoStr  BY DEF ready
<1>6. Copied(v, p) /\ CopyCurrent(v, p)
  BY <1>1, <1>3, <1>4, <1>5 DEF Copied, CopyCurrent, Known
<1>7. \A s \in Told(v, p) : Current(v, p, s) \/ (l /\ Mode(p, s))
  BY <1>1, <1>3, <1>4, <1>5 DEF Known, Late, Current, Aside
<1> QED BY <1>1, <1>3, <1>5, <1>6, <1>7 DEF Shows, Drawn

(* What a refresh of p does: p shows what there is, the others wait.       *)
Fine(u, v, l, p) ==
    v \in Worlds /\ Aside(u, v, p) /\ Shows(v, l, p) /\ CopyCurrent(v, p) /\ Drawn(v, p)

(* p may keep its text.                                                    *)
Still(u, l, p) == Known(u, l, p) /\ Drawn(u, p) /\ \A s \in Told(u, p) : ~Due(u, p, s)

LEMMA Compares ==
    ASSUME group \subseteq Panel, NEW u \in Worlds, NEW p \in group
    PROVE  /\ u.sav[p] = snapshot(u, Saved(p)) => CopyCurrent(u, p)
           /\ Saved(p) = {} => CopyCurrent(u, p)
<1>1. Saved(p) \subseteq Source  BY DEF Saved
<1> QED BY <1>1, Snapshot DEF CopyCurrent

LEMMA SavePut ==
    ASSUME group \subseteq Panel, NEW u \in Worlds, NEW p \in group,
           NEW v, v = [u EXCEPT !.sav[p] = snapshot(u, Saved(p))]
    PROVE  /\ v \in Worlds /\ Aside(u, v, p) /\ CopyCurrent(v, p)
           /\ v.pan = u.pan /\ v.clean = u.clean /\ v.typed = u.typed
           /\ v.sav[p] = snapshot(u, Saved(p))
<1>1. Saved(p) \subseteq Source  BY DEF Saved
<1>2. snapshot(u, Saved(p)) \in Text  BY <1>1, Snapshot
<1> DEFINE t == snapshot(u, Saved(p))
<1> HIDE DEF t
<1>3. v = [u EXCEPT !.sav[p] = t]  BY DEF t
<1>4. /\ v \in Worlds /\ v.sav = [u.sav EXCEPT ![p] = t] /\ v.pan = u.pan /\ v.clean = u.clean
      /\ v.src = u.src /\ v.rf = u.rf /\ v.lost = u.lost /\ v.focus = u.focus
      /\ v.list = u.list /\ v.typed = u.typed
  <2>1. t \in Text  BY <1>2 DEF t
  <2>2. [u.sav EXCEPT ![p] = t] \in [group -> Text]  BY <2>1 DEF Worlds
  <2>3. v = [u EXCEPT !.sav = [u.sav EXCEPT ![p] = t]]  BY <1>3
  <2> QED BY <2>2, <2>3 DEF Worlds
<1>5. v.sav[p] = t /\ \A q \in group \ {p} : v.sav[q] = u.sav[q]  BY <1>4 DEF Worlds
<1>6. Aside(u, v, p)  BY <1>4, <1>5 DEF Aside
<1>7. \A s : val(v, s) = val(u, s)
  <2>1. u.src = v.src /\ u.list = v.list  BY <1>4
  <2> QED BY ONLY <2>1, SameSight
<1>8. CopyCurrent(v, p)
  <2>1. \A s \in Saved(p) : t[s] = val(u, s)  BY <1>1, Snapshot DEF t
  <2> QED BY <1>5, <1>7, <2>1 DEF CopyCurrent
<1> QED BY <1>4, <1>5, <1>6, <1>8 DEF t

LEMMA CleanPut ==
    ASSUME NEW u \in Worlds, NEW p \in group, NEW words,
           NEW v, v = [u EXCEPT !.clean = [x \in Word |-> IF x \in words THEN @[x] \cup {p}
                                                          ELSE @[x]]]
    PROVE  /\ v \in Worlds /\ Aside(u, v, p) /\ v.pan = u.pan /\ v.sav = u.sav
           /\ v.typed = u.typed
<1> DEFINE C == [x \in Word |-> IF x \in words THEN u.clean[x] \cup {p} ELSE u.clean[x]]
<1>1. v = [u EXCEPT !.clean = C]  OBVIOUS
<1>2. u.clean \in [Word -> SUBSET group]  BY DEF Worlds
<1>3. /\ C \in [Word -> SUBSET group]
      /\ \A q \in group \ {p} : \A x \in Word : q \in C[x] <=> q \in u.clean[x]
  BY <1>2
<1> HIDE DEF C
<1>4. /\ v \in Worlds /\ v.clean = C /\ v.pan = u.pan /\ v.sav = u.sav
      /\ v.src = u.src /\ v.rf = u.rf /\ v.lost = u.lost /\ v.focus = u.focus
      /\ v.list = u.list /\ v.typed = u.typed
  BY <1>1, <1>3 DEF Worlds
<1> QED BY <1>3, <1>4 DEF Aside

LEMMA CopyAside ==
    ASSUME NEW u, NEW v, NEW p, Aside(u, v, p), v.sav[p] = u.sav[p], CopyCurrent(u, p)
    PROVE  CopyCurrent(v, p)
<1>1. \A s : val(v, s) = val(u, s)  BY SameSight DEF Aside
<1> QED BY <1>1 DEF CopyCurrent

LEMMA Recomposed ==
    ASSUME group \subseteq Panel, NEW u, NEW t \in Worlds, NEW p \in group, NEW l,
           Aside(u, t, p), CopyCurrent(t, p), NEW v, v = panel_set_content(t, p)
    PROVE  Fine(u, v, l, p)
<1>1. v \in Worlds /\ Aside(t, v, p) /\ Shows(v, l, p) /\ CopyCurrent(v, p) /\ Drawn(v, p)
  BY Composed
<1>2. Aside(u, v, p)  BY <1>1, AsideTwice
<1> QED BY <1>1, <1>2 DEF Fine

LEMMA IfMarked ==
    ASSUME group \subseteq Panel, NEW u \in Worlds, NEW p \in group, NEW l,
           CopyCurrent(u, p), ready(u, p) => Still(u, l, p),
           NEW v, v = if_marked(u, p)
    PROVE  Fine(u, v, l, p)
<1> DEFINE t == panel_ready(u, p)
<1>1. t \in Worlds /\ Aside(u, t, p) /\ t.sav = u.sav  BY TakesMarks
<1>2. CopyCurrent(t, p)  BY <1>1, CopyAside
<1>3. CASE ready(u, p)
  <2>1. v = t  BY <1>3 DEF if_marked
  <2> QED BY <1>3, <2>1, Quiet DEF Fine, Still
<1>4. CASE ~ready(u, p)
  <2>1. v = panel_set_content(t, p)  BY <1>4 DEF if_marked
  <2> HIDE DEF t
  <2> QED BY <1>1, <1>2, <2>1, Recomposed
<1> QED BY <1>3, <1>4

LEMMA IfSavedDiffers ==
    ASSUME group \subseteq Panel, NEW u \in Worlds, NEW p \in group, NEW l,
           ready(u, p) => Still(u, l, p),
           NEW v, v = if_saved_differs(u, p, Saved(p))
    PROVE  Fine(u, v, l, p)
<1> DEFINE t == panel_ready(u, p)
           s == [t EXCEPT !.sav[p] = snapshot(t, Saved(p))]
           now == snapshot(u, Saved(p))
<1>1. t \in Worlds /\ Aside(u, t, p) /\ t.sav = u.sav  BY TakesMarks
<1>2. snapshot(t, Saved(p)) = now
  <2>1. \A x : val(t, x) = val(u, x)  BY <1>1, SameSight DEF Aside
  <2> QED BY <2>1 DEF snapshot
<1>3. CASE ready(u, p) /\ u.sav[p] = now
  <2>1. v = t  BY <1>3 DEF if_saved_differs
  <2>2. CopyCurrent(u, p)  BY <1>3, Compares
  <2> QED BY <1>3, <2>1, <2>2, Quiet DEF Fine, Still
<1>4. CASE ~(ready(u, p) /\ u.sav[p] = now)
  <2>1. v = panel_set_content([t EXCEPT !.sav[p] = now], p)
    BY <1>4, Zenon DEF if_saved_differs
  <2>2. v = panel_set_content(s, p)  BY <1>2, <2>1
  <2> HIDE DEF t
  <2>3. s \in Worlds /\ Aside(t, s, p) /\ CopyCurrent(s, p)  BY <1>1, SavePut
  <2> HIDE DEF s
  <2>4. Aside(u, s, p)  BY <1>1, <2>3, AsideTwice
  <2> QED BY <2>2, <2>3, <2>4, Recomposed
<1> QED BY <1>3, <1>4

LEMMA IfUnclean ==
    ASSUME group \subseteq Panel, NEW u \in Worlds, NEW p \in group, NEW l,
           NEW words, NEW clean, CopyCurrent(u, p), clean /\ ready(u, p) => Still(u, l, p),
           NEW v, v = if_unclean(u, p, words, clean)
    PROVE  Fine(u, v, l, p)
<1> DEFINE t == IF clean THEN panel_ready(u, p) ELSE u
           c == [t EXCEPT !.clean = [x \in Word |-> IF x \in words THEN @[x] \cup {p}
                                                    ELSE @[x]]]
<1>0. Aside(u, u, p)  BY DEF Aside
<1>1. t \in Worlds /\ Aside(u, t, p) /\ t.sav = u.sav  BY <1>0, TakesMarks
<1>3. CASE clean /\ ready(u, p)
  <2>1. v = panel_ready(u, p)  BY <1>3 DEF if_unclean
  <2> QED BY <1>3, <2>1, Quiet DEF Fine, Still
<1>4. CASE ~(clean /\ ready(u, p))
  <2>1. v = panel_set_content(c, p)  BY <1>4, Zenon DEF if_unclean
  <2> HIDE DEF t
  <2>2. c \in Worlds /\ Aside(t, c, p) /\ c.sav = t.sav  BY <1>1, CleanPut
  <2> HIDE DEF c
  <2>3. Aside(u, c, p)  BY <1>1, <2>2, AsideTwice
  <2>4. CopyCurrent(c, p)  BY <1>1, <2>2, <2>3, CopyAside
  <2> QED BY <2>1, <2>2, <2>3, <2>4, Recomposed
<1> QED BY <1>3, <1>4

LEMMA SavedBy ==
    /\ \A p \in {"fps", "gotonode", "sshot", "status", "eggs", "date", "gotojob", "login",
                "fbcho", "fbcreat", "dxcho", "dscho", "vnmode", "ninfo", "cmd", "legend",
                "cam", "compass"} : Saved(p) = {}
    /\ Saved("fbstat") = {"fbpids", "fmode"} /\ Saved("help") = {"exthelp"}
    /\ Saved("options") = {"opts"}
    /\ Saved("panels") = {"pids"}
    /\ Saved("vmode") = {"vmode"}
    /\ Saved("dmode") = {"dmode"}
    /\ Saved("reel") = {"reelpos"}
    /\ Saved("pipe") = {"pipemode"}
    /\ Saved("wiadj") = {"wi"}
    /\ Saved("rt") = {"rtset"}
    /\ Saved("keyh") = {"keyh"}
    /\ Saved("pipedim") = {"pipedim"}
BY DEF Saved, Copies, Source, Stored, Derived

LEMMA ByMark ==
    ASSUME NEW u, NEW p \in {"fps", "gotonode", "sshot", "status", "eggs", "date", "gotojob",
                           "fbcho", "fbcreat", "dxcho", "dscho", "vnmode"}
    PROVE  p_refresh(u, p) = if_marked(u, p)
<1>1. p = "fps" => p_refresh(u, p) = if_marked(u, p)
  BY Zenon DEF p_refresh, panel_refresh_fps
<1>2. p = "gotonode" => p_refresh(u, p) = if_marked(u, p)
  BY Zenon DEF p_refresh, panel_refresh_gotonode
<1>3. p = "sshot" => p_refresh(u, p) = if_marked(u, p)
  BY Zenon DEF p_refresh, panel_refresh_ss
<1>4. p = "status" => p_refresh(u, p) = if_marked(u, p)
  BY Zenon DEF p_refresh, panel_refresh_status
<1>5. p = "eggs" => p_refresh(u, p) = if_marked(u, p)
  BY Zenon DEF p_refresh, panel_refresh_eggs
<1>6. p = "date" => p_refresh(u, p) = if_marked(u, p)
  BY Zenon DEF p_refresh, panel_refresh_date
<1>7. p = "gotojob" => p_refresh(u, p) = if_marked(u, p)
  BY Zenon DEF p_refresh, panel_refresh_gotojob
<1>8. p = "fbcho" => p_refresh(u, p) = if_marked(u, p)
  BY Zenon DEF p_refresh, panel_refresh_fbcho
<1>9. p = "fbcreat" => p_refresh(u, p) = if_marked(u, p)
  BY Zenon DEF p_refresh, panel_refresh_fbnew
<1>10. p = "dxcho" => p_refresh(u, p) = if_marked(u, p)
  BY Zenon DEF p_refresh, panel_refresh_dxcho
<1>11. p = "dscho" => p_refresh(u, p) = if_marked(u, p)
  BY Zenon DEF p_refresh, panel_refresh_dscho
<1>12. p = "vnmode" => p_refresh(u, p) = if_marked(u, p)
  BY Zenon DEF p_refresh, panel_refresh_vnmode
<1> QED BY <1>1, <1>2, <1>3, <1>4, <1>5, <1>6, <1>7, <1>8, <1>9, <1>10, <1>11, <1>12

LEMMA ByCopy ==
    ASSUME NEW u, NEW p \in {"options", "panels", "vmode", "dmode", "reel", "pipe", "wiadj",
                           "rt", "keyh", "pipedim"}
    PROVE  p_refresh(u, p) = if_saved_differs(u, p, Saved(p))
<1>1. p = "options" => p_refresh(u, p) = if_saved_differs(u, p, Saved(p))
  BY SavedBy, Zenon DEF p_refresh, panel_refresh_opts
<1>2. p = "panels" => p_refresh(u, p) = if_saved_differs(u, p, Saved(p))
  BY SavedBy, Zenon DEF p_refresh, panel_refresh_panels
<1>3. p = "vmode" => p_refresh(u, p) = if_saved_differs(u, p, Saved(p))
  BY SavedBy, Zenon DEF p_refresh, panel_refresh_vmode
<1>4. p = "dmode" => p_refresh(u, p) = if_saved_differs(u, p, Saved(p))
  BY SavedBy, Zenon DEF p_refresh, panel_refresh_dmode
<1>5. p = "reel" => p_refresh(u, p) = if_saved_differs(u, p, Saved(p))
  BY SavedBy, Zenon DEF p_refresh, panel_refresh_reel
<1>6. p = "pipe" => p_refresh(u, p) = if_saved_differs(u, p, Saved(p))
  BY SavedBy, Zenon DEF p_refresh, panel_refresh_pipe
<1>7. p = "wiadj" => p_refresh(u, p) = if_saved_differs(u, p, Saved(p))
  BY SavedBy, Zenon DEF p_refresh, panel_refresh_wiadj
<1>8. p = "rt" => p_refresh(u, p) = if_saved_differs(u, p, Saved(p))
  BY SavedBy, Zenon DEF p_refresh, panel_refresh_rt
<1>9. p = "keyh" => p_refresh(u, p) = if_saved_differs(u, p, Saved(p))
  BY SavedBy, Zenon DEF p_refresh, panel_refresh_keyh
<1>10. p = "pipedim" => p_refresh(u, p) = if_saved_differs(u, p, Saved(p))
  BY SavedBy, Zenon DEF p_refresh, panel_refresh_pipedim
<1> QED BY <1>1, <1>2, <1>3, <1>4, <1>5, <1>6, <1>7, <1>8, <1>9, <1>10

(* A panel whose refresh function looks at no other mark.                  *)
LEMMA NoOtherMark ==
    ASSUME group \subseteq Panel, NEW u \in Worlds, NEW p \in group, NEW l,
           Known(u, l, p), Drawn(u, p), ready(u, p),
           p \notin {"ninfo", "cmd", "help", "legend"},
           p \notin {"cam", "compass"} \/ "RF_CAM" \notin u.rf
    PROVE  Still(u, l, p)
BY DEF Still, Due, ready

LEMMA RefreshUnclean ==
    ASSUME group \subseteq Panel, NEW u \in Worlds, NEW p \in group, NEW l,
           Known(u, l, p), Drawn(u, p), p \in {"ninfo", "cmd", "legend"},
           NEW v, v = p_refresh(u, p)
    PROVE  Fine(u, v, l, p)
<1>0. CopyCurrent(u, p)  BY SavedBy, Compares
<1>1. CASE p = "cmd"
  <2> DEFINE clean == "cmd" \in u.clean["selnode"]
  <2>1. v = if_unclean(u, p, {"selnode"}, clean)
    BY <1>1, Zenon DEF p_refresh, panel_refresh_cmd
  <2>2. clean /\ ready(u, p) => Still(u, l, p)  BY <1>1 DEF Still, Due, ready
  <2> HIDE DEF clean
  <2> QED BY <1>0, <2>1, <2>2, IfUnclean
<1>2. CASE p = "legend"
  <2> DEFINE clean == "legend" \in u.clean["dmode_data"] \cap u.clean["hlnc"]
  <2>1. v = if_unclean(u, p, {"dmode_data", "hlnc"}, clean)
    BY <1>2, Zenon DEF p_refresh, panel_refresh_legend
  <2>2. clean /\ ready(u, p) => Still(u, l, p)  BY <1>2 DEF Still, Due, ready, Uinp
  <2> HIDE DEF clean
  <2> QED BY <1>0, <2>1, <2>2, IfUnclean
<1>3. CASE p = "ninfo"
  <2> DEFINE clean == /\ "ninfo" \in u.clean["selnode"]
                      /\ u.src["sel"] = 0 \/ "ninfo" \in u.clean["dmode_data"]
  <2>1. v = if_unclean(u, p, {"dmode_data", "selnode"}, clean)
    BY <1>3, Zenon DEF p_refresh, panel_refresh_ninfo
  <2>2. ASSUME clean, ready(u, p) PROVE Still(u, l, p)
    <3>1. u.src["sel"] = 0 => Told(u, p) \subseteq {"sel"}
      <4>1. u.src["sel"] = 0 => Reads(u, p) = {"sel"}  BY <1>3, Zenon DEF Reads
      <4> QED BY <4>1 DEF Told
    <3> QED BY <1>3, <2>2, <3>1 DEF Still, Due, ready, Uinp
  <2> HIDE DEF clean
  <2> QED BY <1>0, <2>1, <2>2, IfUnclean
<1> QED BY <1>1, <1>2, <1>3

LEMMA RefreshHelp ==
    ASSUME group \subseteq Panel, NEW u \in Worlds, NEW p \in group, NEW l,
           Known(u, l, p), Drawn(u, p), p = "help", NEW v, v = p_refresh(u, p)
    PROVE  Fine(u, v, l, p)
<1> DEFINE now == snapshot(u, Saved(p))
           s == [u EXCEPT !.sav[p] = now]
           clean == u.sav[p] = now /\ "help" \in u.clean["selnode"]
<1>1. s \in Worlds /\ Aside(u, s, p) /\ CopyCurrent(s, p) /\ s.pan = u.pan /\ s.clean = u.clean
      /\ s.typed = u.typed /\ s.sav[p] = now
  <2>1. s = [u EXCEPT !.sav[p] = snapshot(u, Saved(p))]  OBVIOUS
  <2> HIDE DEF s
  <2> QED BY ONLY group \subseteq Panel, u \in Worlds, p \in group, <2>1, SavePut
<1>2. v = if_unclean(s, p, {"selnode"}, clean)
  BY SavedBy, Zenon DEF p_refresh, panel_refresh_help
<1>3. ASSUME clean, ready(s, p) PROVE Still(s, l, p)
  <2>1. s.src = u.src /\ s.focus = u.focus /\ s.rf = u.rf  BY <1>1 DEF Aside
  <2>3. s.sav[p] = u.sav[p]  BY <1>1, <1>3
  <2> HIDE DEF s, clean
  <2>2. Told(s, p) = Told(u, p)  BY <2>1, SameSight
  <2>4. Known(s, l, p) /\ Drawn(s, p)
    BY <1>1, <2>1, <2>2, <2>3 DEF Known, Drawn, Copied, Current, Late, Due
  <2>5. "help" \in s.clean["selnode"]  BY <1>1, <1>3 DEF clean
  <2> QED BY <2>4, <2>5, <1>3 DEF Still, Due, ready, Uinp
<1> HIDE DEF s, clean
<1>4. Fine(s, v, l, p)  BY <1>1, <1>2, <1>3, IfUnclean
<1> QED BY <1>1, <1>4, AsideTwice DEF Fine

LEMMA RefreshFlyby ==
    ASSUME group \subseteq Panel, NEW u \in Worlds, NEW p \in group, NEW l,
           Known(u, l, p), Drawn(u, p), p = "fbstat", NEW v, v = p_refresh(u, p)
    PROVE  Fine(u, v, l, p)
<1> DEFINE now == snapshot(u, Saved(p))
           s == [u EXCEPT !.sav[p] = now]
<1>1. s \in Worlds /\ Aside(u, s, p) /\ CopyCurrent(s, p)  BY SavePut
<1>2. v = IF u.sav[p] = now THEN if_marked(u, p) ELSE panel_set_content(s, p)
  BY SavedBy, Zenon DEF p_refresh, panel_refresh_flyby
<1>3. CASE u.sav[p] = now
  <2>1. CopyCurrent(u, p)  BY <1>3, Compares
  <2>2. ready(u, p) => Still(u, l, p)  BY NoOtherMark
  <2> QED BY <1>2, <1>3, <2>1, <2>2, IfMarked
<1>4. CASE u.sav[p] # now
  <2>1. v = panel_set_content(s, p)  BY <1>2, <1>4
  <2> HIDE DEF s
  <2> QED BY <1>1, <2>1, Recomposed
<1> QED BY <1>3, <1>4

LEMMA RefreshCamera ==
    ASSUME group \subseteq Panel, NEW u \in Worlds, NEW p \in group, NEW l,
           Known(u, l, p), Drawn(u, p), p \in {"cam", "compass"}, NEW v, v = p_refresh(u, p)
    PROVE  Fine(u, v, l, p)
<1>1. CopyCurrent(u, p)  BY SavedBy, Compares
<1>2. v = IF "RF_CAM" \in u.rf THEN panel_set_content(u, p) ELSE if_marked(u, p)
  <2>1. CASE p = "cam"  BY <2>1, Zenon DEF p_refresh, panel_refresh_pos
  <2>2. CASE p = "compass"  BY <2>2, Zenon DEF p_refresh, panel_refresh_cmp
  <2> QED BY <2>1, <2>2
<1>3. CASE "RF_CAM" \in u.rf
  <2>1. v = panel_set_content(u, p)  BY <1>2, <1>3
  <2>2. Aside(u, u, p)  BY DEF Aside
  <2> QED BY <1>1, <2>1, <2>2, Recomposed
<1>4. CASE "RF_CAM" \notin u.rf
  <2>1. v = if_marked(u, p)  BY <1>2, <1>4
  <2>2. ready(u, p) => Still(u, l, p)  BY <1>4, NoOtherMark
  <2> QED BY <1>1, <2>1, <2>2, IfMarked
<1> QED BY <1>3, <1>4

LEMMA RefreshLogin ==
    ASSUME group \subseteq Panel, NEW u \in Worlds, NEW p \in group, NEW l,
           Known(u, l, p), Drawn(u, p), p = "login", NEW v, v = p_refresh(u, p)
    PROVE  Fine(u, v, l, p)
<1> DEFINE t == if_marked(u, p)
<1>1. CopyCurrent(u, p)  BY SavedBy, Compares
<1>2. ready(u, p) => Still(u, l, p)  BY NoOtherMark
<1>3. Fine(u, t, l, p)  BY <1>1, <1>2, IfMarked
<1>4. v = t \/ v = [t EXCEPT !.ssl = FALSE]  BY Zenon DEF p_refresh, panel_refresh_login
<1> HIDE DEF t
<1>5. ASSUME v = [t EXCEPT !.ssl = FALSE] PROVE Fine(u, v, l, p)
  <2>1. /\ v \in Worlds /\ v.pan = t.pan /\ v.sav = t.sav /\ v.clean = t.clean
        /\ v.src = t.src /\ v.rf = t.rf /\ v.lost = t.lost /\ v.focus = t.focus
        /\ v.list = t.list /\ v.typed = t.typed
    BY <1>3, <1>5 DEF Fine, Worlds
  <2>2. Told(v, p) = Told(t, p) /\ \A s : val(v, s) = val(t, s)  BY <2>1, SameSight
  <2>3. Shows(v, l, p) /\ CopyCurrent(v, p) /\ Drawn(v, p)
    BY <1>3, <2>1, <2>2 DEF Fine, Shows, Copied, Current, CopyCurrent, Drawn
  <2>4. Aside(t, v, p)  BY <2>1 DEF Aside
  <2> QED BY <1>3, <2>1, <2>3, <2>4, AsideTwice DEF Fine
<1> QED BY <1>3, <1>4, <1>5

(* pi_refresh, for each panel of pinfo[].                                  *)
LEMMA Refreshes ==
    ASSUME group \subseteq Panel, NEW u \in Worlds, NEW p \in group, NEW l,
           Known(u, l, p), Drawn(u, p), NEW v, v = p_refresh(u, p)
    PROVE  Fine(u, v, l, p)
<1>1. CASE p \in {"fps", "gotonode", "sshot", "status", "eggs", "date", "gotojob", "fbcho",
                  "fbcreat", "dxcho", "dscho", "vnmode"}
  <2>1. v = if_marked(u, p)  BY <1>1, ByMark
  <2>2. CopyCurrent(u, p)  BY <1>1, SavedBy, Compares
  <2>3. ready(u, p) => Still(u, l, p)  BY <1>1, NoOtherMark
  <2> QED BY <2>1, <2>2, <2>3, IfMarked
<1>2. CASE p \in {"options", "panels", "vmode", "dmode", "reel", "pipe", "wiadj",
                  "rt", "keyh", "pipedim"}
  <2>1. v = if_saved_differs(u, p, Saved(p))  BY <1>2, ByCopy
  <2>2. ready(u, p) => Still(u, l, p)  BY <1>2, NoOtherMark
  <2> QED BY <2>1, <2>2, IfSavedDiffers
<1>3. p \in Panel  OBVIOUS
<1> QED
  BY <1>1, <1>2, <1>3, RefreshUnclean, RefreshHelp, RefreshFlyby, RefreshCamera, RefreshLogin
  DEF Panel

-----------------------------------------------------------------------------
(* Lists and numbers.                                                      *)

LEMMA LeastNat == ASSUME NEW T, T \subseteq Nat, T # {} PROVE \E m \in T : \A n \in T : m <= n
<1> DEFINE R == {ss \in Nat \X Nat : ss[1] < ss[2]}
<1>0. R = OpToRel(<, Nat)  BY Zenon DEF OpToRel
<1>a. IsWellFoundedOn(R, Nat)  BY ONLY NatLessThanWellFounded, <1>0, Zenon
<1> HIDE DEF R
<1>1. PICK m \in T : \A y \in T : ~(<<y, m>> \in R)  BY <1>a, WFMin
<1>2. \A y \in T : ~(y < m)  BY <1>1 DEF R
<1> QED BY <1>2

(* What SubSeq returns.                                                    *)
LEMMA Part ==
    ASSUME NEW S, NEW l \in Seq(S), NEW m \in Nat \ {0}, NEW n \in m - 1 .. Len(l)
    PROVE  /\ SubSeq(l, m, n) \in Seq(S) /\ Len(SubSeq(l, m, n)) = n - (m - 1)
           /\ \A i \in 1 .. n - (m - 1) : SubSeq(l, m, n)[i] = l[(m - 1) + i]
<1>1. SubSeq(l, m, n) \in Seq(S)  OBVIOUS
<1>2. Len(SubSeq(l, m, n)) = n - (m - 1)  OBVIOUS
<1>3. ASSUME NEW i \in 1 .. n - (m - 1) PROVE SubSeq(l, m, n)[i] = l[(m - 1) + i]
  OBVIOUS
<1> QED BY <1>1, <1>2, <1>3

(* What remains when the first occurrence of n is taken out of l.          *)
LEMMA RemoveOne ==
    ASSUME NEW S, NEW l \in Seq(S), NEW n, n \in ToSet(l)
    PROVE  LET m == RemoveFirst(l, n) IN
           /\ m \in Seq(S) /\ Len(m) = Len(l) - 1
           /\ ToSet(l) \ {n} \subseteq ToSet(m) /\ ToSet(m) \subseteq ToSet(l)
           /\ IsInjective(l) => IsInjective(m) /\ n \notin ToSet(m)
<1> DEFINE I == {i \in 1 .. Len(l) : l[i] = n}
           k == Min(I)
           m == RemoveAt(l, k)
<1>0. Len(l) \in Nat /\ DOMAIN l = 1 .. Len(l)  OBVIOUS
<1>1. I # {} /\ I \subseteq Nat  BY <1>0 DEF ToSet
<1>2. k \in I
  <2> HIDE DEF I
  <2>1. \E x \in I : \A y \in I : x <= y  BY <1>1, LeastNat
  <2>2. k = CHOOSE x \in I : \A y \in I : x <= y  BY Zenon DEF Min
  <2> QED BY <2>1, <2>2
<1>3. RemoveFirst(l, n) = m
  <2>1. \E i \in 1 .. Len(l) : l[i] = n  BY <1>1
  <2>2. SelectInSeq(l, LAMBDA v : v = n) = k  BY <1>1 DEF SelectInSeq
  <2> QED BY <2>1, <2>2 DEF RemoveFirst
<1>k. k \in 1 .. Len(l) /\ l[k] = n  BY <1>2
<1> HIDE DEF I, k
<1> DEFINE a == SubSeq(l, 1, k - 1)
           b == SubSeq(l, k + 1, Len(l))
<1>a. a \in Seq(S) /\ Len(a) = k - 1 /\ \A i \in 1 .. k - 1 : a[i] = l[i]
  <2>1. /\ a \in Seq(S) /\ Len(a) = k - 1 - (1 - 1)
        /\ \A i \in 1 .. k - 1 - (1 - 1) : a[i] = l[1 - 1 + i]
    <3>1. 1 \in Nat \ {0} /\ k - 1 \in 1 - 1 .. Len(l)  BY <1>k, <1>0
    <3> QED BY <3>1, Part
  <2> QED BY <2>1, <1>k, <1>0
<1>b. b \in Seq(S) /\ Len(b) = Len(l) - k /\ \A i \in 1 .. Len(l) - k : b[i] = l[k + i]
  <2>1. /\ b \in Seq(S) /\ Len(b) = Len(l) - ((k + 1) - 1)
        /\ \A i \in 1 .. Len(l) - ((k + 1) - 1) : b[i] = l[((k + 1) - 1) + i]
    <3>1. k + 1 \in Nat \ {0} /\ Len(l) \in (k + 1) - 1 .. Len(l)  BY <1>k, <1>0
    <3> QED BY <3>1, Part
  <2>2. (k + 1) - 1 = k  BY <1>k, <1>0
  <2> QED BY <2>1, <2>2
<1>m. m = a \o b  BY Zenon DEF RemoveAt
<1> HIDE DEF a, b, m
<1>4. m \in Seq(S) /\ Len(m) = Len(l) - 1  BY <1>a, <1>b, <1>m, <1>k, <1>0
<1>5. \A i \in 1 .. Len(m) : m[i] = IF i < k THEN l[i] ELSE l[i + 1]
  <2> SUFFICES ASSUME NEW i \in 1 .. Len(m) PROVE m[i] = IF i < k THEN l[i] ELSE l[i + 1]
    OBVIOUS
  <2>1. CASE i < k
    <3>1. i \in 1 .. k - 1 /\ m[i] = a[i]
      BY ONLY <2>1, <1>a, <1>b, <1>m, <1>4, <1>k, <1>0, i \in 1 .. Len(m)
    <3> QED BY <3>1, <1>a, <2>1
  <2>2. CASE i >= k
    <3>1. i - (k - 1) \in 1 .. Len(l) - k /\ m[i] = b[i - (k - 1)]
      BY ONLY <2>2, <1>a, <1>b, <1>m, <1>4, <1>k, <1>0, i \in 1 .. Len(m)
    <3>2. k + (i - (k - 1)) = i + 1  BY ONLY <1>k, <1>0, i \in 1 .. Len(m), <1>4
    <3> QED BY <3>1, <3>2, <1>b, <2>2, <1>k, <1>0
  <2> QED BY <2>1, <2>2, <1>k, <1>0, <1>4
<1>d. DOMAIN m = 1 .. Len(m)  BY <1>4
<1>6. ASSUME NEW i \in DOMAIN l, i # k PROVE l[i] \in ToSet(m)
  <2>1. CASE i < k
    <3>1. i \in DOMAIN m /\ m[i] = l[i]  BY <2>1, <1>4, <1>5, <1>d, <1>0, <1>k
    <3> QED BY <3>1 DEF ToSet
  <2>2. CASE i > k
    <3>1. i - 1 \in DOMAIN m /\ m[i - 1] = l[i]  BY <2>2, <1>4, <1>5, <1>d, <1>0, <1>k
    <3> QED BY <3>1 DEF ToSet
  <2> QED BY <2>1, <2>2, <1>6, <1>0, <1>k
<1>7. \A i \in DOMAIN m : \E j \in DOMAIN l :
         j # k /\ m[i] = l[j] /\ j = (IF i < k THEN i ELSE i + 1)
  BY <1>4, <1>5, <1>d, <1>0, <1>k
<1>8. ToSet(l) \ {n} \subseteq ToSet(m)  BY <1>6, <1>k DEF ToSet
<1>9. ToSet(m) \subseteq ToSet(l)  BY <1>7 DEF ToSet
<1>10. ASSUME IsInjective(l) PROVE IsInjective(m) /\ n \notin ToSet(m)
  <2>1. \A i \in DOMAIN m : m[i] # n  BY <1>7, <1>10, <1>k, <1>0 DEF IsInjective
  <2>2. ASSUME NEW i \in DOMAIN m, NEW j \in DOMAIN m, m[i] = m[j] PROVE i = j
    <3>1. (IF i < k THEN i ELSE i + 1) = (IF j < k THEN j ELSE j + 1)
      BY <2>2, <1>7, <1>10 DEF IsInjective
    <3> QED BY <3>1, <1>d, <1>4, <1>k, <1>0
  <2> QED BY <2>1, <2>2 DEF IsInjective, ToSet
<1> QED BY <1>3, <1>4, <1>8, <1>9, <1>10 DEF m

LEMMA SeqFacts ==
    ASSUME NEW S, NEW l \in Seq(S)
    PROVE  /\ Len(l) \in Nat /\ DOMAIN l = 1 .. Len(l)
           /\ \A i \in 1 .. Len(l) : l[i] \in ToSet(l) /\ l[i] \in S
           /\ \A p \in ToSet(l) : p \in S /\ \E i \in 1 .. Len(l) : l[i] = p
BY DEF ToSet

-----------------------------------------------------------------------------
(* draw_panels(): one panel after the other.                               *)

Begins(u, l) ==
    /\ u \in Worlds /\ IsInjective(u.list) /\ FocusOk(u)
    /\ \A p \in ToSet(u.list) : Known(u, l, p) /\ Drawn(u, p)

(* p is as it was, but may have to be drawn.                               *)
Waits(u, v, p) ==
    /\ p \in ToSet(v.list)
    /\ v.pan[p].str = u.pan[p].str /\ v.pan[p].dl = u.pan[p].dl
    /\ v.pan[p].refresh = u.pan[p].refresh /\ v.pan[p].remove = u.pan[p].remove
    /\ v.sav[p] = u.sav[p]
    /\ \A x \in Word : p \in v.clean[x] <=> p \in u.clean[x]

Finished(u, v, l, p) ==
    p \in ToSet(v.list) => Shows(v, l, p) /\ (v.list = u.list => CopyCurrent(v, p))

(* v is what u has become when i panels of its list have been drawn.       *)
Stage(u, v, l, i) ==
    /\ v \in Worlds /\ IsInjective(v.list) /\ FocusOk(v)
    /\ ToSet(v.list) \subseteq ToSet(u.list)
    /\ v.list = u.list \/ Len(v.list) < Len(u.list)
    /\ v.src = u.src /\ v.rf = u.rf /\ v.lost = u.lost /\ v.focus = u.focus
    /\ v.typed = u.typed \/ \E j \in 1 .. i : u.list[j] \in Uinp
    /\ \A p \in ToSet(v.list) : Drawn(v, p)
    /\ \A j \in 1 .. i : Finished(u, v, l, u.list[j])
    /\ \A j \in i + 1 .. Len(u.list) : Waits(u, v, u.list[j])

LEMMA StageBegins ==
    ASSUME NEW u, NEW l, Begins(u, l) PROVE Stage(u, u, l, 0)
<1>1. u.list \in Seq(group)  BY DEF Begins, Worlds
<1> QED BY <1>1, SeqFacts DEF Begins, Stage, Waits

(* The next panel of the list is still as it was.                          *)
LEMMA NextKnown ==
    ASSUME group \subseteq Panel, NEW u, NEW l, Begins(u, l), NEW v,
           NEW i \in 1 .. Len(u.list), Stage(u, v, l, i - 1),
           NEW p, p = u.list[i]
    PROVE  p \in group /\ p \in ToSet(v.list) /\ Known(v, l, p) /\ Drawn(v, p)
           /\ v.pan[p].remove = u.pan[p].remove
<1>1. u.list \in Seq(group) /\ v.list \in Seq(group)  BY DEF Begins, Stage, Worlds
<1>2. Len(u.list) \in Nat /\ i \in i - 1 + 1 .. Len(u.list) /\ i \in Nat  BY <1>1
<1>3. Waits(u, v, p) /\ p \in group  BY <1>1, <1>2, SeqFacts DEF Stage
<1>4. p \in ToSet(u.list) /\ Known(u, l, p) /\ Drawn(v, p)
  BY <1>1, <1>3, SeqFacts DEF Begins, Stage, Waits
<1>5. Told(v, p) = Told(u, p) /\ v.src = u.src /\ v.rf = u.rf  BY SameSight DEF Stage
<1>6. ASSUME NEW s \in Told(u, p), Due(u, p, s) PROVE Due(v, p, s)
  <2>1. CASE p \in Uinp /\ s = "buf" /\ u.typed /\ ~v.typed
    <3>1. group \cap Uinp = {p}  BY <1>3, <2>1, WhoSees
    <3>2. PICK j \in 1 .. i - 1 : u.list[j] \in Uinp  BY <2>1 DEF Stage
    <3>3. j \in 1 .. Len(u.list) /\ j # i  BY <1>1, <1>2, <3>2
    <3>4. u.list[j] = p  BY <1>1, <3>1, <3>2, <3>3, SeqFacts
    <3>5. FALSE  BY <1>1, <3>3, <3>4, SeqFacts DEF Begins, IsInjective
    <3> QED BY <3>5
  <2>2. CASE ~(p \in Uinp /\ s = "buf" /\ u.typed /\ ~v.typed)
    BY <1>3, <1>5, <1>6, <2>2 DEF Waits, Due, Word
  <2> QED BY <2>1, <2>2
<1>7. Known(v, l, p)
  BY <1>3, <1>4, <1>5, <1>6 DEF Known, Copied, Current, Late, Waits
<1> QED BY <1>3, <1>4, <1>7 DEF Waits

(* A refresh of the next panel.                                            *)
LEMMA StageFine ==
    ASSUME group \subseteq Panel, NEW u, NEW l, Begins(u, l), NEW v,
           NEW i \in 1 .. Len(u.list), Stage(u, v, l, i - 1),
           NEW p, p = u.list[i], NEW x, Fine(v, x, l, p)
    PROVE  Stage(u, x, l, i)
<1>1. u.list \in Seq(group) /\ v.list \in Seq(group)  BY DEF Begins, Stage, Worlds
<1>2. Len(u.list) \in Nat /\ i \in Nat  BY <1>1
<1>3. p \in group /\ p \in ToSet(v.list)  BY NextKnown
<1>4. x \in Worlds /\ Aside(v, x, p) /\ Shows(x, l, p) /\ CopyCurrent(x, p) /\ Drawn(x, p)
  BY DEF Fine
<1>5. /\ x.list = v.list /\ x.src = v.src /\ x.focus = v.focus
      /\ \A q \in group : x.pan[q].remove = v.pan[q].remove
  BY <1>4 DEF Aside
<1>6. FocusOk(x)
  <2>1. v.focus \in {"none"} \cup group  BY DEF Stage, Worlds
  <2> QED BY <1>5, <2>1 DEF FocusOk, Stage
<1>7. ASSUME NEW q \in ToSet(x.list) PROVE Drawn(x, q)
  <2>1. CASE q = p  BY <2>1, <1>4
  <2>2. CASE q # p
    <3>1. q \in group \ {p} /\ Drawn(v, q)  BY <1>1, <1>5, <2>2, SeqFacts DEF Stage
    <3> QED BY <1>4, <3>1 DEF Aside, Drawn
  <2> QED BY <2>1, <2>2
<1>8. ASSUME NEW j \in 1 .. i PROVE Finished(u, x, l, u.list[j])
  <2>1. CASE j = i  BY <1>4, <2>1 DEF Finished
  <2>2. CASE j # i
    <3> DEFINE q == u.list[j]
    <3>1. j \in 1 .. i - 1 /\ j \in 1 .. Len(u.list)  BY <1>2, <2>2
    <3>2. q # p /\ q \in group  BY <1>1, <2>2, <3>1, SeqFacts DEF Begins, IsInjective
    <3>3. Finished(u, v, l, q)  BY <3>1 DEF Stage
    <3> HIDE DEF q
    <3>4. x.pan[q].str = v.pan[q].str /\ x.sav[q] = v.sav[q]  BY <1>4, <3>2 DEF Aside
    <3>6. Told(x, q) = Told(v, q) /\ \A s : val(x, s) = val(v, s)  BY ONLY <1>5, SameSight
    <3>5. Finished(u, x, l, q)
      BY <1>5, <3>3, <3>4, <3>6 DEF Finished, Shows, Copied, Current, CopyCurrent
    <3> QED BY <3>5 DEF q
  <2> QED BY <2>1, <2>2
<1>9. ASSUME NEW j \in i + 1 .. Len(u.list) PROVE Waits(u, x, u.list[j])
  <2> DEFINE q == u.list[j]
  <2>1. j \in i - 1 + 1 .. Len(u.list) /\ j \in 1 .. Len(u.list) /\ j # i  BY <1>2
  <2>2. q # p /\ q \in group  BY <1>1, <2>1, SeqFacts DEF Begins, IsInjective
  <2>3. Waits(u, v, q)  BY <2>1 DEF Stage
  <2> HIDE DEF q
  <2>4. Waits(u, x, q)  BY <1>4, <2>2, <2>3 DEF Waits, Aside
  <2> QED BY <2>4 DEF q
<1>10. x.typed = u.typed \/ \E j \in 1 .. i : u.list[j] \in Uinp
  <2>1. CASE p \in Uinp  BY <1>2, <2>1
  <2>2. CASE p \notin Uinp
    <3>1. x.typed = v.typed  BY <1>4, <2>2 DEF Aside
    <3>2. 1 .. i - 1 \subseteq 1 .. i  BY <1>2
    <3> QED BY <3>1, <3>2 DEF Stage
  <2> QED BY <2>1, <2>2
<1> QED
  BY <1>4, <1>5, <1>6, <1>7, <1>8, <1>9, <1>10 DEF Stage, Aside

(* It comes to rest: its display list is made.                             *)
LEMMA RestFine ==
    ASSUME group \subseteq Panel, NEW v, NEW x, NEW l, NEW p \in group, Fine(v, x, l, p),
           NEW y, y = [x EXCEPT !.pan[p].dl = x.pan[p].str, !.pan[p].dirty = FALSE]
    PROVE  Fine(v, y, l, p)
<1>1. x \in Worlds /\ Aside(v, x, p) /\ Shows(x, l, p) /\ CopyCurrent(x, p)  BY DEF Fine
<1> DEFINE r == [x.pan[p] EXCEPT !.dl = x.pan[p].str, !.dirty = FALSE]
<1>2. x.pan \in [group -> Pan] /\ x.pan[p] \in Pan  BY <1>1 DEF Worlds
<1>3. /\ r \in Pan /\ r.dl = r.str /\ r.str = x.pan[p].str
      /\ r.remove = x.pan[p].remove
  BY <1>2 DEF Pan
<1> DEFINE P == [x.pan EXCEPT ![p] = r]
<1>4. y = [x EXCEPT !.pan = P]  BY <1>2
<1> HIDE DEF r
<1>p. P \in [group -> Pan] /\ P[p] = r /\ \A q \in group \ {p} : P[q] = x.pan[q]
  BY <1>2, <1>3
<1> HIDE DEF P
<1>5. /\ y \in Worlds /\ y.pan[p] = r /\ y.sav = x.sav /\ y.clean = x.clean
      /\ y.src = x.src /\ y.rf = x.rf /\ y.lost = x.lost /\ y.focus = x.focus
      /\ y.list = x.list /\ y.typed = x.typed
      /\ \A q \in group \ {p} : y.pan[q] = x.pan[q]
  BY <1>1, <1>p, <1>4 DEF Worlds
<1>6. Aside(x, y, p)  BY <1>3, <1>5 DEF Aside
<1>7. Aside(v, y, p)  BY <1>1, <1>6, AsideTwice
<1>8. y.src = x.src /\ y.focus = x.focus /\ y.list = x.list  BY <1>5
<1>9. Told(y, p) = Told(x, p) /\ \A s : val(y, s) = val(x, s)  BY ONLY <1>8, SameSight
<1>10. Shows(y, l, p) /\ CopyCurrent(y, p) /\ Drawn(y, p)
  BY <1>1, <1>3, <1>5, <1>9 DEF Shows, Copied, Current, CopyCurrent, Drawn
<1> QED BY <1>5, <1>7, <1>10 DEF Fine

(* It leaves the window.                                                   *)
LEMMA StageGone ==
    ASSUME group \subseteq Panel, NEW u, NEW l, Begins(u, l), NEW v,
           NEW i \in 1 .. Len(u.list), Stage(u, v, l, i),
           NEW p, p = u.list[i], p \in ToSet(v.list), v.pan[p].remove,
           NEW y, y = [v EXCEPT !.list = RemoveFirst(@, p), !.pan[p] = NewPanel]
    PROVE  Stage(u, y, l, i)
<1> DEFINE m == RemoveFirst(v.list, p)
<1>1. u.list \in Seq(group) /\ v.list \in Seq(group) /\ v \in Worlds
  BY DEF Begins, Stage, Worlds
<1>2. Len(u.list) \in Nat /\ i \in Nat /\ Len(v.list) \in Nat  BY <1>1
<1>3. /\ m \in Seq(group) /\ Len(m) = Len(v.list) - 1
      /\ ToSet(v.list) \ {p} \subseteq ToSet(m) /\ ToSet(m) \subseteq ToSet(v.list)
      /\ IsInjective(m) /\ p \notin ToSet(m)
  BY <1>1, RemoveOne DEF Stage
<1>4. p \in group  BY <1>1, SeqFacts
<1>5. NewPanel \in Pan  BY NoText DEF NewPanel, Pan
<1> DEFINE P == [v.pan EXCEPT ![p] = NewPanel]
<1>6. y = [v EXCEPT !.list = m, !.pan = P]  OBVIOUS
<1>p. P \in [group -> Pan] /\ \A q \in group \ {p} : P[q] = v.pan[q]
  BY <1>1, <1>4, <1>5 DEF Worlds
<1> HIDE DEF m, P
<1>7. /\ y \in Worlds /\ y.list = m /\ y.sav = v.sav /\ y.clean = v.clean
      /\ y.src = v.src /\ y.rf = v.rf /\ y.lost = v.lost /\ y.focus = v.focus
      /\ y.typed = v.typed /\ \A q \in group \ {p} : y.pan[q] = v.pan[q]
  BY <1>1, <1>3, <1>p, <1>6 DEF Worlds
<1>8. ASSUME NEW q \in ToSet(m) PROVE q \in group \ {p} /\ q \in ToSet(v.list)
  <2>1. q \in group  BY <1>3, SeqFacts
  <2> QED BY <1>3, <2>1
<1>9. FocusOk(y)
  <2>0. p # "none"  BY <1>4 DEF Panel
  <2>1. v.focus # p  BY <2>0 DEF Stage, FocusOk
  <2>2. v.focus # "none" => v.focus \in group \ {p}  BY <1>1, <2>1 DEF Worlds
  <2> QED BY <1>3, <1>7, <2>1, <2>2 DEF FocusOk, Stage
<1>10. ASSUME NEW q \in ToSet(m) PROVE Drawn(y, q)
  <2>1. Drawn(v, q) /\ y.pan[q] = v.pan[q]  BY <1>7, <1>8 DEF Stage
  <2> QED BY <2>1 DEF Drawn
<1>11. y.list # u.list /\ Len(y.list) < Len(u.list)  BY <1>1, <1>2, <1>3, <1>7 DEF Stage
<1>12. ASSUME NEW j \in 1 .. i PROVE Finished(u, y, l, u.list[j])
  <2> DEFINE q == u.list[j]
  <2>1. SUFFICES ASSUME q \in ToSet(m) PROVE Shows(y, l, q)  BY <1>7, <1>11 DEF Finished
  <2>2. q \in group \ {p} /\ q \in ToSet(v.list)  BY <1>8, <2>1
  <2>3. Shows(v, l, q)  BY <2>2 DEF Stage, Finished
  <2> HIDE DEF q
  <2>4. y.src = v.src /\ y.focus = v.focus  BY <1>7
  <2>5. Told(y, q) = Told(v, q)  BY ONLY <2>4, SameSight
  <2> QED BY <1>7, <2>2, <2>3, <2>5 DEF Shows, Copied, Current
<1>13. ASSUME NEW j \in i + 1 .. Len(u.list) PROVE Waits(u, y, u.list[j])
  <2> DEFINE q == u.list[j]
  <2>1. j \in 1 .. Len(u.list) /\ j # i  BY <1>2
  <2>2. q # p /\ q \in group  BY <1>1, <2>1, SeqFacts DEF Begins, IsInjective
  <2>3. Waits(u, v, q)  BY DEF Stage
  <2> HIDE DEF q
  <2>4. Waits(u, y, q)  BY <1>3, <1>7, <2>2, <2>3 DEF Waits
  <2> QED BY <2>4 DEF q
<1> QED
  BY <1>3, <1>7, <1>9, <1>10, <1>11, <1>12, <1>13 DEF Stage

LEMMA StageNext ==
    ASSUME group \subseteq Panel, NEW u, NEW l, Begins(u, l), NEW v,
           NEW i \in 1 .. Len(u.list), Stage(u, v, l, i - 1),
           NEW gone, \A q \in gone : u.pan[q].remove, NEW still,
           NEW y, y = panel_draw(p_refresh(v, u.list[i]), u.list[i], gone, still)
    PROVE  Stage(u, y, l, i)
<1> DEFINE p == u.list[i]
           x == p_refresh(v, p)
<1>1. p \in group /\ p \in ToSet(v.list) /\ Known(v, l, p) /\ Drawn(v, p)
      /\ v.pan[p].remove = u.pan[p].remove
  BY NextKnown, SMTT(60)
<1>2. y = panel_draw(x, p, gone, still) /\ p = u.list[i] /\ x = p_refresh(v, p)  OBVIOUS
<1> HIDE DEF p, x
<1>3. Fine(v, x, l, p)  BY <1>1, <1>2, Refreshes DEF Stage
<1>4. Stage(u, x, l, i)  BY <1>2, <1>3, StageFine
<1>5. CASE y = x  BY <1>4, <1>5
<1>6. CASE p \in gone /\ y = [x EXCEPT !.list = RemoveFirst(@, p), !.pan[p] = NewPanel]
  <2>2. u.pan[p].remove  BY <1>6
  <2>3. x.pan[p].remove = u.pan[p].remove /\ x.list = v.list  BY <1>1, <1>3 DEF Fine, Aside
  <2>1. x.pan[p].remove /\ p \in ToSet(x.list)  BY <1>1, <2>2, <2>3
  <2>4. i \in 1 .. Len(u.list)  OBVIOUS
  <2>5. p = u.list[i]  BY <1>2
  <2> QED BY ONLY group \subseteq Panel, Begins(u, l), <2>4, <2>5, <1>4, <1>6, <2>1, StageGone
<1>7. CASE y = [x EXCEPT !.pan[p].dl = x.pan[p].str, !.pan[p].dirty = FALSE]
  <2>1. Fine(v, y, l, p)  BY <1>1, <1>3, <1>7, RestFine
  <2> QED BY <1>2, <2>1, StageFine
<1> QED BY <1>2, <1>5, <1>6, <1>7, Zenon DEF panel_draw

(* drawn is a recursive function: a least place at which Stage fails would *)
(* have one before it.                                                     *)
LEMMA DrawPanels ==
    ASSUME group \subseteq Panel, NEW u, NEW l, Begins(u, l),
           NEW gone, \A q \in gone : u.pan[q].remove, NEW still
    PROVE  Stage(u, draw_panels(u, gone, still), l, Len(u.list))
<1> DEFINE L == Len(u.list)
           next(v, p) == panel_draw(p_refresh(v, p), p, gone, still)
           G(g, k) == /\ DOMAIN g = 0 .. k
                      /\ g = [i \in 0 .. k |-> g[i]]
                      /\ \A i \in 0 .. k : g[i] = IF i = 0 THEN u ELSE next(g[i - 1], u.list[i])
           drawn == CHOOSE g : g = [i \in 0 .. L |-> IF i = 0 THEN u
                                                     ELSE next(g[i - 1], u.list[i])]
<1>0. L \in Nat  BY SeqFacts DEF Begins, Worlds
<1>t. \A i \in 1 .. L : \A v : Stage(u, v, l, i - 1) => Stage(u, next(v, u.list[i]), l, i)
  BY StageNext
<1>s. Stage(u, u, l, 0)  BY StageBegins
<1>5. draw_panels(u, gone, still) = drawn[L]  BY DEF draw_panels
<1> HIDE DEF L, next
<1>1. \A k \in 0 .. L : \E g : G(g, k)
  <2> DEFINE B == {k \in 0 .. L : ~ \E g : G(g, k)}
  <2>1. SUFFICES ASSUME B # {} PROVE FALSE  OBVIOUS
  <2>0. B \subseteq Nat  BY <1>0
  <2> HIDE DEF B
  <2>2. PICK k \in B : \A n \in B : k <= n  BY <2>0, <2>1, LeastNat
  <2> USE DEF B
  <2>3. k # 0
    <3>1. G([i \in 0 .. 0 |-> u], 0)  BY <1>0
    <3> QED BY <3>1
  <2>4. k - 1 \in 0 .. L /\ k \in 1 .. L /\ k \in Nat  BY <2>2, <2>3, <1>0
  <2>5. k - 1 \notin B  BY <2>2, <2>4
  <2>6. PICK g : G(g, k - 1)  BY <2>4, <2>5
  <2> DEFINE h == [i \in 0 .. k |-> IF i = k THEN next(g[k - 1], u.list[k]) ELSE g[i]]
  <2>7. ASSUME NEW i \in 0 .. k
        PROVE  h[i] = IF i = 0 THEN u ELSE next(h[i - 1], u.list[i])
    <3>1. CASE i = k  BY <3>1, <2>4, <2>7
    <3>2. CASE i # k
      <4>1. i \in 0 .. k - 1 /\ i \in 0 .. k  BY <3>2, <2>4
      <4>2. i # 0 => i - 1 \in 0 .. k /\ i - 1 # k  BY <4>1, <2>4
      <4>3. h[i] = g[i] /\ (i # 0 => h[i - 1] = g[i - 1])  BY <4>1, <4>2, <3>2
      <4> QED BY <4>1, <4>3, <2>6
    <3> QED BY <3>1, <3>2
  <2>8. G(h, k)  BY <2>7
  <2> QED BY <2>8, <2>2
<1>2. PICK g : G(g, L)  BY <1>1, <1>0
<1>3. g = [i \in 0 .. L |-> IF i = 0 THEN u ELSE next(g[i - 1], u.list[i])]
  <2>1. \A i \in 0 .. L : g[i] = IF i = 0 THEN u ELSE next(g[i - 1], u.list[i])  BY <1>2
  <2>2. g = [i \in 0 .. L |-> g[i]]  BY <1>2
  <2> QED BY <2>1, <2>2
<1>4. drawn = [i \in 0 .. L |-> IF i = 0 THEN u ELSE next(drawn[i - 1], u.list[i])]
  BY ONLY <1>3
<1> HIDE DEF drawn, G
<1>6. \A k \in 0 .. L : Stage(u, drawn[k], l, k)
  <2> DEFINE B == {k \in 0 .. L : ~Stage(u, drawn[k], l, k)}
  <2>1. SUFFICES ASSUME B # {} PROVE FALSE  OBVIOUS
  <2>0. B \subseteq Nat  BY <1>0
  <2> HIDE DEF B
  <2>2. PICK k \in B : \A n \in B : k <= n  BY <2>0, <2>1, LeastNat
  <2> USE DEF B
  <2>3. k # 0
    <3>1. drawn[0] = u  BY <1>4, <1>0
    <3> QED BY <3>1, <2>2, <1>s
  <2>4. k - 1 \in 0 .. L /\ k \in 1 .. L /\ k \in Nat  BY <2>2, <2>3, <1>0
  <2>5. Stage(u, drawn[k - 1], l, k - 1)  BY <2>2, <2>4
  <2>6. drawn[k] = next(drawn[k - 1], u.list[k])  BY <1>4, <2>4, <2>3
  <2> QED BY <2>2, <2>4, <2>5, <2>6, <1>t
<1> QED BY <1>5, <1>6, <1>0 DEF L

-----------------------------------------------------------------------------
(* Between frames: a handler marks the panels that see what it changes.    *)

Heeds(u, v) ==
    /\ v \in Worlds /\ v.list = u.list /\ v.sav = u.sav
    /\ v.focus = u.focus \/ v.focus = "none"
    /\ \A p \in group :
          /\ v.pan[p].str = u.pan[p].str /\ v.pan[p].dl = u.pan[p].dl
          /\ v.pan[p].remove = u.pan[p].remove \/ p # v.focus
          /\ u.pan[p].dirty => v.pan[p].dirty
          /\ u.pan[p].refresh => v.pan[p].refresh
    /\ \A x \in Word : v.clean[x] \subseteq u.clean[x]
    /\ "RF_CAM" \in u.rf => "RF_CAM" \in v.rf
    /\ Pending(u) => Pending(v)
    /\ u.typed => v.typed \/ v.focus = "none" \/ v.pan[v.focus].refresh
    /\ v.src["sel"] = u.src["sel"] \/ v.clean["selnode"] = {}
    /\ \A p \in ToSet(v.list) : \A s \in Told(v, p) :
          v.src[s] = u.src[s] \/ Late(v, Pending(v), p, s)

LEMMA SameReads ==
    ASSUME NEW u, NEW v, NEW p \in Panel,
           v.src["sel"] = u.src["sel"] \/ p \notin {"ninfo", "cmd"}
    PROVE  Reads(v, p) = Reads(u, p)
<1> DEFINE R == Reads(u, p)
           S == Reads(v, p)
<1>1. R = Reads(u, p) /\ S = Reads(v, p)  OBVIOUS
<1> HIDE DEF R, S
<1>2. S = R  BY <1>1 DEF Reads, Panel
<1> QED BY <1>1, <1>2

LEMMA Heeded ==
    ASSUME group \subseteq Panel, NEW u, Good(u), NEW v, Heeds(u, v)
    PROVE  Good(v)
<1>1. v \in Worlds /\ u \in Worlds /\ v.list = u.list /\ IsInjective(v.list)
  BY DEF Good, Heeds
<1>2. \A p \in ToSet(v.list) : p \in group  BY <1>1, SeqFacts DEF Worlds
<1>3. FocusOk(v)
  <2>1. v.focus \in {"none"} \cup group  BY <1>1 DEF Worlds
  <2>2. CASE v.focus = "none"  BY <2>2 DEF FocusOk
  <2>3. CASE v.focus # "none"
    <3>1. v.focus = u.focus /\ v.focus \in group  BY <2>1, <2>3 DEF Heeds
    <3>2. u.focus \in ToSet(u.list) /\ ~u.pan[u.focus].remove  BY <2>3, <3>1 DEF Good, FocusOk
    <3>3. v.pan[v.focus].remove = u.pan[v.focus].remove  BY <3>1 DEF Heeds
    <3> QED BY <1>1, <3>1, <3>2, <3>3 DEF FocusOk
  <2> QED BY <2>2, <2>3
<1>4. ASSUME NEW p \in ToSet(v.list) PROVE Known(v, Pending(v), p) /\ Drawn(v, p)
  <2>1. p \in group /\ p \in Panel  BY <1>2
  <2>2. Known(u, Pending(u), p) /\ Drawn(u, p)  BY <1>1 DEF Good
  <2>3. v.pan[p].str = u.pan[p].str /\ v.pan[p].dl = u.pan[p].dl /\ v.sav = u.sav
        /\ (u.pan[p].dirty => v.pan[p].dirty)
    BY <2>1 DEF Heeds
  <2>4. Drawn(v, p)  BY <2>2, <2>3 DEF Drawn
  <2>5. ASSUME NEW s \in Told(v, p), v.pan[p].str # NoStr, ~Late(v, Pending(v), p, s)
        PROVE  Current(v, p, s)
    <3>1. v.src[s] = u.src[s]  BY <2>5 DEF Heeds
    <3>2. p \in {"ninfo", "cmd"} => v.src["sel"] = u.src["sel"]
      BY <2>1, <2>5 DEF Heeds, Late, Due
    <3>3. Reads(v, p) = Reads(u, p)  BY <2>1, <3>2, SameReads
    <3>4. v.focus = u.focus \/ p # v.focus  BY <2>1 DEF Heeds, Panel
    <3>5. s \in Told(u, p)  BY <3>3, <3>4 DEF Told
    <3>6. ~Late(u, Pending(u), p, s)
      <4>1. CASE s = "buf" /\ p \in Uinp /\ u.typed
        <5>1. p = v.focus  BY <2>1, <4>1, WhoSees
        <5>2. v.focus # "none"  BY <2>1, <5>1 DEF Panel
        <5> QED BY <2>5, <4>1, <5>1, <5>2 DEF Heeds, Late, Due
      <4>2. CASE ~(s = "buf" /\ p \in Uinp /\ u.typed)
        BY <2>1, <2>5, <4>2 DEF Heeds, Late, Due, Word
      <4> QED BY <4>1, <4>2
    <3> QED BY <2>2, <2>3, <2>5, <3>1, <3>5, <3>6 DEF Known, Current
  <2>6. v.pan[p].str # NoStr => Copied(v, p)  BY <2>2, <2>3 DEF Known, Copied
  <2> QED BY <2>4, <2>5, <2>6 DEF Known
<1> QED BY <1>1, <1>3, <1>4 DEF Good

LEMMA PutSource ==
    ASSUME NEW u \in Worlds, NEW s, NEW x \in Int
    PROVE  [u.src EXCEPT ![s] = x] \in [Stored -> Int]
<1>1. u.src \in [Stored -> Int]  BY DEF Worlds
<1> QED BY <1>1

LEMMA Tremoved ==
    ASSUME group \subseteq Panel, NEW u \in Worlds, NEW p \in group,
           NEW v, v = panel_tremove(u, p)
    PROVE  /\ v \in Worlds /\ v.list = u.list /\ v.sav = u.sav /\ v.clean = u.clean
           /\ v.rf = u.rf /\ v.lost = u.lost /\ v.typed = u.typed
           /\ v.focus = IF p \in Uinp THEN "none" ELSE u.focus
           /\ \A s \in Stored : v.src[s] = u.src[s] \/ (s = "buf" /\ v.focus = "none")
           /\ \A q \in group : /\ v.pan[q].str = u.pan[q].str /\ v.pan[q].dl = u.pan[q].dl
                               /\ v.pan[q].refresh = u.pan[q].refresh
                               /\ u.pan[q].dirty => v.pan[q].dirty
                               /\ v.pan[q].remove = u.pan[q].remove \/ q = p
<1> DEFINE t == IF p \in Uinp /\ u.focus # "none"
                THEN [u EXCEPT !.src["buf"] = 0, !.focus = "none"] ELSE u
           r(q) == [u.pan[q] EXCEPT !.remove = IF q = p THEN ~@ ELSE @,
                        !.dirty = @ \/ (Stick(q) = Stick(p) /\ q \in ToSet(u.list))]
           P == [q \in group |-> r(q)]
<1>1. /\ t \in Worlds /\ t.list = u.list /\ t.sav = u.sav /\ t.clean = u.clean
      /\ t.rf = u.rf /\ t.lost = u.lost /\ t.typed = u.typed /\ t.pan = u.pan
  <2>1. CASE t = u  BY <2>1
  <2>2. CASE t = [u EXCEPT !.src["buf"] = 0, !.focus = "none"]
    <3>1. [u.src EXCEPT !["buf"] = 0] \in [Stored -> Int]  BY PutSource
    <3>2. t = [u EXCEPT !.src = [u.src EXCEPT !["buf"] = 0], !.focus = "none"]  BY <2>2
    <3> HIDE DEF t
    <3> QED BY <3>1, <3>2 DEF Worlds
  <2> QED BY <2>1, <2>2
<1>2. /\ t.focus = IF p \in Uinp THEN "none" ELSE u.focus
      /\ \A s \in Stored : t.src[s] = u.src[s] \/ (s = "buf" /\ t.focus = "none")
  BY DEF Worlds
<1>3. DOMAIN u.pan = group /\ \A q \in group : u.pan[q] \in Pan  BY DEF Worlds
<1>4. v = [t EXCEPT !.pan = P]
  <2>1. v = [t EXCEPT !.pan = [q \in DOMAIN t.pan |-> r(q)]]  BY DEF panel_tremove
  <2> QED BY <1>1, <1>3, <2>1
<1> HIDE DEF t
<1>5. ASSUME NEW q \in group
      PROVE  /\ r(q) \in Pan /\ r(q).str = u.pan[q].str /\ r(q).dl = u.pan[q].dl
             /\ r(q).refresh = u.pan[q].refresh /\ (u.pan[q].dirty => r(q).dirty)
             /\ r(q).remove = u.pan[q].remove \/ q = p
  <2>1. u.pan[q] \in Pan  BY <1>3
  <2>2. r(q) \in Pan /\ r(q).str = u.pan[q].str /\ r(q).dl = u.pan[q].dl
        /\ r(q).refresh = u.pan[q].refresh
    BY <2>1 DEF Pan
  <2>3. u.pan[q].dirty => r(q).dirty  BY <2>1 DEF Pan
  <2>4. r(q).remove = u.pan[q].remove \/ q = p  BY <2>1 DEF Pan
  <2> QED BY <2>2, <2>3, <2>4
<1> HIDE DEF r
<1>6. P \in [group -> Pan] /\ \A q \in group : P[q] = r(q)  BY <1>5
<1> HIDE DEF P
<1>7. /\ v \in Worlds /\ v.pan = P /\ v.list = t.list /\ v.sav = t.sav /\ v.clean = t.clean
      /\ v.rf = t.rf /\ v.lost = t.lost /\ v.typed = t.typed /\ v.focus = t.focus
      /\ v.src = t.src
  BY <1>1, <1>4, <1>6 DEF Worlds
<1> QED BY <1>1, <1>2, <1>5, <1>6, <1>7

LEMMA TremoveGood ==
    ASSUME group \subseteq Panel, NEW u, Good(u), NEW p \in group,
           NEW v, v = panel_tremove(u, p)
    PROVE  Good(v)
<1>0. u \in Worlds  BY DEF Good
<1>1. /\ v \in Worlds /\ v.list = u.list /\ v.sav = u.sav /\ v.clean = u.clean
      /\ v.rf = u.rf /\ v.lost = u.lost /\ v.typed = u.typed
      /\ v.focus = IF p \in Uinp THEN "none" ELSE u.focus
      /\ \A s \in Stored : v.src[s] = u.src[s] \/ (s = "buf" /\ v.focus = "none")
      /\ \A q \in group : /\ v.pan[q].str = u.pan[q].str /\ v.pan[q].dl = u.pan[q].dl
                          /\ v.pan[q].refresh = u.pan[q].refresh
                          /\ u.pan[q].dirty => v.pan[q].dirty
                          /\ v.pan[q].remove = u.pan[q].remove \/ q = p
  BY <1>0, Tremoved
<1>2. p # v.focus
  <2>1. p # "none"  BY DEF Panel
  <2>2. u.focus \in {"none"} \cup Uinp  BY <1>0 DEF Worlds
  <2> QED BY <1>1, <2>1, <2>2
<1>3. \A q \in ToSet(v.list) : q \in group /\ q \in Panel /\ q # "none"
  BY <1>0, <1>1, SeqFacts DEF Worlds, Panel
<1>4. \A q \in ToSet(v.list) : \A s \in Told(v, q) : v.src[s] = u.src[s]
  BY <1>1, <1>3, WhoSees
<1>5. v.src["sel"] = u.src["sel"]  BY <1>1 DEF Stored
<1>6. Heeds(u, v)  BY <1>1, <1>2, <1>4, <1>5 DEF Heeds, Pending
<1> QED BY <1>6, Heeded

(* v is u with the things in C changed, bits set and panels marked in the  *)
(* three words.                                                            *)
Puts(u, v, C) ==
    /\ v \in Worlds /\ v.list = u.list /\ v.pan = u.pan /\ v.sav = u.sav
    /\ v.focus = u.focus /\ v.typed = u.typed /\ v.lost = u.lost
    /\ u.rf \subseteq v.rf
    /\ \A x \in Word : v.clean[x] \subseteq u.clean[x]
    /\ \A s \in Stored \ C : v.src[s] = u.src[s]

LEMMA PutsTwice ==
    ASSUME NEW t, NEW u, NEW v, NEW C, NEW D, Puts(t, u, C), Puts(u, v, D)
    PROVE  Puts(t, v, C \cup D)
BY DEF Puts

LEMMA PutOne ==
    ASSUME NEW u \in Worlds, NEW s \in Stored, NEW x \in Int,
           NEW v, v = [u EXCEPT !.src[s] = x]
    PROVE  /\ Puts(u, v, {s}) /\ v.src[s] = x /\ v.rf = u.rf
           /\ \A r \in Stored \ {s} : v.src[r] = u.src[r]
<1> DEFINE f == [u.src EXCEPT ![s] = x]
<1>1. f \in [Stored -> Int]  BY PutSource
<1>2. f[s] = x /\ \A r \in Stored \ {s} : f[r] = u.src[r]  BY DEF Worlds
<1>3. v = [u EXCEPT !.src = f]  OBVIOUS
<1> HIDE DEF f
<1> QED BY <1>1, <1>2, <1>3 DEF Worlds, Puts

LEMMA FlagPuts ==
    ASSUME NEW u \in Worlds, NEW R \in SUBSET Flag, NEW v, v = flag(u, R)
    PROVE  Puts(u, v, {}) /\ v.rf = u.rf \cup R
BY DEF Worlds, Puts, flag

LEMMA HighlightPuts ==
    ASSUME NEW u \in Worlds, NEW x \in Int, NEW v, v = highlight(u, x)
    PROVE  Puts(u, v, {"hl"}) /\ v.clean["hlnc"] = {} /\ v.rf = u.rf
<1> DEFINE t == [u EXCEPT !.src["hl"] = x]
<1>1. Puts(u, t, {"hl"}) /\ t.rf = u.rf /\ t \in Worlds
  <2>1. "hl" \in Stored  BY DEF Stored
  <2> HIDE DEF t
  <2>2. t = [u EXCEPT !.src["hl"] = x]  BY DEF t
  <2> QED BY <2>1, <2>2, PutOne DEF Puts
<1>2. v = [t EXCEPT !.clean["hlnc"] = {}]  BY DEF highlight
<1> HIDE DEF t
<1>3. [t.clean EXCEPT !["hlnc"] = {}] \in [Word -> SUBSET group]  BY <1>1 DEF Worlds
<1>4. v = [t EXCEPT !.clean = [t.clean EXCEPT !["hlnc"] = {}]]  BY <1>2
<1>5. /\ v \in Worlds /\ v.list = t.list /\ v.pan = t.pan /\ v.sav = t.sav
      /\ v.focus = t.focus /\ v.typed = t.typed /\ v.lost = t.lost /\ v.rf = t.rf
      /\ v.src = t.src /\ v.clean = [t.clean EXCEPT !["hlnc"] = {}]
  BY <1>1, <1>3, <1>4 DEF Worlds
<1>6. v.clean["hlnc"] = {} /\ \A x1 \in Word : v.clean[x1] \subseteq t.clean[x1]
  BY <1>1, <1>5 DEF Worlds, Word
<1> QED BY <1>1, <1>5, <1>6 DEF Puts

LEMMA InList ==
    ASSUME group \subseteq Panel, NEW u \in Worlds, NEW p \in ToSet(u.list)
    PROVE  p \in group /\ p \in Panel
BY SeqFacts DEF Worlds

LEMMA PutGood ==
    ASSUME group \subseteq Panel, NEW u, Good(u), NEW v, NEW C, Puts(u, v, C),
           "sel" \in C => v.clean["selnode"] = {},
           \A p \in ToSet(v.list) : \A s \in C \cap Told(v, p) : Late(v, Pending(v), p, s)
    PROVE  Good(v)
<1>1. \A p \in ToSet(v.list) : \A s \in Told(v, p) : s \in Stored
  BY InList, WhoSees DEF Puts
<1>2. Heeds(u, v)  BY <1>1 DEF Puts, Heeds, Pending, Stored
<1> QED BY <1>2, Heeded

LEMMA Rebuilt ==
    ASSUME group \subseteq Panel, NEW u \in Worlds, NEW S, NEW v, v = panel_rebuild(u, S)
    PROVE  /\ v \in Worlds /\ v.list = u.list /\ v.sav = u.sav /\ v.clean = u.clean
           /\ v.src = u.src /\ v.rf = u.rf /\ v.lost = u.lost /\ v.typed = u.typed
           /\ v.focus = u.focus
           /\ \A p \in group : /\ v.pan[p].str = u.pan[p].str /\ v.pan[p].dl = u.pan[p].dl
                               /\ v.pan[p].remove = u.pan[p].remove
                               /\ v.pan[p].dirty = u.pan[p].dirty
                               /\ u.pan[p].refresh => v.pan[p].refresh
                               /\ p \in S /\ p \in ToSet(u.list) => v.pan[p].refresh
<1> DEFINE r(p) == [u.pan[p] EXCEPT !.refresh = @ \/ (p \in S /\ p \in ToSet(u.list))]
           P == [p \in group |-> r(p)]
<1>1. DOMAIN u.pan = group /\ \A p \in group : u.pan[p] \in Pan  BY DEF Worlds
<1>2. v = [u EXCEPT !.pan = [p \in DOMAIN u.pan |-> r(p)]]  BY DEF panel_rebuild
<1>3. v = [u EXCEPT !.pan = P]  BY <1>1, <1>2
<1>4. ASSUME NEW p \in group
      PROVE  /\ r(p) \in Pan /\ r(p).str = u.pan[p].str /\ r(p).dl = u.pan[p].dl
             /\ r(p).remove = u.pan[p].remove /\ r(p).dirty = u.pan[p].dirty
             /\ u.pan[p].refresh => r(p).refresh
             /\ p \in S /\ p \in ToSet(u.list) => r(p).refresh
  <2>1. u.pan[p] \in Pan  BY <1>1
  <2>2. r(p) \in Pan /\ r(p).str = u.pan[p].str /\ r(p).dl = u.pan[p].dl
        /\ r(p).remove = u.pan[p].remove /\ r(p).dirty = u.pan[p].dirty
    BY <2>1 DEF Pan
  <2>3. r(p).refresh <=> (u.pan[p].refresh \/ (p \in S /\ p \in ToSet(u.list)))
    BY <2>1 DEF Pan
  <2> QED BY <2>2, <2>3
<1> HIDE DEF r
<1>5. P \in [group -> Pan] /\ \A p \in group : P[p] = r(p)  BY <1>4
<1> HIDE DEF P
<1>6. /\ v \in Worlds /\ v.pan = P /\ v.list = u.list /\ v.sav = u.sav /\ v.clean = u.clean
      /\ v.src = u.src /\ v.rf = u.rf /\ v.lost = u.lost /\ v.typed = u.typed
      /\ v.focus = u.focus
  BY <1>3, <1>5 DEF Worlds
<1> QED BY <1>4, <1>5, <1>6

LEMMA PutRebuildGood ==
    ASSUME group \subseteq Panel, NEW u, Good(u), NEW t, NEW C, Puts(u, t, C), "sel" \notin C,
           NEW S, NEW v, v = panel_rebuild(t, S),
           \A p \in ToSet(t.list) : \A s \in C \cap Told(t, p) :
              p \in S \/ Late(t, Pending(t), p, s)
    PROVE  Good(v)
<1>1. /\ v \in Worlds /\ v.list = t.list /\ v.sav = t.sav /\ v.clean = t.clean
      /\ v.src = t.src /\ v.rf = t.rf /\ v.lost = t.lost /\ v.typed = t.typed
      /\ v.focus = t.focus
      /\ \A p \in group : /\ v.pan[p].str = t.pan[p].str /\ v.pan[p].dl = t.pan[p].dl
                          /\ v.pan[p].remove = t.pan[p].remove
                          /\ v.pan[p].dirty = t.pan[p].dirty
                          /\ t.pan[p].refresh => v.pan[p].refresh
                          /\ p \in S /\ p \in ToSet(t.list) => v.pan[p].refresh
  <2>1. t \in Worlds  BY DEF Puts
  <2> QED BY <2>1, Rebuilt
<1>2. ASSUME NEW p \in ToSet(v.list), NEW s \in Told(v, p)
      PROVE  v.src[s] = u.src[s] \/ Late(v, Pending(v), p, s)
  <2>1. p \in group /\ p \in Panel  BY <1>1, InList
  <2>2. s \in Stored  BY <2>1, WhoSees
  <2>3. t.src = v.src /\ t.focus = v.focus  BY <1>1
  <2>4. Told(t, p) = Told(v, p)  BY ONLY <2>3, SameSight
  <2>5. CASE s \notin C  BY <1>1, <2>2, <2>5 DEF Puts
  <2>6. CASE s \in C
    <3>1. p \in S \/ Late(t, Pending(t), p, s)  BY <1>1, <2>4, <2>6
    <3>2. Late(v, Pending(v), p, s)  BY <1>1, <2>1, <3>1 DEF Late, Due, Pending
    <3> QED BY <3>2
  <2> QED BY <2>5, <2>6
<1>3. v.src["sel"] = u.src["sel"]  BY <1>1 DEF Puts, Stored
<1>4. Heeds(u, v)  BY <1>1, <1>2, <1>3 DEF Heeds, Puts, Pending
<1> QED BY <1>4, Heeded

(* Letting go of the keyboard, or typing.                                  *)
LEMMA ReleaseGood ==
    ASSUME group \subseteq Panel, NEW u, Good(u), NEW v,
           v = [u EXCEPT !.src["buf"] = 0, !.focus = "none"]
    PROVE  Good(v) /\ v.list = u.list /\ v.focus = "none"
<1> DEFINE f == [u.src EXCEPT !["buf"] = 0]
<1>0. u \in Worlds  BY DEF Good
<1>1. f \in [Stored -> Int]  BY <1>0, PutSource
<1>2. f["sel"] = u.src["sel"] /\ \A s \in Stored \ {"buf"} : f[s] = u.src[s]
  BY <1>0 DEF Worlds, Stored
<1>3. v = [u EXCEPT !.src = f, !.focus = "none"]  OBVIOUS
<1> HIDE DEF f
<1>4. /\ v \in Worlds /\ v.src = f /\ v.focus = "none" /\ v.list = u.list /\ v.pan = u.pan
      /\ v.sav = u.sav /\ v.clean = u.clean /\ v.rf = u.rf /\ v.lost = u.lost
      /\ v.typed = u.typed
  BY <1>0, <1>1, <1>3 DEF Worlds
<1>5. ASSUME NEW p \in ToSet(v.list), NEW s \in Told(v, p) PROVE v.src[s] = u.src[s]
  <2>1. p \in Panel /\ p # "none"  BY <1>4, InList DEF Panel
  <2>2. s \in Stored /\ (s = "buf" => p = v.focus)  BY ONLY <2>1, s \in Told(v, p), WhoSees
  <2> QED BY <1>2, <1>4, <2>1, <2>2
<1>6. Heeds(u, v)  BY <1>2, <1>4, <1>5 DEF Heeds, Pending
<1> QED BY <1>4, <1>6, Heeded

LEMMA AddGood ==
    ASSUME group \subseteq Panel, NEW u, Good(u), NEW p \in group, p \notin ToSet(u.list),
           NEW v, v = panel_add(u, p)
    PROVE  Good(v)
<1> DEFINE over == [u EXCEPT !.src["buf"] = 0, !.focus = "none"]
           base == IF p \notin Uinp \/ u.focus = "none" THEN u ELSE panel_tremove(over, u.focus)
           key  == IF p \notin Uinp THEN base ELSE [base EXCEPT !.focus = p, !.typed = FALSE]
           atp  == IF p = "login" THEN 0 ELSE key.src["atpass"]
<1>1. Good(base) /\ base.list = u.list /\ (p \in Uinp => base.focus = "none")
  <2>1. CASE p \notin Uinp \/ u.focus = "none"  BY <2>1
  <2>2. CASE ~(p \notin Uinp \/ u.focus = "none")
    <3> DEFINE t == panel_tremove(over, u.focus)
    <3>1. Good(over) /\ over.list = u.list  BY ReleaseGood
    <3>2. u.focus \in group \cap Uinp  BY <2>2 DEF Good, Worlds
    <3>3. base = t  BY <2>2
    <3> HIDE DEF over
    <3>4. over \in Worlds  BY <3>1 DEF Good
    <3>5. t.list = over.list /\ t.focus = "none"  BY <3>2, <3>4, Tremoved
    <3>6. Good(t)  BY <3>1, <3>2, TremoveGood
    <3> HIDE DEF t, base
    <3> QED BY <3>1, <3>3, <3>5, <3>6
  <2> QED BY <2>1, <2>2
<1>2. v = [key EXCEPT !.list = Append(key.list, p), !.pan[p] = NewPanel, !.src["atpass"] = atp]
  BY Zenon DEF panel_add
<1> HIDE DEF base
<1>3. base \in Worlds  BY <1>1 DEF Good
<1>4. /\ key \in Worlds /\ key.list = base.list /\ key.pan = base.pan /\ key.sav = base.sav
      /\ key.clean = base.clean /\ key.src = base.src /\ key.rf = base.rf
      /\ key.lost = base.lost
      /\ key.focus = IF p \in Uinp THEN p ELSE base.focus
      /\ p \notin Uinp => key.typed = base.typed
  BY <1>3 DEF Worlds
<1> HIDE DEF key
<1>5. atp \in Int
  <2>1. key.src["atpass"] \in Int  BY <1>4 DEF Worlds, Stored
  <2> QED BY <2>1
<1> DEFINE f == [key.src EXCEPT !["atpass"] = atp]
           P == [key.pan EXCEPT ![p] = NewPanel]
           m == Append(key.list, p)
<1>6. f \in [Stored -> Int]  BY <1>4, <1>5, PutSource
<1>7. \A s \in Stored : f[s] = key.src[s] \/ (s = "atpass" /\ p = "login")
  BY <1>4 DEF Worlds
<1>8. NewPanel \in Pan  BY NoText DEF NewPanel, Pan
<1>9. P \in [group -> Pan] /\ P[p] = NewPanel /\ \A q \in group \ {p} : P[q] = key.pan[q]
  BY <1>4, <1>8 DEF Worlds
<1>l. key.list \in Seq(group)  BY <1>4 DEF Worlds
<1>10. /\ m \in Seq(group) /\ Len(m) = Len(key.list) + 1
       /\ m[Len(m)] = p /\ \A i \in 1 .. Len(key.list) : m[i] = key.list[i]
  BY <1>l
<1>11. v = [key EXCEPT !.list = m, !.pan = P, !.src = f]  BY <1>2
<1> HIDE DEF f, P, m
<1>12. /\ v \in Worlds /\ v.list = m /\ v.pan = P /\ v.src = f /\ v.sav = key.sav
       /\ v.clean = key.clean /\ v.rf = key.rf /\ v.lost = key.lost
       /\ v.focus = key.focus /\ v.typed = key.typed
  BY <1>4, <1>6, <1>9, <1>10, <1>11 DEF Worlds
<1>13. Len(key.list) \in Nat /\ DOMAIN key.list = 1 .. Len(key.list) /\ DOMAIN m = 1 .. Len(m)
  BY <1>l, <1>10, SeqFacts
<1>14. ToSet(m) = ToSet(key.list) \cup {p}
  <2>1. ASSUME NEW i \in DOMAIN m PROVE m[i] \in ToSet(key.list) \cup {p}
    <3>1. i = Len(m) \/ i \in 1 .. Len(key.list)  BY <1>10, <1>13
    <3> QED BY <1>10, <1>13, <3>1 DEF ToSet
  <2>2. ASSUME NEW i \in DOMAIN key.list PROVE key.list[i] \in ToSet(m)
    <3>1. i \in DOMAIN m /\ m[i] = key.list[i]  BY <1>10, <1>13
    <3> QED BY <3>1 DEF ToSet
  <2>3. p \in ToSet(m)
    <3>1. Len(m) \in DOMAIN m  BY <1>10, <1>13
    <3> QED BY <1>10, <3>1 DEF ToSet
  <2> QED BY <2>1, <2>2, <2>3 DEF ToSet
<1>15. IsInjective(m)
  <2>1. IsInjective(key.list) /\ p \notin ToSet(key.list)  BY <1>1, <1>4 DEF Good
  <2>2. ASSUME NEW i \in DOMAIN m, NEW j \in DOMAIN m, m[i] = m[j] PROVE i = j
    <3>1. (i = Len(m) \/ i \in DOMAIN key.list) /\ (j = Len(m) \/ j \in DOMAIN key.list)
      BY <1>10, <1>13
    <3>2. \A k \in DOMAIN key.list : m[k] = key.list[k] /\ m[k] # p
      BY <1>10, <1>13, <2>1 DEF ToSet
    <3> QED BY <1>10, <2>1, <2>2, <3>1, <3>2 DEF IsInjective
  <2> QED BY <2>2 DEF IsInjective
<1>16. FocusOk(v)
  <2>1. CASE p \in Uinp
    <3>1. v.focus = p /\ ~P[p].remove  BY <1>4, <1>9, <1>12, <2>1 DEF NewPanel
    <3> QED BY <1>12, <1>14, <3>1 DEF FocusOk
  <2>2. CASE p \notin Uinp
    <3>1. v.focus = base.focus /\ FocusOk(base) /\ base.focus \in {"none"} \cup (group \cap Uinp)
      BY <1>1, <1>3, <1>4, <1>12, <2>2 DEF Good, Worlds
    <3>2. CASE base.focus = "none"  BY <3>1, <3>2 DEF FocusOk
    <3>3. CASE base.focus # "none"
      <4>1. base.focus \in group \ {p} /\ base.focus \in ToSet(base.list)
            /\ ~base.pan[base.focus].remove
        BY <2>2, <3>1, <3>3 DEF FocusOk
      <4>2. P[base.focus] = base.pan[base.focus]  BY <1>4, <1>9, <4>1
      <4> QED BY <1>4, <1>12, <1>14, <3>1, <4>1, <4>2 DEF FocusOk
    <3> QED BY <3>2, <3>3
  <2> QED BY <2>1, <2>2
<1>17. ASSUME NEW q \in ToSet(v.list) PROVE Known(v, Pending(v), q) /\ Drawn(v, q)
  <2>1. q \in group /\ q \in Panel  BY <1>12, InList
  <2>2. CASE q = p  BY <1>9, <1>12, <2>2 DEF Known, Drawn, NewPanel
  <2>3. CASE q # p
    <3>1. q \in ToSet(base.list) /\ v.pan[q] = base.pan[q]
      BY <1>4, <1>9, <1>12, <1>14, <2>1, <2>3
    <3>2. Known(base, Pending(base), q) /\ Drawn(base, q)  BY <1>1, <3>1 DEF Good
    <3>3. Reads(v, q) = Reads(base, q)
      <4>1. v.src["sel"] = base.src["sel"]  BY <1>4, <1>7, <1>12 DEF Stored
      <4> QED BY <2>1, <4>1, SameReads
    <3>4. v.focus = base.focus \/ (v.focus # q /\ p \in Uinp)  BY <1>4, <1>12, <2>3
    <3>5. Told(v, q) \subseteq Told(base, q)  BY <3>3, <3>4 DEF Told
    <3>6. ASSUME NEW s \in Told(v, q) PROVE v.src[s] = base.src[s]
      BY <1>4, <1>7, <1>12, <2>1, <2>3, WhoSees
    <3>7. ASSUME NEW s \in Told(v, q), Late(base, Pending(base), q, s)
          PROVE  Late(v, Pending(v), q, s)
      <4>1. s = "buf" => q = v.focus  BY <2>1, WhoSees
      <4>2. s = "buf" => v.typed = base.typed  BY <1>4, <1>12, <2>3, <4>1
      <4> QED BY <1>4, <1>12, <3>1, <3>7, <4>2 DEF Late, Due, Pending
    <3>8. v.sav = base.sav  BY <1>4, <1>12
    <3>9. v.pan[q].str # NoStr => Copied(v, q)  BY <3>1, <3>2, <3>8 DEF Known, Copied
    <3>10. Known(v, Pending(v), q)
      BY <3>1, <3>2, <3>5, <3>6, <3>7, <3>9 DEF Known, Current
    <3>11. Drawn(v, q)  BY <3>1, <3>2 DEF Drawn
    <3> QED BY <3>10, <3>11
  <2> QED BY <2>2, <2>3
<1> QED BY <1>12, <1>15, <1>16, <1>17 DEF Good

LEMMA ToggleGood ==
    ASSUME group \subseteq Panel, NEW u, Good(u), NEW p \in group,
           NEW v, v = panel_toggle(u, p)
    PROVE  Good(v)
BY TremoveGood, AddGood DEF panel_toggle

LEMMA ShowGood ==
    ASSUME group \subseteq Panel, NEW u, Good(u), NEW p, NEW v, v = panel_show(u, p)
    PROVE  Good(v)
BY ToggleGood DEF panel_show

LEMMA HideGood ==
    ASSUME group \subseteq Panel, NEW u, Good(u), NEW p, NEW v, v = panel_hide(u, p)
    PROVE  Good(v)
<1>1. p \in ToSet(u.list) => p \in group  BY InList DEF Good
<1> QED BY <1>1, TremoveGood DEF panel_hide

LEMMA SelectGood ==
    ASSUME group \subseteq Panel, NEW u, Good(u), NEW x \in Int, NEW v, v = select(u, x)
    PROVE  Good(v)
<1> DEFINE a == [u EXCEPT !.src["sel"] = x]
           b == [a EXCEPT !.clean["selnode"] = {}]
           s == flag(b, {"RF_SELNODE"})
<1>0. u \in Worlds  BY DEF Good
<1>1. Puts(u, a, {"sel"})
  <2>1. "sel" \in Stored  BY DEF Stored
  <2>2. a = [u EXCEPT !.src["sel"] = x]  OBVIOUS
  <2> HIDE DEF a
  <2> QED BY <1>0, <2>1, <2>2, PutOne
<1> HIDE DEF a
<1>2. Puts(a, b, {}) /\ b.clean["selnode"] = {}
  <2>1. a \in Worlds  BY <1>1 DEF Puts
  <2>2. [a.clean EXCEPT !["selnode"] = {}] \in [Word -> SUBSET group]  BY <2>1 DEF Worlds
  <2> DEFINE c == [a.clean EXCEPT !["selnode"] = {}]
  <2>3. b = [a EXCEPT !.clean = c]  OBVIOUS
  <2>4. c["selnode"] = {} /\ \A y \in Word : c[y] \subseteq a.clean[y]
    BY <2>1 DEF Worlds, Word
  <2> HIDE DEF c, b
  <2> QED BY <2>1, <2>2, <2>3, <2>4 DEF Worlds, Puts, c
<1>3. s = [u EXCEPT !.src["sel"] = x, !.clean["selnode"] = {}, !.rf = @ \cup {"RF_SELNODE"}]
  BY <1>0 DEF flag, a, Worlds
<1> HIDE DEF b
<1>4. b \in Worlds  BY <1>2 DEF Puts
<1>5. Puts(b, s, {}) /\ s.clean["selnode"] = {}
  <2>1. {"RF_SELNODE"} \in SUBSET Flag  BY DEF Flag
  <2>2. s.clean = b.clean  BY <1>4 DEF flag, Worlds
  <2> QED BY <1>2, <1>4, <2>1, <2>2, FlagPuts
<1> HIDE DEF s
<1>6. Puts(u, s, {"sel"})
  <2>1. Puts(u, b, {"sel"} \cup {})  BY <1>1, <1>2, PutsTwice
  <2>2. Puts(u, s, {"sel"} \cup {} \cup {})  BY <1>5, <2>1, PutsTwice
  <2> QED BY <2>2
<1>7. Good(s)
  <2>1. ASSUME NEW p \in ToSet(s.list), "sel" \in Told(s, p) PROVE Late(s, Pending(s), p, "sel")
    <3>1. p \in Panel  BY <1>6, InList DEF Puts
    <3>2. p \in {"ninfo", "cmd", "help"}  BY ONLY <3>1, <2>1, WhoSees
    <3> QED BY <1>5, <3>2 DEF Late, Due
  <2> QED BY <1>5, <1>6, <2>1, PutGood
<1>8. v \in {u, s, panel_hide(s, "ninfo"), panel_show(s, "ninfo")}
  <2>1. \/ v = u
        \/ v = [u EXCEPT !.src["sel"] = x, !.clean["selnode"] = {}, !.rf = @ \cup {"RF_SELNODE"}]
        \/ v = panel_hide([u EXCEPT !.src["sel"] = x, !.clean["selnode"] = {},
                                    !.rf = @ \cup {"RF_SELNODE"}], "ninfo")
        \/ v = panel_show([u EXCEPT !.src["sel"] = x, !.clean["selnode"] = {},
                                    !.rf = @ \cup {"RF_SELNODE"}], "ninfo")
    BY Zenon DEF select
  <2> QED BY <1>3, <2>1
<1> QED BY <1>7, <1>8, HideGood, ShowGood

LEMMA HighlightGood ==
    ASSUME group \subseteq Panel, NEW u, Good(u), NEW x \in Int, NEW v, v = highlight(u, x)
    PROVE  Good(v)
<1>1. Puts(u, v, {"hl"}) /\ v.clean["hlnc"] = {}  BY HighlightPuts DEF Good
<1>2. ASSUME NEW p \in ToSet(v.list), "hl" \in Told(v, p) PROVE Late(v, Pending(v), p, "hl")
  <2>1. p \in Panel  BY <1>1, InList DEF Puts
  <2>2. p = "legend"  BY ONLY <2>1, <1>2, WhoSees
  <2> QED BY <1>1, <2>2 DEF Late, Due
<1> QED BY <1>1, <1>2, PutGood

LEMMA FlagGood ==
    ASSUME group \subseteq Panel, NEW u, Good(u), NEW R \in SUBSET Flag, NEW v, v = flag(u, R)
    PROVE  Good(v)
<1>1. Puts(u, v, {})  BY FlagPuts DEF Good
<1> QED BY <1>1, PutGood

(* A step between frames is as good as the world it leads to.              *)
LEMMA GoodPrime ==
    ASSUME NEW v, Good(v), group' = group, w' = v PROVE Good(w)'
<1>1. (w \in Worlds)'  BY DEF Good, Worlds
<1>2. IsInjective(w.list)' /\ FocusOk(w)'  BY DEF Good, FocusOk
<1>3. ASSUME NEW p \in ToSet(w'.list) PROVE (Known(w, Pending(w), p) /\ Drawn(w, p))'
  <2>1. Known(v, Pending(v), p) /\ Drawn(v, p)  BY DEF Good
  <2>2. Told(w, p)' = Told(v, p)  BY DEF Told, Reads
  <2>3. (\A s : Current(w, p, s)' <=> Current(v, p, s))  BY DEF Current
  <2>4. (\A s : Late(w, Pending(w), p, s)' <=> Late(v, Pending(v), p, s))
    BY DEF Late, Due, Pending
  <2>5. Copied(w, p)' <=> Copied(v, p)  BY DEF Copied
  <2>6. Known(w, Pending(w), p)'  BY <2>1, <2>2, <2>3, <2>4, <2>5 DEF Known
  <2>7. Drawn(w, p)'  BY <2>1 DEF Drawn
  <2> QED BY <2>6, <2>7
<1> QED BY <1>1, <1>2, <1>3 DEF Good

LEMMA Stepped ==
    ASSUME IInv, NEW v, Good(v), step(v) PROVE IInv'
<1>1. w' = v /\ group' = group /\ fresh' = FALSE  BY DEF step
<1>2. Good(w)'  BY <1>1, GoodPrime
<1>3. (group \in Groups)'  BY <1>1 DEF IInv
<1> QED BY <1>1, <1>2, <1>3 DEF IInv

-----------------------------------------------------------------------------
(* One thing changes.                                                      *)
Hidden == {"focus", "exthelp", "fmode", "opts", "vmode", "reelpos", "pipemode", "wi",
           "rtset", "keyh", "live", "vnmode", "pipedim"}

(* The things a bit of st_rf tells of, and those nobody is told of.        *)
Flagged(s, R) == s \in Hidden \/ (s = "cam" /\ "RF_CAM" \in R) \/ (s = "dmode" /\ "RF_DMODE" \in R)

(* Everybody who is told of s is in S.                                     *)
Tells(s, S) == \A u : \A p \in Panel : s \in Told(u, p) => p \in S

LEMMA HiddenTells == ASSUME NEW s \in Hidden, NEW S PROVE Tells(s, S)
BY WhoSees DEF Tells, Hidden

LEMMA HiddenStored == Hidden \subseteq Stored /\ "sel" \notin Hidden
BY DEF Hidden, Stored

LEMMA SilentGood ==
    ASSUME group \subseteq Panel, NEW u, Good(u), NEW s \in Hidden, NEW x \in Int,
           NEW v, v = [u EXCEPT !.src[s] = x]
    PROVE  Good(v)
<1>1. Puts(u, v, {s})  BY HiddenStored, PutOne DEF Good
<1>2. ASSUME NEW p \in ToSet(v.list) PROVE s \notin Told(v, p)
  <2>1. p \in Panel  BY <1>1, InList DEF Puts
  <2>2. Tells(s, {})  BY HiddenTells
  <2> QED BY <2>1, <2>2 DEF Tells
<1> QED BY <1>1, <1>2, HiddenStored, PutGood

LEMMA ChangeGood ==
    ASSUME group \subseteq Panel, NEW u, Good(u), NEW s \in Stored \ {"sel"}, NEW x \in Int,
           NEW R \in SUBSET Flag, Flagged(s, R), NEW v, v = flag([u EXCEPT !.src[s] = x], R)
    PROVE  Good(v)
<1> DEFINE t == [u EXCEPT !.src[s] = x]
<1>1. t = [u EXCEPT !.src[s] = x] /\ v = flag(t, R)  OBVIOUS
<1> HIDE DEF t
<1>2. Puts(u, t, {s}) /\ t \in Worlds  BY <1>1, PutOne DEF Good, Puts
<1>3. Puts(t, v, {}) /\ v.rf = t.rf \cup R  BY <1>1, <1>2, FlagPuts
<1>4. Puts(u, v, {s})
  <2>1. Puts(u, v, {s} \cup {})  BY <1>2, <1>3, PutsTwice
  <2> QED BY <2>1
<1>5. ASSUME NEW p \in ToSet(v.list), s \in Told(v, p) PROVE Late(v, Pending(v), p, s)
  <2>1. p \in Panel  BY <1>4, InList DEF Puts
  <2>2. s \notin Hidden
    <3>1. s \in Hidden => Tells(s, {})  BY HiddenTells
    <3> QED BY <1>5, <2>1, <3>1 DEF Tells
  <2>3. /\ s = "cam" => p \in {"cam", "compass"}
        /\ s = "dmode" => p \in {"ninfo", "legend"}
    BY ONLY <1>5, <2>1, WhoSees
  <2> QED BY <1>3, <2>2, <2>3 DEF Flagged, Late, Due, Pending, Mode
<1> QED BY <1>4, <1>5, PutGood

(* The panels that see it are marked.                                      *)
LEMMA TellGood ==
    ASSUME group \subseteq Panel, NEW u, Good(u), NEW t, NEW C, Puts(u, t, C), "sel" \notin C,
           NEW S, \A s \in C : Tells(s, S), NEW v, v = panel_rebuild(t, S)
    PROVE  Good(v)
<1>1. \A p \in ToSet(t.list) : \A s \in C \cap Told(t, p) : p \in S
  BY InList DEF Puts, Tells
<1> QED BY <1>1, PutRebuildGood

LEMMA TellOneGood ==
    ASSUME group \subseteq Panel, NEW u, Good(u), NEW s \in Stored \ {"sel"}, NEW x \in Int,
           NEW S, Tells(s, S), NEW R \in SUBSET Flag,
           NEW v, v \in {panel_rebuild([u EXCEPT !.src[s] = x], S),
                         panel_rebuild(flag([u EXCEPT !.src[s] = x], R), S)}
    PROVE  Good(v)
<1> DEFINE t == [u EXCEPT !.src[s] = x]
<1>1. t = [u EXCEPT !.src[s] = x]
      /\ v \in {panel_rebuild(t, S), panel_rebuild(flag(t, R), S)}
  OBVIOUS
<1> HIDE DEF t
<1>2. Puts(u, t, {s}) /\ t \in Worlds  BY <1>1, PutOne DEF Good, Puts
<1>3. Puts(t, flag(t, R), {})  BY <1>2, FlagPuts
<1>4. Puts(u, flag(t, R), {s})
  <2>1. Puts(u, flag(t, R), {s} \cup {})  BY <1>2, <1>3, PutsTwice
  <2> QED BY <2>1
<1> QED BY <1>1, <1>2, <1>4, TellGood

LEMMA TellTwoGood ==
    ASSUME group \subseteq Panel, NEW u, Good(u), NEW s \in Stored \ {"sel"}, NEW x \in Int,
           NEW s2 \in Stored \ {"sel"}, NEW x2 \in Int,
           NEW S, Tells(s, S), Tells(s2, S), NEW R \in SUBSET Flag,
           NEW v, v = panel_rebuild(flag([[u EXCEPT !.src[s] = x] EXCEPT !.src[s2] = x2], R), S)
    PROVE  Good(v)
<1> DEFINE t == [u EXCEPT !.src[s] = x]
           t2 == [t EXCEPT !.src[s2] = x2]
           t3 == flag(t2, R)
<1>1. t = [u EXCEPT !.src[s] = x] /\ t2 = [t EXCEPT !.src[s2] = x2] /\ t3 = flag(t2, R)
      /\ v = panel_rebuild(t3, S)
  OBVIOUS
<1> HIDE DEF t, t2, t3
<1>2. Puts(u, t, {s}) /\ t \in Worlds  BY <1>1, PutOne DEF Good, Puts
<1>3. Puts(t, t2, {s2}) /\ t2 \in Worlds
  <2>1. t \in Worlds /\ s2 \in Stored /\ x2 \in Int /\ t2 = [t EXCEPT !.src[s2] = x2]
    BY <1>1, <1>2
  <2>2. Puts(t, t2, {s2})  BY ONLY <2>1, PutOne
  <2> QED BY <2>2 DEF Puts
<1>4. Puts(t2, t3, {})  BY <1>1, <1>3, FlagPuts
<1>5. Puts(u, t2, {s} \cup {s2})  BY <1>2, <1>3, PutsTwice
<1>6. Puts(u, t3, {s} \cup {s2} \cup {})  BY <1>4, <1>5, PutsTwice
<1>7. Puts(u, t3, {s, s2})
  <2>1. {s} \cup {s2} \cup {} = {s, s2}  OBVIOUS
  <2> QED BY <1>6, <2>1
<1> QED BY <1>1, <1>7, TellGood

(* The keyboard.                                                           *)
LEMMA TypeGood ==
    ASSUME group \subseteq Panel, NEW u, Good(u), NEW v, v = [u EXCEPT !.typed = TRUE]
    PROVE  Good(v)
<1>1. /\ v \in Worlds /\ v.src = u.src /\ v.focus = u.focus /\ v.list = u.list
      /\ v.pan = u.pan /\ v.sav = u.sav /\ v.clean = u.clean /\ v.rf = u.rf
      /\ v.lost = u.lost /\ v.typed
  BY DEF Good, Worlds
<1>2. Heeds(u, v)  BY <1>1 DEF Heeds, Pending
<1> QED BY <1>2, Heeded

LEMMA DropGood ==
    ASSUME group \subseteq Panel, NEW u, Good(u), NEW v, v = [u EXCEPT !.focus = "none"]
    PROVE  Good(v) /\ v.focus = "none" /\ v.list = u.list
<1>1. /\ v \in Worlds /\ v.src = u.src /\ v.focus = "none" /\ v.list = u.list
      /\ v.pan = u.pan /\ v.sav = u.sav /\ v.clean = u.clean /\ v.rf = u.rf
      /\ v.lost = u.lost /\ v.typed = u.typed
  BY DEF Good, Worlds
<1>2. \A p \in ToSet(v.list) : p # "none"  BY <1>1, InList DEF Panel
<1>3. Heeds(u, v)  BY <1>1, <1>2 DEF Heeds, Pending, Panel
<1> QED BY <1>1, <1>3, Heeded

LEMMA BufGood ==
    ASSUME group \subseteq Panel, NEW u, Good(u), u.typed \/ u.focus = "none",
           NEW b \in Int, NEW v, v = [u EXCEPT !.src["buf"] = b]
    PROVE  Good(v)
<1>1. Puts(u, v, {"buf"})
  <2>1. "buf" \in Stored  BY DEF Stored
  <2> QED BY <2>1, PutOne DEF Good
<1>2. ASSUME NEW p \in ToSet(v.list), "buf" \in Told(v, p) PROVE Late(v, Pending(v), p, "buf")
  <2>1. p \in Panel /\ p # "none"  BY <1>1, InList DEF Puts, Panel
  <2>2. p \in Uinp /\ p = v.focus  BY ONLY <2>1, <1>2, WhoSees
  <2> QED BY <1>1, <2>1, <2>2 DEF Puts, Late, Due
<1> QED BY <1>1, <1>2, PutGood

-----------------------------------------------------------------------------
(* The handlers.                                                           *)
LEMMA InGroup == ASSUME IInv PROVE group \subseteq Panel
BY ContentAssumption DEF IInv

LEMMA Ints == ASSUME IInv, NEW s \in Stored PROVE w.src[s] \in Int /\ 1 - w.src[s] \in Int
<1>1. w.src[s] \in Int  BY DEF IInv, Good, Worlds
<1> QED BY <1>1

(* What does no more than mark the panels that see the change.             *)
LEMMA StepMarked ==
    ASSUME IInv, \/ cocb_fps \/ gscb_pw_dscho \/ flyby_set \/ dx_set \/ reel_set \/ ds_set
                 \/ reel_advance \/ gscb_pw_snap \/ gscb_pw_vnmode
    PROVE  IInv'
<1>1. group \subseteq Panel /\ Good(w) /\ (\A s \in Stored : 1 - w.src[s] \in Int)
  BY InGroup, Ints DEF IInv
<1>2. /\ Tells("fps", {"fps"}) /\ Tells("fbfile", {"fbcho", "fbstat"})
      /\ Tells("dxfile", {"dxcho"}) /\ Tells("reeldir", {"reel"})
      /\ Tells("dsdir", {"dscho"}) /\ Tells("capture", {"sshot"})
  BY WhoSees DEF Tells
<1>3. \A S : Tells("live", S) /\ Tells("reelpos", S) /\ Tells("vnmode", S)
  BY HiddenTells DEF Hidden
<1>4. {"fps", "fbfile", "dxfile", "reeldir", "dsdir", "capture", "live", "reelpos", "vnmode"}
         \subseteq Stored \ {"sel"}
  BY DEF Stored
<1>5. {"RF_DATASRC"} \in SUBSET Flag /\ {"RF_VMODE"} \in SUBSET Flag  BY DEF Flag
<1>6. CASE cocb_fps
  <2> DEFINE v == panel_rebuild(flip("fps"), {"fps"})
  <2>1. Good(v)  BY <1>1, <1>2, <1>4, <1>5, TellOneGood DEF flip, put
  <2>2. step(v)  BY <1>6 DEF cocb_fps
  <2> QED BY <2>1, <2>2, Stepped
<1>7. CASE gscb_pw_dscho
  <2> DEFINE v == panel_rebuild(flag(put("live", 1), {"RF_DATASRC"}), {"dscho"})
  <2>1. Good(v)  BY <1>1, <1>3, <1>4, <1>5, TellOneGood DEF put
  <2>2. step(v)  BY <1>7 DEF gscb_pw_dscho
  <2> QED BY <2>1, <2>2, Stepped
<1>8. CASE flyby_set
  <2> DEFINE v == panel_rebuild(flip("fbfile"), {"fbcho", "fbstat"})
  <2>1. Good(v)  BY <1>1, <1>2, <1>4, <1>5, TellOneGood DEF flip, put
  <2>2. step(v)  BY <1>8 DEF flyby_set
  <2> QED BY <2>1, <2>2, Stepped
<1>9. CASE dx_set
  <2> DEFINE v == panel_rebuild(flip("dxfile"), {"dxcho"})
  <2>1. Good(v)  BY <1>1, <1>2, <1>4, <1>5, TellOneGood DEF flip, put
  <2>2. step(v)  BY <1>9 DEF dx_set
  <2> QED BY <2>1, <2>2, Stepped
<1>10. CASE reel_set
  <2> DEFINE v == panel_rebuild(flip("reeldir"), {"reel"})
  <2>1. Good(v)  BY <1>1, <1>2, <1>4, <1>5, TellOneGood DEF flip, put
  <2>2. step(v)  BY <1>10 DEF reel_set
  <2> QED BY <2>1, <2>2, Stepped
<1>11. CASE ds_set
  <2> DEFINE v == panel_rebuild(flag([flip("dsdir") EXCEPT !.src["live"] = 0],
                                     {"RF_DATASRC"}), {"dscho"})
  <2>1. Tells("dsdir", {"dscho"}) /\ Tells("live", {"dscho"})  BY <1>2, <1>3
  <2> DEFINE y == 1 - w.src["dsdir"]
  <2>3. v = panel_rebuild(flag([[w EXCEPT !.src["dsdir"] = y] EXCEPT !.src["live"] = 0],
                               {"RF_DATASRC"}), {"dscho"})
    BY DEF flip, put
  <2>4. y \in Int /\ 0 \in Int /\ "dsdir" \in Stored \ {"sel"} /\ "live" \in Stored \ {"sel"}
    BY <1>1, <1>4
  <2> HIDE DEF v, y
  <2>5. Good(v)  BY ONLY <1>1, <1>5, <2>1, <2>3, <2>4, TellTwoGood
  <2>2. step(v)  BY <1>11 DEF ds_set, v
  <2> QED BY <2>5, <2>2, Stepped
<1>12. CASE reel_advance
  <2> DEFINE v == panel_rebuild(flag([flip("reelpos") EXCEPT !.src["live"] = 0],
                                     {"RF_DATASRC"}), {"reel"})
  <2>1. Tells("reelpos", {"reel"}) /\ Tells("live", {"reel"})  BY <1>2, <1>3
  <2> DEFINE y == 1 - w.src["reelpos"]
  <2>3. v = panel_rebuild(flag([[w EXCEPT !.src["reelpos"] = y] EXCEPT !.src["live"] = 0],
                               {"RF_DATASRC"}), {"reel"})
    BY DEF flip, put
  <2>4. y \in Int /\ 0 \in Int /\ "reelpos" \in Stored \ {"sel"} /\ "live" \in Stored \ {"sel"}
    BY <1>1, <1>4
  <2> HIDE DEF v, y
  <2>5. Good(v)  BY ONLY <1>1, <1>5, <2>1, <2>3, <2>4, TellTwoGood
  <2>2. step(v)  BY <1>12 DEF reel_advance, v
  <2> QED BY <2>5, <2>2, Stepped
<1>13. CASE gscb_pw_snap
  <2> DEFINE v == panel_rebuild(flip("capture"), {"sshot"})
  <2>1. Good(v)  BY <1>1, <1>2, <1>4, <1>5, TellOneGood DEF flip, put
  <2>2. step(v)  BY <1>13 DEF gscb_pw_snap
  <2> QED BY <2>1, <2>2, Stepped
<1>14. CASE gscb_pw_vnmode
  <2> DEFINE v == panel_rebuild(flag(flip("vnmode"), {"RF_VMODE"}), {"vnmode"})
  <2>1. Good(v)  BY <1>1, <1>3, <1>4, <1>5, TellOneGood DEF flip, put
  <2>2. step(v)  BY <1>14 DEF gscb_pw_vnmode
  <2> QED BY <2>1, <2>2, Stepped
<1> QED BY <1>6, <1>7, <1>8, <1>9, <1>10, <1>11, <1>12, <1>13, <1>14

(* What sets a bit of st_rf, a bit of the three words, or tells nobody.    *)
LEMMA StepFlagged ==
    ASSUME IInv, \/ move_camera \/ gscb_pw_opt \/ gscb_pw_vmode \/ gscb_pw_dmode
                 \/ gscb_pw_wiadj \/ gscb_pw_rt \/ gscb_pw_keyh \/ gscb_pw_pipedim
    PROVE  IInv'
<1>1. group \subseteq Panel /\ Good(w) /\ (\A s \in Stored : 1 - w.src[s] \in Int)
  BY InGroup, Ints DEF IInv
<1>2. {"cam", "dmode", "vmode", "wi", "rtset", "pipedim", "opts", "keyh"}
         \subseteq Stored \ {"sel"}
  BY DEF Stored
<1>3. {"vmode", "wi", "rtset", "pipedim", "opts", "keyh"} \subseteq Hidden  BY DEF Hidden
<1>4. ASSUME NEW s \in Stored \ {"sel"}, NEW R \in SUBSET Flag, Flagged(s, R),
             step(flag(flip(s), R))
      PROVE  IInv'
  <2> DEFINE v == flag(flip(s), R)
  <2>1. Good(v)  BY <1>1, <1>4, ChangeGood DEF flip, put
  <2> QED BY <1>4, <2>1, Stepped
<1>5. ASSUME NEW s \in Hidden, step(flip(s)) PROVE IInv'
  <2> DEFINE v == flip(s)
  <2>1. Good(v)  BY <1>1, <1>5, SilentGood, HiddenStored DEF flip, put
  <2> QED BY <1>5, <2>1, Stepped
<1>6. CASE move_camera
  <2>1. {"RF_CAM"} \in SUBSET Flag /\ Flagged("cam", {"RF_CAM"})  BY DEF Flag, Flagged
  <2> QED BY <1>2, <1>4, <1>6, <2>1 DEF move_camera
<1>7. CASE gscb_pw_opt  BY <1>3, <1>5, <1>7 DEF gscb_pw_opt
<1>8. CASE gscb_pw_vmode
  <2>1. {"RF_VMODE"} \in SUBSET Flag /\ Flagged("vmode", {"RF_VMODE"})
    BY <1>3 DEF Flag, Flagged
  <2> QED BY <1>2, <1>4, <1>8, <2>1 DEF gscb_pw_vmode
<1>9. CASE gscb_pw_dmode
  <2>1. {"RF_DMODE"} \in SUBSET Flag /\ Flagged("dmode", {"RF_DMODE"})  BY DEF Flag, Flagged
  <2> QED BY <1>2, <1>4, <1>9, <2>1 DEF gscb_pw_dmode
<1>10. CASE gscb_pw_wiadj
  <2>1. {"RF_CAM", "RF_SELNODE", "RF_VMODE"} \in SUBSET Flag
        /\ Flagged("wi", {"RF_CAM", "RF_SELNODE", "RF_VMODE"})
    BY <1>3 DEF Flag, Flagged
  <2> QED BY <1>2, <1>4, <1>10, <2>1 DEF gscb_pw_wiadj
<1>11. CASE gscb_pw_rt
  <2>1. {"RF_DMODE"} \in SUBSET Flag /\ Flagged("rtset", {"RF_DMODE"})
    BY <1>3 DEF Flag, Flagged
  <2> QED BY <1>2, <1>4, <1>11, <2>1 DEF gscb_pw_rt
<1>12. CASE gscb_pw_keyh  BY <1>3, <1>5, <1>12 DEF gscb_pw_keyh
<1>13. CASE gscb_pw_pipedim
  <2>1. {"RF_SELNODE"} \in SUBSET Flag /\ Flagged("pipedim", {"RF_SELNODE"})
    BY <1>3 DEF Flag, Flagged
  <2> QED BY <1>2, <1>4, <1>13, <2>1 DEF gscb_pw_pipedim
<1> QED BY <1>6, <1>7, <1>8, <1>9, <1>10, <1>11, <1>12, <1>13

(* What selects nodes, shows classes, opens or closes panels.              *)
LEMMA StepSelect ==
    ASSUME IInv, \/ toggle \/ sn_set \/ gscb_pw_hlnc \/ gscb_pw_dmnc \/ gscb_pw_help
                 \/ gscb_pw_pipe \/ flyby_begin \/ status_add \/ status_pop
    PROVE  IInv'
<1>1. group \subseteq Panel /\ Good(w) /\ (\A s \in Stored : 1 - w.src[s] \in Int)
  BY InGroup, Ints DEF IInv
<1>2. {"hl", "dmode", "exthelp", "pipemode", "opts", "fmode", "log"} \subseteq Stored \ {"sel"}
  BY DEF Stored
<1>3. {"exthelp", "pipemode", "opts", "fmode"} \subseteq Hidden  BY DEF Hidden
<1>4. {"RF_DMODE"} \in SUBSET Flag /\ {"RF_DATASRC"} \in SUBSET Flag
      /\ {"RF_SELNODE"} \in SUBSET Flag
  BY DEF Flag
<1>5. Tells("log", {"status"})  BY WhoSees DEF Tells
<1>6. CASE toggle
  <2>1. PICK p \in group : step(panel_toggle(w, p))  BY <1>6 DEF toggle
  <2> DEFINE v == panel_toggle(w, p)
  <2>2. Good(v)  BY <1>1, ToggleGood
  <2> QED BY <2>1, <2>2, Stepped
<1>7. CASE sn_set
  <2>1. PICK x \in 0 .. 2 : step(select(w, x))  BY <1>7 DEF sn_set
  <2> DEFINE v == select(w, x)
  <2>2. Good(v)  BY <1>1, SelectGood
  <2> QED BY <2>1, <2>2, Stepped
<1>8. CASE gscb_pw_hlnc
  <2> DEFINE v == highlight(w, 1 - w.src["hl"])
  <2>1. Good(v)  BY <1>1, <1>2, HighlightGood
  <2>2. step(v)  BY <1>8 DEF gscb_pw_hlnc
  <2> QED BY <2>1, <2>2, Stepped
<1>9. CASE gscb_pw_dmnc
  <2>1. PICK m \in 0 .. 1 :
           step(highlight(IF w.src["dmode"] = m THEN w
                          ELSE flag(put("dmode", m), {"RF_DMODE"}), 1 - w.src["hl"]))
    BY <1>9 DEF gscb_pw_dmnc
  <2> DEFINE u == IF w.src["dmode"] = m THEN w ELSE flag(put("dmode", m), {"RF_DMODE"})
             v == highlight(u, 1 - w.src["hl"])
  <2>2. Flagged("dmode", {"RF_DMODE"})  BY DEF Flagged
  <2>3. Good(flag(put("dmode", m), {"RF_DMODE"}))
    BY <1>1, <1>2, <1>4, <2>2, ChangeGood DEF put
  <2>4. Good(u)  BY <1>1, <2>3
  <2> HIDE DEF u
  <2>5. Good(v)  BY <1>1, <1>2, <2>4, HighlightGood
  <2>6. step(v)  BY <2>1 DEF u
  <2> QED BY <2>5, <2>6, Stepped
<1>10. CASE gscb_pw_help
  <2>1. CASE \E x \in 0 .. 1 : step(put("exthelp", x))
    <3>1. PICK x \in 0 .. 1 : step(put("exthelp", x))  BY <2>1
    <3> DEFINE v == put("exthelp", x)
    <3>2. Good(v)  BY <1>1, <1>3, SilentGood DEF put
    <3> QED BY <3>1, <3>2, Stepped
  <2>2. CASE step(select(w, 0))
    <3> DEFINE v == select(w, 0)
    <3>1. Good(v)  BY <1>1, SelectGood
    <3> QED BY <2>2, <3>1, Stepped
  <2>3. CASE step(flag(w, {"RF_DATASRC"}))
    <3> DEFINE v == flag(w, {"RF_DATASRC"})
    <3>1. Good(v)  BY <1>1, <1>4, FlagGood
    <3> QED BY <2>3, <3>1, Stepped
  <2> QED BY <1>10, <2>1, <2>2, <2>3 DEF gscb_pw_help
<1>11. CASE gscb_pw_pipe
  <2>1. PICK o \in {w.src["opts"], 1} :
           step([flip("pipemode") EXCEPT !.src["opts"] = o, !.rf = @ \cup {"RF_SELNODE"}])
    BY <1>11 DEF gscb_pw_pipe
  <2> DEFINE t == flip("pipemode")
             a == [t EXCEPT !.src["opts"] = o]
             v == flag(a, {"RF_SELNODE"})
             f == [t EXCEPT !.src["opts"] = o, !.rf = @ \cup {"RF_SELNODE"}]
  <2>2. Good(t)  BY <1>1, <1>2, <1>3, SilentGood DEF flip, put
  <2>3. o \in Int  BY <1>2, Ints
  <2>4. step(f)  BY <2>1
  <2> HIDE DEF t
  <2>5. Good(v)
    <3>1. Flagged("opts", {"RF_SELNODE"})  BY <1>3 DEF Flagged
    <3> QED BY <1>1, <1>2, <1>4, <2>2, <2>3, <3>1, ChangeGood
  <2>6. f = v  BY <2>2 DEF flag, Good, Worlds
  <2> HIDE DEF a, v, f
  <2> QED BY <2>4, <2>5, <2>6, Stepped
<1>12. CASE flyby_begin
  <2> DEFINE u == put("fmode", 1)
             v == select(u, 0)
  <2>1. Good(u)  BY <1>1, <1>3, SilentGood DEF put
  <2> HIDE DEF u
  <2>2. Good(v)  BY <1>1, <2>1, SelectGood
  <2>3. step(v)  BY <1>12 DEF flyby_begin, u
  <2> QED BY <2>2, <2>3, Stepped
<1>13. CASE status_add
  <2>1. PICK u \in {w, panel_show(w, "status")} :
           step(panel_rebuild([u EXCEPT !.src["log"] = 1], {"status"}))
    BY <1>13 DEF status_add
  <2> DEFINE v == panel_rebuild([u EXCEPT !.src["log"] = 1], {"status"})
  <2>2. Good(u)  BY <1>1, <2>1, ShowGood
  <2>3. "log" \in Stored \ {"sel"} /\ 1 \in Int /\ {} \in SUBSET Flag  BY <1>2
  <2> DEFINE x == [u EXCEPT !.src["log"] = 1]
  <2>4. v \in {panel_rebuild(x, {"status"}), panel_rebuild(flag(x, {}), {"status"})}
    OBVIOUS
  <2>5. Good(v)  BY ONLY <1>1, <1>5, <2>2, <2>3, <2>4, TellOneGood
  <2> QED BY <2>1, <2>5, Stepped
<1>14. CASE status_pop
  <2> DEFINE t == put("log", 0)
             u == panel_rebuild(t, {"status"})
             v == panel_hide(u, "status")
  <2>4. PICK z \in Int : z = 0  OBVIOUS
  <2>5. t = [w EXCEPT !.src["log"] = z]  BY <2>4 DEF put
  <2>6. w \in Worlds /\ "log" \in Stored  BY <1>1, <1>2 DEF Good
  <2> HIDE DEF t
  <2>0. Puts(w, t, {"log"})  BY ONLY <2>4, <2>5, <2>6, PutOne
  <2>1. Good(u)  BY <1>1, <1>5, <2>0, TellGood
  <2> HIDE DEF u
  <2>2. Good(v)  BY <1>1, <2>1, HideGood
  <2>3. step(v)  BY <1>14 DEF status_pop, u, t
  <2> QED BY <2>2, <2>3, Stepped
<1> QED BY <1>6, <1>7, <1>8, <1>9, <1>10, <1>11, <1>12, <1>13, <1>14

LEMMA LetGoGood ==
    ASSUME IInv PROVE Good(typed) /\ Good(let_go) /\ let_go.focus = "none"
<1>1. group \subseteq Panel /\ Good(w)  BY InGroup DEF IInv
<1>2. Good(typed)  BY <1>1, TypeGood DEF typed
<1> DEFINE v == let_go
<1>3. v = [typed EXCEPT !.src["buf"] = 0, !.focus = "none"]  BY DEF let_go
<1> HIDE DEF v
<1>4. Good(v) /\ v.focus = "none"  BY ONLY <1>1, <1>2, <1>3, ReleaseGood
<1> QED BY <1>2, <1>4 DEF v

LEMMA KeyPanel == ASSUME IInv, w.focus # "none" PROVE w.focus \in group
BY DEF IInv, Good, Worlds

LEMMA StepKeys ==
    ASSUME IInv, gl_keyh_uinput_type \/ gl_keyh_uinput_escape \/ gl_keyh_uinput_enter
    PROVE  IInv'
<1>1. group \subseteq Panel /\ Good(typed) /\ Good(let_go) /\ typed.typed
  <2>1. typed.typed  BY DEF typed, IInv, Good, Worlds
  <2> QED BY <2>1, InGroup, LetGoGood
<1>2. CASE gl_keyh_uinput_type
  <2>1. PICK b \in 0 .. 1 : step([typed EXCEPT !.src["buf"] = b])
    BY <1>2 DEF gl_keyh_uinput_type
  <2> DEFINE v == [typed EXCEPT !.src["buf"] = b]
  <2>2. Good(v)  BY <1>1, BufGood
  <2> QED BY <2>1, <2>2, Stepped
<1>3. ASSUME w.focus # "none", step(panel_tremove(let_go, w.focus)) PROVE IInv'
  <2> DEFINE v == panel_tremove(let_go, w.focus)
  <2>1. w.focus \in group  BY <1>3, KeyPanel
  <2>2. Good(v)  BY <1>1, <2>1, TremoveGood
  <2> QED BY <1>3, <2>2, Stepped
<1>4. CASE gl_keyh_uinput_escape  BY <1>3, <1>4 DEF gl_keyh_uinput_escape
<1>5. CASE gl_keyh_uinput_enter
  <2>1. CASE w.focus = "cmd"
    <3>1. step(let_go)  BY <1>5, <2>1 DEF gl_keyh_uinput_enter
    <3> QED BY <1>1, <3>1, Stepped
  <2>2. CASE w.focus # "cmd"  BY <1>3, <1>5, <2>2 DEF gl_keyh_uinput_enter
  <2> QED BY <2>1, <2>2
<1> QED BY <1>2, <1>4, <1>5

(* The node panel is no text panel: showing or hiding it leaves the        *)
(* keyboard where it is.                                                   *)
LEMMA NinfoFocus ==
    ASSUME group \subseteq Panel, NEW u \in Worlds,
           NEW v, v \in {u, panel_show(u, "ninfo"), panel_hide(u, "ninfo")}
    PROVE  v.focus = u.focus
<1>1. "ninfo" \notin Uinp  BY DEF Uinp
<1>2. "ninfo" \in ToSet(u.list) => "ninfo" \in group  BY InList
<1>3. "ninfo" \in group => panel_tremove(u, "ninfo").focus = u.focus
  <2>1. ASSUME "ninfo" \in group PROVE panel_tremove(u, "ninfo").focus = u.focus
    BY <1>1, <2>1, Tremoved
  <2> QED BY <2>1
<1>4. panel_add(u, "ninfo").focus = u.focus
  <2> DEFINE atp == IF "ninfo" = "login" THEN 0 ELSE u.src["atpass"]
  <2>1. panel_add(u, "ninfo") = [u EXCEPT !.list = Append(@, "ninfo"), !.pan["ninfo"] = NewPanel,
                                          !.src["atpass"] = IF "ninfo" = "login" THEN 0 ELSE @]
    BY <1>1, Zenon DEF panel_add
  <2> QED BY <2>1 DEF Worlds
<1> QED BY <1>2, <1>3, <1>4 DEF panel_show, panel_hide, panel_toggle

LEMMA SelectFocus ==
    ASSUME group \subseteq Panel, NEW u \in Worlds, NEW x \in Int, NEW v, v = select(u, x)
    PROVE  v.focus = u.focus
<1> DEFINE s == [u EXCEPT !.src["sel"] = x, !.clean["selnode"] = {},
                          !.rf = @ \cup {"RF_SELNODE"}]
<1>1. \/ v = u \/ v = s \/ v = panel_hide(s, "ninfo") \/ v = panel_show(s, "ninfo")
  BY Zenon DEF select
<1>2. s \in Worlds /\ s.focus = u.focus
  <2>1. [u.src EXCEPT !["sel"] = x] \in [Stored -> Int]  BY PutSource
  <2>2. [u.clean EXCEPT !["selnode"] = {}] \in [Word -> SUBSET group]  BY DEF Worlds
  <2>3. s = [u EXCEPT !.src = [u.src EXCEPT !["sel"] = x],
                      !.clean = [u.clean EXCEPT !["selnode"] = {}],
                      !.rf = u.rf \cup {"RF_SELNODE"}]
    OBVIOUS
  <2> DEFINE f == [u.src EXCEPT !["sel"] = x]
             c == [u.clean EXCEPT !["selnode"] = {}]
  <2>4. s = [u EXCEPT !.src = f, !.clean = c, !.rf = u.rf \cup {"RF_SELNODE"}]
        /\ f \in [Stored -> Int] /\ c \in [Word -> SUBSET group]
    BY <2>1, <2>2, <2>3
  <2> HIDE DEF f, c, s
  <2> QED BY <2>4 DEF Worlds, Flag
<1> HIDE DEF s
<1> QED BY <1>1, <1>2, NinfoFocus

LEMMA StepGoto ==
    ASSUME IInv, uinpcb_gotonode \/ uinpcb_gotojob
    PROVE  IInv'
<1> DEFINE k == [typed EXCEPT !.focus = "none"]
<1>1. group \subseteq Panel /\ Good(typed)  BY InGroup, LetGoGood
<1>2. Good(k) /\ k.focus = "none"  BY <1>1, DropGood
<1>3. CASE uinpcb_gotonode
  <2>1. w.focus = "gotonode" /\ w.focus # "none"  BY <1>3 DEF uinpcb_gotonode
  <2>2. PICK x \in 1 .. 2 :
           step(panel_tremove([panel_show(flag(select(k, x), {"RF_CAM"}), "ninfo")
                               EXCEPT !.src["buf"] = 0], "gotonode"))
    BY <1>3 DEF uinpcb_gotonode
  <2> HIDE DEF k
  <2> DEFINE a == select(k, x)
             b == flag(a, {"RF_CAM"})
             s == panel_show(b, "ninfo")
             t == [s EXCEPT !.src["buf"] = 0]
             v == panel_tremove(t, "gotonode")
  <2>3. Good(a) /\ a.focus = "none"
    <3>1. k \in Worlds  BY <1>2 DEF Good
    <3> QED BY <1>1, <1>2, <3>1, SelectGood, SelectFocus
  <2>4. step(v)  BY <2>2
  <2> HIDE DEF a
  <2>5. Good(b) /\ b.focus = "none"
    <3>1. {"RF_CAM"} \in SUBSET Flag  BY DEF Flag
    <3>2. b.focus = a.focus  BY <2>3 DEF flag, Good, Worlds
    <3> QED BY <1>1, <2>3, <3>1, <3>2, FlagGood
  <2> HIDE DEF b
  <2>6. Good(s) /\ s.focus = "none"
    <3>1. b \in Worlds  BY <2>5 DEF Good
    <3> QED BY <1>1, <2>5, <3>1, ShowGood, NinfoFocus
  <2> HIDE DEF s
  <2>7. Good(t)
    <3>1. PICK z \in Int : z = 0  OBVIOUS
    <3>2. t = [s EXCEPT !.src["buf"] = z]  BY <3>1
    <3> HIDE DEF t
    <3> QED BY ONLY <1>1, <2>6, <3>1, <3>2, BufGood
  <2> HIDE DEF t
  <2>8. "gotonode" \in group  BY <2>1, KeyPanel
  <2>9. Good(v)  BY <1>1, <2>7, <2>8, TremoveGood
  <2> QED BY <2>4, <2>9, Stepped
<1>4. CASE uinpcb_gotojob
  <2> DEFINE a == highlight(k, 1)
             d == IF a.src["dmode"] = 0 THEN a
                  ELSE flag([a EXCEPT !.src["dmode"] = 0], {"RF_DMODE"})
             t == [d EXCEPT !.src["buf"] = 0]
             v == panel_tremove(t, "gotojob")
  <2>1. w.focus = "gotojob" /\ w.focus # "none"  BY <1>4 DEF uinpcb_gotojob
  <2>2. step(v)  BY <1>4 DEF uinpcb_gotojob
  <2> HIDE DEF k
  <2>3. Good(a) /\ a.focus = "none"
    <3>1. k \in Worlds /\ 1 \in Int  BY <1>2 DEF Good
    <3>2. Puts(k, a, {"hl"})  BY <3>1, HighlightPuts
    <3> QED BY <1>1, <1>2, <3>1, <3>2, HighlightGood DEF Puts
  <2> HIDE DEF a
  <2>4. Good(d) /\ d.focus = "none"
    <3>1. PICK z \in Int : z = 0  OBVIOUS
    <3> DEFINE m == [a EXCEPT !.src["dmode"] = z]
               e == flag(m, {"RF_DMODE"})
    <3>2. d = IF a.src["dmode"] = 0 THEN a ELSE e  BY <3>1
    <3>3. "dmode" \in Stored \ {"sel"} /\ {"RF_DMODE"} \in SUBSET Flag
          /\ Flagged("dmode", {"RF_DMODE"})
      BY DEF Stored, Flag, Flagged
    <3>4. Good(e)  BY <1>1, <2>3, <3>3, ChangeGood
    <3>5. e.focus = m.focus /\ m.focus = a.focus
      <4>1. a \in Worlds  BY <2>3 DEF Good
      <4> QED BY <4>1 DEF flag, Worlds
    <3> HIDE DEF e, d, m
    <3> QED BY <2>3, <3>2, <3>4, <3>5
  <2> HIDE DEF d
  <2>5. Good(t)
    <3>1. PICK z \in Int : z = 0  OBVIOUS
    <3>2. t = [d EXCEPT !.src["buf"] = z]  BY <3>1
    <3> HIDE DEF t
    <3> QED BY ONLY <1>1, <2>4, <3>1, <3>2, BufGood
  <2> HIDE DEF t
  <2>6. "gotojob" \in group  BY <2>1, KeyPanel
  <2>7. Good(v)  BY <1>1, <2>5, <2>6, TremoveGood
  <2> QED BY <2>2, <2>7, Stepped
<1> QED BY <1>3, <1>4

(* The password panel keeps the keyboard and is marked itself.             *)
LEMMA StepLogin == ASSUME IInv, uinpcb_login PROVE IInv'
<1>1. group \subseteq Panel /\ Good(w) /\ Good(let_go) /\ w \in Worlds
  BY InGroup, LetGoGood DEF IInv, Good
<1>2. w.focus = "login" /\ "login" \in group
  <2>1. w.focus = "login" /\ w.focus # "none"  BY DEF uinpcb_login
  <2> QED BY <2>1, KeyPanel
<1> DEFINE a == flag(let_go, {"RF_DATASRC"})
           t == panel_tremove(a, "login")
<1>3. Good(t)
  <2>1. {"RF_DATASRC"} \in SUBSET Flag  BY DEF Flag
  <2>2. Good(a)  BY <1>1, <2>1, FlagGood
  <2> HIDE DEF a
  <2> QED BY <1>1, <1>2, <2>2, TremoveGood
<1>4. CASE step(panel_rebuild([t EXCEPT !.ssl = TRUE, !.src["live"] = 1], {"dscho"}))
  <2> DEFINE l == [t EXCEPT !.ssl = TRUE]
             m == [l EXCEPT !.src["live"] = 1]
             v == panel_rebuild(m, {"dscho"})
  <2>1. step(v)  BY <1>4
  <2> HIDE DEF t
  <2>2. Puts(t, l, {}) /\ l \in Worlds  BY <1>3 DEF Good, Worlds, Puts
  <2> HIDE DEF l
  <2>3. "live" \in Stored /\ "live" # "sel"  BY DEF Stored
  <2>4. Puts(l, m, {"live"})
    <3>1. PICK z \in Int : z = 1  OBVIOUS
    <3>2. m = [l EXCEPT !.src["live"] = z]  BY <3>1
    <3> HIDE DEF m
    <3> QED BY ONLY <2>2, <2>3, <3>1, <3>2, PutOne
  <2> HIDE DEF m
  <2>5. Puts(t, m, {} \cup {"live"})  BY <2>2, <2>4, PutsTwice
  <2>6. Puts(t, m, {"live"})
    <3>1. {} \cup {"live"} = {"live"}  OBVIOUS
    <3> QED BY <2>5, <3>1
  <2>7. Tells("live", {"dscho"})  BY HiddenTells DEF Hidden
  <2>8. Good(v)  BY <1>1, <1>3, <2>3, <2>6, <2>7, TellGood
  <2> HIDE DEF v
  <2> QED BY <2>1, <2>8, Stepped
<1>5. CASE step(t)
  <2> HIDE DEF t
  <2> QED BY <1>3, <1>5, Stepped
<1>6. CASE step([let_go EXCEPT !.src["atpass"] = 1, !.pan["login"].refresh = TRUE,
                               !.focus = "login", !.typed = FALSE])
  <2> DEFINE f == [let_go.src EXCEPT !["atpass"] = 1]
             r == [let_go.pan["login"] EXCEPT !.refresh = TRUE]
             P == [let_go.pan EXCEPT !["login"] = r]
             v == [let_go EXCEPT !.src = f, !.pan = P, !.focus = "login", !.typed = FALSE]
  <2>1. step(v)  BY <1>6
  <2>2. let_go \in Worlds  BY <1>1 DEF Good
  <2>3. f \in [Stored -> Int]
    <3>1. PICK z \in Int : z = 1  OBVIOUS
    <3>2. f = [let_go.src EXCEPT !["atpass"] = z]  BY <3>1
    <3> HIDE DEF f
    <3> QED BY ONLY <2>2, <3>1, <3>2, PutSource
  <2>4. f = [[w.src EXCEPT !["buf"] = 0] EXCEPT !["atpass"] = 1]
    BY <1>1 DEF let_go, typed, Worlds
  <2>5. \A s \in Stored \ {"buf", "atpass"} : f[s] = w.src[s]
    BY <1>1, <2>4 DEF Worlds
  <2>6. /\ let_go.pan = w.pan /\ let_go.list = w.list /\ let_go.sav = w.sav
        /\ let_go.clean = w.clean /\ let_go.rf = w.rf /\ let_go.lost = w.lost
    BY <1>1 DEF let_go, typed, Worlds
  <2> HIDE DEF f
  <2>7. /\ r \in Pan /\ r.refresh /\ r.str = w.pan["login"].str /\ r.dl = w.pan["login"].dl
        /\ r.remove = w.pan["login"].remove /\ r.dirty = w.pan["login"].dirty
    <3>1. w.pan["login"] \in Pan  BY <1>1, <1>2 DEF Worlds
    <3>2. r = [w.pan["login"] EXCEPT !.refresh = TRUE]  BY <2>6
    <3> HIDE DEF r
    <3> QED BY <3>1, <3>2 DEF Pan
  <2> HIDE DEF r
  <2>8. P \in [group -> Pan] /\ P["login"] = r /\ \A q \in group \ {"login"} : P[q] = w.pan[q]
    BY <1>1, <1>2, <2>6, <2>7 DEF Worlds
  <2> HIDE DEF P
  <2>9. "login" \in group \cap Uinp  BY <1>2 DEF Uinp
  <2>10. /\ v \in Worlds /\ v.list = w.list /\ v.sav = w.sav /\ v.clean = w.clean
         /\ v.rf = w.rf /\ v.lost = w.lost /\ v.src = f /\ v.pan = P /\ v.focus = "login"
    BY <2>2, <2>3, <2>6, <2>8, <2>9 DEF Worlds
  <2> HIDE DEF v
  <2>11. \A q \in group : /\ v.pan[q].str = w.pan[q].str /\ v.pan[q].dl = w.pan[q].dl
                          /\ v.pan[q].remove = w.pan[q].remove
                          /\ w.pan[q].dirty => v.pan[q].dirty
                          /\ w.pan[q].refresh => v.pan[q].refresh
    BY <1>2, <2>7, <2>8, <2>10
  <2>12. v.pan[v.focus].refresh  BY <2>7, <2>8, <2>10
  <2>13. ASSUME NEW q \in ToSet(v.list), NEW s \in Told(v, q)
         PROVE  v.src[s] = w.src[s] \/ Late(v, Pending(v), q, s)
    <3>1. q \in Panel  BY <1>1, <2>10, InList
    <3>2. /\ s \in Stored /\ (s = "atpass" => q = "login") /\ (s = "buf" => q = v.focus)
      BY ONLY <2>13, <3>1, WhoSees
    <3>3. CASE s \in {"buf", "atpass"}
      <4>1. v.pan[q].refresh  BY <2>10, <2>12, <3>2, <3>3
      <4> QED BY <4>1 DEF Late, Due
    <3>4. CASE s \notin {"buf", "atpass"}  BY <2>5, <2>10, <3>2, <3>4
    <3> QED BY <3>3, <3>4
  <2>14. v.src["sel"] = w.src["sel"]  BY <2>5, <2>10 DEF Stored
  <2>15. v.focus = w.focus /\ (Pending(w) => Pending(v))  BY <1>2, <2>10 DEF Pending
  <2>16. Heeds(w, v)  BY <2>10, <2>11, <2>12, <2>13, <2>14, <2>15 DEF Heeds
  <2>17. Good(v)  BY <1>1, <2>16, Heeded
  <2> QED BY <2>1, <2>17, Stepped DEF v
<1> QED BY <1>4, <1>5, <1>6 DEF uinpcb_login

(* load_state() sets RF_CAM, sets RF_DMODE if the mode differs, and what   *)
(* it drops is remembered in lost.                                         *)
LEMMA StepFlybyEnd == ASSUME IInv, flyby_end PROVE IInv'
<1>1. group \subseteq Panel /\ Good(w) /\ w \in Worlds  BY InGroup DEF IInv, Good
<1>2. PICK sav_st \in [{s \in Restored : Used(s)} -> 0 .. 1] :
         LET st == [s \in Stored |-> IF s = "fmode" THEN 0
                                     ELSE IF s \in DOMAIN sav_st THEN sav_st[s] ELSE w.src[s]]
             rf == load_state(st)
         IN  step([w EXCEPT !.src = st, !.rf = rf,
                            !.lost = @ \/ ("RF_DMODE" \in w.rf /\ "RF_DMODE" \notin rf)])
  BY DEF flyby_end
<1> DEFINE D == {s \in Restored : Used(s)}
           was(s) == IF s \in DOMAIN sav_st THEN sav_st[s] ELSE w.src[s]
           f == [s \in Stored |-> IF s = "fmode" THEN 0 ELSE was(s)]
           rf == load_state(f)
           lost == w.lost \/ ("RF_DMODE" \in w.rf /\ "RF_DMODE" \notin rf)
           v == [w EXCEPT !.src = f, !.rf = rf, !.lost = lost]
<1>3. step(v)  BY <1>2
<1>4. ASSUME NEW s \in Stored
      PROVE  was(s) \in Int /\ (s \notin Restored => was(s) = w.src[s])
  <2>1. DOMAIN sav_st = D  OBVIOUS
  <2>2. w.src[s] \in Int  BY <1>1 DEF Worlds
  <2>3. CASE s \in D
    <3>1. sav_st[s] \in 0 .. 1  BY <2>3
    <3> QED BY <2>1, <2>3, <3>1
  <2>4. CASE s \notin D  BY <2>1, <2>2, <2>4
  <2> QED BY <2>3, <2>4
<1> HIDE DEF was
<1>5. f \in [Stored -> Int]  BY <1>4
<1>6. \A s \in Stored \ {"fmode"} : f[s] = was(s)  OBVIOUS
<1> HIDE DEF f
<1>7. /\ rf \in SUBSET Flag /\ "RF_CAM" \in rf
      /\ was("dmode") # w.src["dmode"] => "RF_DMODE" \in rf
  <2>1. "dmode" \in Stored \ {"fmode"}  BY DEF Stored
  <2> QED BY <1>6, <2>1 DEF Flag, load_state
<1> HIDE DEF rf
<1>8. lost \in BOOLEAN /\ (w.lost => lost)
      /\ ("RF_DMODE" \in w.rf => "RF_DMODE" \in rf \/ lost)
  BY <1>1 DEF Worlds
<1> HIDE DEF lost
<1>9. /\ v \in Worlds /\ v.list = w.list /\ v.sav = w.sav /\ v.clean = w.clean
      /\ v.pan = w.pan /\ v.typed = w.typed /\ v.focus = w.focus
      /\ v.src = f /\ v.rf = rf /\ v.lost = lost
  BY <1>1, <1>7, <1>5, <1>8 DEF Worlds
<1> HIDE DEF v
<1>10. ASSUME NEW p \in ToSet(v.list), NEW s \in Told(v, p)
       PROVE  v.src[s] = w.src[s] \/ Late(v, Pending(v), p, s)
  <2>1. p \in Panel  BY <1>1, <1>9, InList
  <2>2. /\ s \in Stored /\ (s = "dmode" => p \in {"ninfo", "legend"})
        /\ (s = "cam" => p \in {"cam", "compass"})
    BY ONLY <1>10, <2>1, WhoSees
  <2>3. s \notin Hidden
    <3>1. s \in Hidden => Tells(s, {})  BY HiddenTells
    <3> QED BY <1>10, <2>1, <3>1 DEF Tells
  <2>4. CASE s = "cam"  BY <1>7, <1>9, <2>2, <2>4 DEF Late, Due
  <2>5. CASE s = "dmode"
    <3>1. v.src[s] = w.src[s] \/ "RF_DMODE" \in v.rf  BY <1>7, <1>6, <1>9, <2>2, <2>5
    <3> QED BY <2>2, <2>5, <3>1 DEF Late, Pending, Mode
  <2>6. CASE s \notin {"cam", "dmode"}
    <3>1. s \notin Restored /\ s # "fmode"  BY <2>3, <2>6 DEF Restored, Hidden
    <3> QED BY <1>4, <1>6, <1>9, <2>2, <3>1
  <2> QED BY <2>4, <2>5, <2>6
<1>11. v.src["sel"] = w.src["sel"]
  <2>1. "sel" \in Stored \ {"fmode"} /\ "sel" \notin Restored  BY DEF Stored, Restored
  <2> QED BY <1>4, <1>6, <1>9, <2>1
<1>12. Pending(w) => Pending(v)  BY <1>8, <1>9 DEF Pending
<1>13. Heeds(w, v)  BY <1>7, <1>9, <1>10, <1>11, <1>12 DEF Heeds
<1>14. Good(v)  BY <1>1, <1>13, Heeded
<1> QED BY <1>3, <1>14, Stepped DEF v

-----------------------------------------------------------------------------
(* A frame.                                                                *)
LEMMA RfDeps ==
    ASSUME NEW R \in SUBSET Flag
    PROVE  R \subseteq rf_deps(R) /\ rf_deps(R) \in SUBSET Flag
           /\ ("RF_DATASRC" \in rf_deps(R) => "RF_DMODE" \in rf_deps(R))
BY DEF rf_deps, Flag

LEMMA RebuildDoes ==
    ASSUME group \subseteq Panel, NEW u \in Worlds, NEW opts, NEW data \in Int, NEW mtime \in Int,
           NEW v, v = rebuild(u, opts, data, mtime)
    PROVE  /\ v \in Worlds /\ v.list = u.list /\ v.sav = u.sav /\ v.rf = u.rf
           /\ v.lost = u.lost /\ v.typed = u.typed /\ v.focus = u.focus
           /\ \A s \in Stored : \/ v.src[s] = u.src[s] \/ s = "focus"
                                \/ s \in {"data", "mtime"} /\ "RF_DATASRC" \in opts
           /\ \A x \in Word : v.clean[x] \subseteq u.clean[x]
           /\ "RF_DMODE" \in opts => v.clean["dmode_data"] = {}
           /\ \A p \in group : /\ v.pan[p].str = u.pan[p].str /\ v.pan[p].dl = u.pan[p].dl
                               /\ v.pan[p].remove = u.pan[p].remove
                               /\ v.pan[p].dirty = u.pan[p].dirty
                               /\ u.pan[p].refresh => v.pan[p].refresh
           /\ "RF_DATASRC" \in opts /\ "date" \in ToSet(u.list) => v.pan["date"].refresh
<1> DEFINE a == [u EXCEPT !.src["data"] = data]
           b == [a EXCEPT !.src["mtime"] = mtime]
           f == IF "RF_DATASRC" \in opts THEN panel_rebuild(b, {"date"}) ELSE u
           c == IF "RF_DMODE" \in opts THEN [f EXCEPT !.clean["dmode_data"] = {}] ELSE f
           sel == c.src["sel"]
<1>1. v = IF "RF_FOCUS" \in opts THEN [c EXCEPT !.src["focus"] = sel] ELSE c
  <2> DEFINE e  == [u EXCEPT !.src["data"] = data, !.src["mtime"] = mtime]
             f2 == IF "RF_DATASRC" \in opts THEN panel_rebuild(e, {"date"}) ELSE u
             c2 == IF "RF_DMODE" \in opts THEN [f2 EXCEPT !.clean["dmode_data"] = {}] ELSE f2
  <2>1. e = b  OBVIOUS
  <2>2. v = IF "RF_FOCUS" \in opts THEN [c2 EXCEPT !.src["focus"] = c2.src["sel"]] ELSE c2
    BY Zenon DEF rebuild
  <2> HIDE DEF b, e
  <2>3. f2 = f  BY <2>1
  <2> HIDE DEF f, f2
  <2>4. c2 = c  BY <2>3
  <2> HIDE DEF c, c2
  <2> QED BY <2>2, <2>4
<1> HIDE DEF sel
<1>2. Puts(u, b, {"data", "mtime"}) /\ b \in Worlds /\ b.rf = u.rf /\ b.clean = u.clean
  <2>1. a = [u EXCEPT !.src["data"] = data] /\ b = [a EXCEPT !.src["mtime"] = mtime]
        /\ a.clean = u.clean /\ b.clean = a.clean
    BY DEF Worlds
  <2>2. "data" \in Stored /\ "mtime" \in Stored  BY DEF Stored
  <2> HIDE DEF a, b
  <2>3. Puts(u, a, {"data"}) /\ a.rf = u.rf /\ a \in Worlds  BY <2>1, <2>2, PutOne DEF Puts
  <2>4. Puts(a, b, {"mtime"}) /\ b.rf = a.rf /\ b \in Worlds
    <3>0. a \in Worlds /\ "mtime" \in Stored /\ mtime \in Int
          /\ b = [a EXCEPT !.src["mtime"] = mtime]
      BY <2>1, <2>2, <2>3
    <3>1. Puts(a, b, {"mtime"})  BY ONLY <3>0, PutOne
    <3>2. b.rf = a.rf  BY ONLY <3>0, PutOne
    <3> QED BY <3>1, <3>2 DEF Puts
  <2>5. Puts(u, b, {"data"} \cup {"mtime"})  BY <2>3, <2>4, PutsTwice
  <2>6. {"data"} \cup {"mtime"} = {"data", "mtime"}  OBVIOUS
  <2> QED BY <2>1, <2>3, <2>4, <2>5, <2>6
<1> HIDE DEF a, b
<1>3. /\ f \in Worlds /\ f.list = u.list /\ f.sav = u.sav /\ f.rf = u.rf /\ f.clean = u.clean
      /\ f.lost = u.lost /\ f.typed = u.typed /\ f.focus = u.focus
      /\ \A s \in Stored : \/ f.src[s] = u.src[s]
                           \/ s \in {"data", "mtime"} /\ "RF_DATASRC" \in opts
      /\ \A p \in group : /\ f.pan[p].str = u.pan[p].str /\ f.pan[p].dl = u.pan[p].dl
                          /\ f.pan[p].remove = u.pan[p].remove
                          /\ f.pan[p].dirty = u.pan[p].dirty
                          /\ u.pan[p].refresh => f.pan[p].refresh
      /\ "RF_DATASRC" \in opts /\ "date" \in ToSet(u.list) => f.pan["date"].refresh
  <2>1. CASE "RF_DATASRC" \notin opts  BY <2>1
  <2>2. CASE "RF_DATASRC" \in opts
    <3>1. f = panel_rebuild(b, {"date"})  BY <2>2
    <3> HIDE DEF f
    <3>2. /\ f \in Worlds /\ f.list = b.list /\ f.sav = b.sav /\ f.clean = b.clean
          /\ f.src = b.src /\ f.rf = b.rf /\ f.lost = b.lost /\ f.typed = b.typed
          /\ f.focus = b.focus
          /\ \A p \in group : /\ f.pan[p].str = b.pan[p].str /\ f.pan[p].dl = b.pan[p].dl
                              /\ f.pan[p].remove = b.pan[p].remove
                              /\ f.pan[p].dirty = b.pan[p].dirty
                              /\ b.pan[p].refresh => f.pan[p].refresh
                              /\ p \in {"date"} /\ p \in ToSet(b.list) => f.pan[p].refresh
      BY <1>2, <3>1, Rebuilt
    <3>3. "date" \in ToSet(u.list) => "date" \in group  BY InList
    <3> QED BY <1>2, <2>2, <3>2, <3>3 DEF Puts
  <2> QED BY <2>1, <2>2
<1> HIDE DEF f
<1>4. /\ c \in Worlds /\ c.list = f.list /\ c.sav = f.sav /\ c.rf = f.rf /\ c.pan = f.pan
      /\ c.lost = f.lost /\ c.typed = f.typed /\ c.focus = f.focus /\ c.src = f.src
      /\ \A x \in Word : c.clean[x] \subseteq f.clean[x]
      /\ "RF_DMODE" \in opts => c.clean["dmode_data"] = {}
  <2>1. CASE "RF_DMODE" \notin opts  BY <1>3, <2>1
  <2>2. CASE "RF_DMODE" \in opts
    <3> DEFINE k == [f.clean EXCEPT !["dmode_data"] = {}]
    <3>1. k \in [Word -> SUBSET group]  BY <1>3 DEF Worlds
    <3>2. k["dmode_data"] = {} /\ \A x \in Word : k[x] \subseteq f.clean[x]
      BY <1>3 DEF Worlds, Word
    <3>3. c = [f EXCEPT !.clean = k]  BY <2>2
    <3> HIDE DEF k, c
    <3> QED BY <1>3, <3>1, <3>2, <3>3 DEF Worlds
  <2> QED BY <2>1, <2>2
<1> HIDE DEF c
<1>5. /\ v \in Worlds /\ v.list = c.list /\ v.sav = c.sav /\ v.rf = c.rf /\ v.pan = c.pan
      /\ v.lost = c.lost /\ v.typed = c.typed /\ v.focus = c.focus /\ v.clean = c.clean
      /\ \A s \in Stored : v.src[s] = c.src[s] \/ s = "focus"
  <2>1. CASE "RF_FOCUS" \notin opts  BY <1>1, <1>4, <2>1
  <2>2. CASE "RF_FOCUS" \in opts
    <3> DEFINE g == [c.src EXCEPT !["focus"] = sel]
    <3>1. sel \in Int  BY <1>4 DEF sel, Worlds, Stored
    <3>2. g \in [Stored -> Int]  BY <1>4, <3>1, PutSource
    <3>3. \A s \in Stored : g[s] = c.src[s] \/ s = "focus"  BY <1>4 DEF Worlds
    <3>4. v = [c EXCEPT !.src = g]  BY <1>1, <2>2
    <3> HIDE DEF g
    <3> QED BY <1>4, <3>2, <3>3, <3>4 DEF Worlds
  <2> QED BY <2>1, <2>2
<1> QED BY <1>3, <1>4, <1>5

LEMMA RebuildGood ==
    ASSUME group \subseteq Panel, NEW u, Good(u), NEW data \in Int, NEW mtime \in Int,
           "RF_DATASRC" \in u.rf => "RF_DMODE" \in u.rf,
           NEW v, v = rebuild(u, u.rf, data, mtime)
    PROVE  Good(v) /\ Begins(v, u.lost /\ "RF_DMODE" \notin u.rf)
<1> DEFINE l == u.lost /\ "RF_DMODE" \notin u.rf
<1>0. u \in Worlds  BY DEF Good
<1>1. /\ v \in Worlds /\ v.list = u.list /\ v.sav = u.sav /\ v.rf = u.rf
      /\ v.lost = u.lost /\ v.typed = u.typed /\ v.focus = u.focus
      /\ \A s \in Stored : \/ v.src[s] = u.src[s] \/ s = "focus"
                           \/ s \in {"data", "mtime"} /\ "RF_DATASRC" \in u.rf
      /\ \A x \in Word : v.clean[x] \subseteq u.clean[x]
      /\ "RF_DMODE" \in u.rf => v.clean["dmode_data"] = {}
      /\ \A p \in group : /\ v.pan[p].str = u.pan[p].str /\ v.pan[p].dl = u.pan[p].dl
                          /\ v.pan[p].remove = u.pan[p].remove
                          /\ v.pan[p].dirty = u.pan[p].dirty
                          /\ u.pan[p].refresh => v.pan[p].refresh
      /\ "RF_DATASRC" \in u.rf /\ "date" \in ToSet(u.list) => v.pan["date"].refresh
  BY <1>0, RebuildDoes
<1>2. ASSUME NEW p \in ToSet(v.list), NEW s \in Told(v, p)
      PROVE  v.src[s] = u.src[s] \/ Late(v, Pending(v), p, s)
  <2>1. p \in Panel  BY <1>0, <1>1, InList
  <2>2. /\ s \in Stored /\ s # "focus" /\ (s = "data" => p \in {"ninfo", "legend"})
        /\ (s = "mtime" => p = "date")
    BY ONLY <1>2, <2>1, WhoSees
  <2>3. CASE s = "data" /\ "RF_DATASRC" \in u.rf  BY <1>1, <2>2, <2>3 DEF Late, Due
  <2>4. CASE s = "mtime" /\ "RF_DATASRC" \in u.rf  BY <1>1, <1>2, <2>2, <2>4 DEF Late, Due
  <2>5. CASE v.src[s] = u.src[s]  BY <2>5
  <2> QED BY <1>1, <2>2, <2>3, <2>4, <2>5
<1>3. v.src["sel"] = u.src["sel"]
  <2>1. "sel" \in Stored /\ "sel" \notin {"focus", "data", "mtime"}  BY DEF Stored
  <2> QED BY <1>1, <2>1
<1>4. Heeds(u, v)  BY <1>1, <1>2, <1>3 DEF Heeds, Pending
<1>5. Good(v)  BY <1>4, Heeded
<1>6. ASSUME NEW p \in ToSet(v.list) PROVE Known(v, l, p)
  <2>1. Known(v, Pending(v), p)  BY <1>5 DEF Good
  <2>2. ASSUME NEW s, Late(v, Pending(v), p, s) PROVE Late(v, l, p, s)
    BY <1>1, <2>2 DEF Late, Due, Pending, Mode
  <2> QED BY <2>1, <2>2 DEF Known
<1>7. Begins(v, l)  BY <1>5, <1>6 DEF Good, Begins
<1> QED BY <1>5, <1>7

LEMMA ShowsPrime ==
    ASSUME NEW x, group' = group, w' = x, NEW p, Shows(x, x.lost, p), CopyCurrent(x, p)
    PROVE  (Shows(w, w.lost, p) /\ CopyCurrent(w, p))'
<1>1. Told(w, p)' = Told(x, p)  BY DEF Told, Reads
<1>2. (\A s : Current(w, p, s)' <=> Current(x, p, s))  BY DEF Current
<1>3. Copied(w, p)' <=> Copied(x, p)  BY DEF Copied
<1>4. Shows(w, w.lost, p)'  BY <1>1, <1>2, <1>3 DEF Shows
<1>5. (\A s : val(w, s)' = val(x, s))  BY DEF val
<1>6. CopyCurrent(w, p)'  BY <1>5 DEF CopyCurrent
<1> QED BY <1>4, <1>6

LEMMA StepFrame == ASSUME IInv, frame PROVE IInv'
<1>1. group \subseteq Panel /\ Good(w) /\ w \in Worlds /\ w.rf \in SUBSET Flag
  BY InGroup DEF IInv, Good, Worlds
<1>2. PICK data \in Fetched("data"), mtime \in Fetched("mtime") :
      \E gone \in {{}, {p \in group : Listed(p) /\ w.pan[p].remove}} :
      \E still \in {{}, {p \in group : Shown(p)}} :
         LET opts == rf_deps(w.rf)
             v    == rebuild([w EXCEPT !.rf = opts], opts, data, mtime)
         IN  /\ w' = [draw_panels(v, gone, still)
                        EXCEPT !.rf = {}, !.lost = @ /\ "RF_DMODE" \notin opts]
             /\ changes' = 0
             /\ fresh' = (w'.list = w.list)
             /\ UNCHANGED group
  BY DEF frame
<1>a. PICK gone \in {{}, {p \in group : Listed(p) /\ w.pan[p].remove}},
           still \in {{}, {p \in group : Shown(p)}} :
         LET opts == rf_deps(w.rf)
             v    == rebuild([w EXCEPT !.rf = opts], opts, data, mtime)
         IN  /\ w' = [draw_panels(v, gone, still)
                        EXCEPT !.rf = {}, !.lost = @ /\ "RF_DMODE" \notin opts]
             /\ changes' = 0
             /\ fresh' = (w'.list = w.list)
             /\ UNCHANGED group
  BY ONLY <1>2
<1> DEFINE opts == rf_deps(w.rf)
           t == [w EXCEPT !.rf = opts]
           v == rebuild(t, opts, data, mtime)
           l == w.lost /\ "RF_DMODE" \notin opts
           d == draw_panels(v, gone, still)
           x == [d EXCEPT !.rf = {}, !.lost = @ /\ "RF_DMODE" \notin opts]
<1>3. w' = x /\ fresh' = (w'.list = w.list) /\ group' = group  BY <1>a
<1>4. w.rf \subseteq opts /\ opts \in SUBSET Flag
      /\ ("RF_DATASRC" \in opts => "RF_DMODE" \in opts)
  BY <1>1, RfDeps
<1> HIDE DEF opts
<1>5. Puts(w, t, {}) /\ t.rf = opts /\ t.lost = w.lost /\ t.list = w.list
  BY <1>1, <1>4 DEF Worlds, Puts
<1> HIDE DEF t
<1>6. Good(t) /\ t \in Worlds
  <2>1. "sel" \notin {} /\ \A p \in ToSet(t.list) : {} \cap Told(t, p) = {}  OBVIOUS
  <2>2. Good(t)  BY <1>1, <1>5, <2>1, PutGood
  <2> QED BY <2>2 DEF Good
<1>7. Begins(v, l) /\ v.list = w.list /\ v.lost = w.lost
      /\ \A p \in group : v.pan[p].remove = w.pan[p].remove
  <2>2. data \in Int /\ mtime \in Int /\ v = rebuild(t, t.rf, data, mtime)  BY <1>5 DEF Fetched
  <2>1. Begins(v, t.lost /\ "RF_DMODE" \notin t.rf)
    BY <1>1, <1>4, <1>5, <1>6, <2>2, RebuildGood
  <2>3. v.list = t.list /\ v.lost = t.lost
        /\ \A p \in group : v.pan[p].remove = t.pan[p].remove
    BY <1>1, <1>6, <2>2, RebuildDoes
  <2> QED BY <1>5, <2>1, <2>3 DEF Puts
<1> HIDE DEF v, l
<1>8. \A q \in gone : v.pan[q].remove  BY <1>7
<1>9. Stage(v, d, l, Len(v.list))  BY <1>1, <1>7, <1>8, DrawPanels
<1> HIDE DEF d
<1>10. /\ d \in Worlds /\ IsInjective(d.list) /\ FocusOk(d) /\ d.lost = w.lost
       /\ ToSet(d.list) \subseteq ToSet(v.list)
  BY <1>7, <1>9 DEF Stage
<1>11. /\ x \in Worlds /\ x.list = d.list /\ x.pan = d.pan /\ x.src = d.src
       /\ x.focus = d.focus /\ x.sav = d.sav /\ x.rf = {} /\ x.lost = l
  BY <1>1, <1>10 DEF Worlds, l
<1> HIDE DEF x
<1>12. ASSUME NEW p \in ToSet(x.list)
       PROVE  /\ Shows(x, x.lost, p) /\ Drawn(x, p) /\ Known(x, Pending(x), p)
              /\ x.list = w.list => CopyCurrent(x, p)
  <2>1. PICK j \in 1 .. Len(v.list) : v.list[j] = p
    <3>1. v.list \in Seq(group)  BY <1>7 DEF Begins, Worlds
    <3> QED BY <1>10, <1>11, <3>1, SeqFacts
  <2>2. Shows(d, l, p) /\ (d.list = v.list => CopyCurrent(d, p)) /\ Drawn(d, p)
    BY <1>9, <1>11, <2>1 DEF Stage, Finished
  <2>3. x.src = d.src /\ x.focus = d.focus /\ x.list = d.list  BY <1>11
  <2>4. Told(x, p) = Told(d, p) /\ \A s : val(x, s) = val(d, s)  BY ONLY <2>3, SameSight
  <2>5. Shows(x, x.lost, p)  BY <1>11, <2>2, <2>4 DEF Shows, Copied, Current
  <2>6. Drawn(x, p)  BY <1>11, <2>2 DEF Drawn
  <2>7. Pending(x) = x.lost  BY <1>11 DEF Pending, Worlds
  <2>8. Known(x, Pending(x), p)  BY <2>5, <2>7 DEF Known, Shows, Late
  <2>9. x.list = w.list => CopyCurrent(x, p)
    BY <1>7, <1>11, <2>2, <2>4 DEF CopyCurrent
  <2> QED BY <2>5, <2>6, <2>8, <2>9
<1>13. FocusOk(x)  BY <1>10, <1>11 DEF FocusOk
<1>14. Good(x)  BY <1>10, <1>11, <1>12, <1>13 DEF Good
<1>15. Good(w)'  BY <1>3, <1>14, GoodPrime
<1>16. (group \in Groups)'  BY <1>3 DEF IInv
<1>17. fresh' => \A p \in ToSet(w'.list) : (Shows(w, w.lost, p) /\ CopyCurrent(w, p))'
  BY <1>3, <1>12, ShowsPrime
<1> QED BY <1>15, <1>16, <1>17 DEF IInv

-----------------------------------------------------------------------------
LEMMA Initially == ASSUME Init PROVE IInv
<1>1. group \subseteq Panel /\ group \in Groups  BY ContentAssumption DEF Init
<1>2. /\ w.src = [s \in Stored |-> IF s = "live" THEN 1 ELSE 0] /\ w.list = <<>>
      /\ w.focus = "none"
  BY DEF Init, World
<1>3. w \in Worlds
  <2>1. NewPanel \in Pan  BY NoText DEF NewPanel, Pan
  <2>2. [s \in Stored |-> IF s = "live" THEN 1 ELSE 0] \in [Stored -> Int]  OBVIOUS
  <2>3. [p \in group |-> NewPanel] \in [group -> Pan]  BY <2>1
  <2>4. [p \in group |-> NoStr] \in [group -> Text]  BY NoText
  <2>5. [x \in Word |-> {}] \in [Word -> SUBSET group]  OBVIOUS
  <2>6. <<>> \in Seq(group)  OBVIOUS
  <2> QED BY <2>2, <2>3, <2>4, <2>5, <2>6 DEF Init, World, Worlds
<1>4. IsInjective(w.list) /\ ToSet(w.list) = {} /\ FocusOk(w)
  BY <1>2 DEF IsInjective, ToSet, FocusOk
<1> QED BY <1>1, <1>3, <1>4 DEF IInv, Good

LEMMA Stutters == ASSUME IInv, UNCHANGED vars PROVE IInv'
<1>1. w' = w /\ group' = group /\ fresh' = fresh  BY DEF vars
<1>2. Good(w)'  BY <1>1, GoodPrime DEF IInv
<1>3. ASSUME fresh', NEW p \in ToSet(w'.list)
      PROVE  (Shows(w, w.lost, p) /\ CopyCurrent(w, p))'
  BY <1>1, <1>3, ShowsPrime DEF IInv
<1> QED BY <1>1, <1>2, <1>3 DEF IInv

(* The strengthened invariant holds in every state, for any groups.        *)
THEOREM Invariant == Spec => []IInv
<1>1. ASSUME IInv, [Next]_vars PROVE IInv'
  <2>1. CASE UNCHANGED vars  BY <1>1, <2>1, Stutters
  <2>2. CASE Next
    BY <1>1, <2>2, StepFrame, StepMarked, StepFlagged, StepSelect, StepKeys, StepGoto,
       StepLogin, StepFlybyEnd
       DEF Next
  <2> QED BY <1>1, <2>1, <2>2
<1> QED BY <1>1, Initially, PTL DEF Spec

(* After a frame every open panel shows what its refresh function watches  *)
(* as it is now, except the data mode whose change load_state() dropped:   *)
(* whatever handlers ran since the last frame, in whatever order.          *)
THEOREM PanelsFresh == Spec => []Fresh
<1>1. ASSUME IInv PROVE Fresh
  <2>1. SUFFICES ASSUME fresh, NEW p \in group, Shown(p), NEW s \in Watched(w, p)
                 PROVE  \/ s \in DOMAIN w.pan[p].str /\ w.pan[p].str[s] = val(w, s)
                        \/ Untold(p, s)
    BY DEF Fresh
  <2>2. group \subseteq Panel /\ w \in Worlds /\ p \in ToSet(w.list)
    BY <1>1, <2>1, InGroup DEF IInv, Good, Shown, Listed
  <2>3. Shows(w, w.lost, p) /\ CopyCurrent(w, p)  BY <1>1, <2>1, <2>2 DEF IInv
  <2>4. s \in Reads(w, p) /\ <<p, s>> \notin Unseen  BY DEF Watched
  <2>5. CASE s \in Saved(p)  BY <2>3, <2>5 DEF Shows, Copied, CopyCurrent
  <2>6. CASE s \notin Saved(p)
    <3>1. s \in Told(w, p)  BY <2>4, <2>6 DEF Told
    <3>2. s \in Stored  BY <2>2, <3>1, WhoSees
    <3>3. val(w, s) = w.src[s]  BY <2>2, <3>2, Values DEF Source
    <3>4. Current(w, p, s) \/ (w.lost /\ Mode(p, s))  BY <2>3, <3>1 DEF Shows
    <3> QED BY <3>3, <3>4 DEF Current, Mode, Untold
  <2> QED BY <2>5, <2>6
<1> QED BY <1>1, Invariant, PTL

(* The display list a panel is drawn from was made from its present text.  *)
THEOREM ListsCurrent == Spec => []DisplayListCurrent
<1>1. ASSUME IInv PROVE DisplayListCurrent
  BY <1>1 DEF IInv, Good, Drawn, DisplayListCurrent, Listed
<1> QED BY <1>1, Invariant, PTL

(* After a frame the only text panel in use, if it has the keyboard, shows *)
(* what has been typed.                                                    *)
THEOREM TypedShown == Spec => []TypedShownAlone
<1>1. ASSUME IInv PROVE TypedShownAlone
  <2>1. SUFFICES ASSUME NEW p \in Uinp, Typing(p), group \cap Uinp = {p}
                 PROVE  w.pan[p].str["buf"] = w.src["buf"]
    BY DEF TypedShownAlone
  <2>2. fresh /\ p = w.focus /\ "buf" \in Reads(w, p)  BY <2>1 DEF Typing
  <2>3. p \in ToSet(w.list)
    <3>1. p # "none"  BY DEF Uinp
    <3> QED BY <1>1, <2>2, <3>1 DEF IInv, Good, FocusOk
  <2>4. "buf" \notin Saved(p)  BY DEF Saved, Copies
  <2>5. "buf" \in Told(w, p)  BY <2>1, <2>2, <2>4 DEF Told
  <2>6. Shows(w, w.lost, p)  BY <1>1, <2>2, <2>3 DEF IInv
  <2> QED BY <2>5, <2>6 DEF Shows, Current, Mode
<1> QED BY <1>1, Invariant, PTL

=============================================================================
