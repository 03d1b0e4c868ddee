----------------------------- MODULE AutoFlyby -----------------------------
(***************************************************************************)
(* The life of a flyby (flyby.c): recording one, playing one, and the      *)
(* automatic playback that begins when nobody has touched the program for  *)
(* a while.  Every input handler calls flyby_rstautoto, which counts a     *)
(* reset in flyby_nautoto and arms a GLUT timer; every timer that expires  *)
(* takes one off the count, and the one that brings it to zero begins the  *)
(* playback (callout.c, cocb_autoto).  GLUT timers cannot be cancelled.    *)
(*                                                                         *)
(* All timers run for the same time, so the last of them to expire is the  *)
(* one of the last input: "no timer is left" says "no input for that       *)
(* time", and no clock is needed.                                          *)
(***************************************************************************)
EXTENDS Integers

CONSTANTS
    Others,      \* lengths, in frames, of the flyby files a user may choose
    CanTurnOff,  \* whether the user ever turns the auto-flyby option off
    Manual,      \* whether the user records and plays flybys by hand
    MaxPending,  \* bound: inputs are taken while fewer timers are armed
    MaxFrames    \* bound: frames a recording adds to a file

ASSUME AutoFlybyAssumption ==
    /\ Others \subseteq Nat
    /\ CanTurnOff \in BOOLEAN /\ Manual \in BOOLEAN
    /\ MaxPending \in Nat /\ MaxFrames \in Nat \ {0}

VARIABLES
    opts,     \* st.st_opts: the options that matter here
    sav,      \* sav_st.st_opts
    mode,     \* flyby_mode; flyby_fp is open iff it is not "off"
    nautoto,  \* flyby_nautoto
    pending,  \* number of armed cocb_autoto timers
    file,     \* frames in the file flyby_fn names, NoFile if there is none
    apart,    \* a recording goes to a file flyby_fn does not name any more
    pos,      \* frames of the open file played so far
    spinning, \* flyby_read is in a loop it cannot leave
    was,      \* history: the options when the playback began
    recorded, \* history: a recording has gone to the file flyby_fn names
    left      \* history: timers armed when the option was last turned on

playback == <<file, apart, pos, spinning, recorded>>
vars == <<opts, sav, mode, nautoto, pending, playback, was, left>>

Option == {"autofb", "loop", "pause", "tween"}
NoFile == -1

Init ==
    /\ opts = {"tween"}
    /\ sav = {}
    /\ mode = "off"
    /\ nautoto = 0
    /\ pending = 0
    /\ file \in Others \cup {NoFile}
    /\ apart = FALSE
    /\ pos = 0
    /\ spinning = FALSE
    /\ was = {}
    /\ recorded = (file > 0)
    /\ left = 0

-----------------------------------------------------------------------------
(* flyby_rstautoto with options o and flyby mode m: the resets it counts.  *)
resets(o, m) == IF "autofb" \in o /\ m = "off" THEN 1 ELSE 0

rstautoto(n) == nautoto' = nautoto + n /\ pending' = pending + n

(* flyby_begin(FBM_PLAY) with options o: without a file it only returns.   *)
begin_play(o) ==
    IF file = NoFile
    THEN opts' = o /\ UNCHANGED <<mode, was, playback>>
    ELSE /\ mode' = "play"
         /\ opts' = o \ {"tween"}
         /\ pos' = 0
         /\ was' = opts
         /\ UNCHANGED <<file, apart, spinning, recorded>>

(* flyby_beginauto: loop, begin, and then save the options as they were    *)
(* before the loop option went on.                                         *)
beginauto_saves_loop == begin_play(opts \cup {"loop"}) /\ sav' = opts \cup {"loop"}

beginauto == begin_play(opts \cup {"loop"}) /\ sav' = opts

(* flyby_end of a playback: load_state gives back the saved options, and   *)
(* the timer is armed anew.                                                *)
end_play_no_reset ==
    /\ mode' = "off"
    /\ opts' = sav
    /\ UNCHANGED <<sav, nautoto, pending, playback, was, left>>

end_play ==
    /\ mode' = "off"
    /\ opts' = sav
    /\ rstautoto(resets(sav, "off"))
    /\ UNCHANGED <<sav, playback, was, left>>

-----------------------------------------------------------------------------
(* Input.  During a playback only gl_keyh_actflyby and gl_spkeyh_actflyby  *)
(* listen; the other handlers all begin with flyby_rstautoto.              *)
awake == ~spinning /\ pending < MaxPending /\ nautoto < MaxPending

(* A key, a click or a motion with no say in what follows.                 *)
touch ==
    /\ mode # "play"
    /\ rstautoto(resets(opts, mode))
    /\ UNCHANGED <<opts, sav, mode, playback, was, left>>

(* gl_keyh_option, gl_keyh_flyby 'l' and the space of gl_keyh_default:     *)
(* opt_flip, which starts the count afresh when automatic playback goes on,*)
(* whatever timers are still armed from before it went off.                *)
key_option(o) ==
    LET new == (opts \cup {o}) \ (opts \cap {o})
        on  == o = "autofb" /\ o \notin opts
    IN  /\ mode # "play"
        /\ o = "autofb" /\ o \in opts => CanTurnOff
        /\ opts' = new
        /\ IF on THEN /\ nautoto' = resets(new, mode)
                      /\ pending' = pending + resets(new, mode)
                      /\ left' = pending
           ELSE rstautoto(resets(opts, mode)) /\ UNCHANGED left
        /\ UNCHANGED <<sav, mode, playback, was>>

(* gl_keyh_flyby 'p', gscb_pw_fb PWFF_PLAY.                                *)
key_play ==
    /\ mode = "off" /\ Manual
    /\ rstautoto(resets(opts, mode))
    /\ begin_play(opts)
    /\ sav' = IF file = NoFile THEN sav ELSE opts
    /\ UNCHANGED left

(* gl_keyh_flyby 'q', PWFF_REC: flyby_begin(FBM_REC) appends an INIT frame.*)
key_record_no_init ==
    /\ mode = "off" /\ Manual /\ file < MaxFrames
    /\ rstautoto(resets(opts, mode))
    /\ mode' = "rec"
    /\ file' = IF file = NoFile THEN 0 ELSE file
    /\ apart' = FALSE /\ recorded' = TRUE
    /\ UNCHANGED <<opts, sav, pos, spinning, was, left>>

key_record ==
    /\ mode = "off" /\ Manual /\ file < MaxFrames
    /\ rstautoto(resets(opts, mode))
    /\ mode' = "rec"
    /\ file' = IF file = NoFile THEN 1 ELSE file + 1
    /\ apart' = FALSE /\ recorded' = TRUE
    /\ UNCHANGED <<opts, sav, pos, spinning, was, left>>

(* gl_keyh_flyby 'q' again, PWFF_STOPREC: flyby_end of a recording.        *)
key_stop ==
    /\ mode = "rec"
    /\ mode' = "off"
    /\ rstautoto(resets(opts, "off"))
    /\ UNCHANGED <<opts, sav, playback, was, left>>

(* gl_keyh_flyby 'c', PWFF_CLR: flyby_clear unlinks the file.              *)
key_clear ==
    /\ mode # "play"
    /\ rstautoto(resets(opts, mode))
    /\ file' = NoFile
    /\ apart' = (mode = "rec") /\ recorded' = FALSE
    /\ UNCHANGED <<opts, sav, mode, pos, spinning, was, left>>

(* The chooser: flyby_set names another file that is there already.  A     *)
(* recording goes on in the file it was begun in.                          *)
select(k) ==
    /\ mode # "play"
    /\ rstautoto(resets(opts, mode))
    /\ file' = k
    /\ apart' = (mode = "rec") /\ recorded' = (k > 0)
    /\ UNCHANGED <<opts, sav, mode, pos, spinning, was, left>>

choose(k) == k \in Others /\ select(k)

(* The "new flyby" box: uinpcb_fbnew selects the name that was typed and   *)
(* touches its file, which is empty until something is recorded.           *)
fbnew == select(0)

(* gl_keyh_actflyby: the space pauses, any other key ends the playback.    *)
actflyby_pause ==
    /\ mode = "play"
    /\ opts' = (opts \cup {"pause"}) \ (opts \cap {"pause"})
    /\ UNCHANGED <<sav, mode, nautoto, pending, playback, was, left>>

actflyby_break == mode = "play" /\ end_play

User ==
    /\ awake
    /\ \/ touch \/ key_play \/ key_record \/ key_stop \/ key_clear
       \/ \E o \in Option : key_option(o)
       \/ \E k \in Others : choose(k)
       \/ fbnew
       \/ actflyby_pause \/ actflyby_break

-----------------------------------------------------------------------------
(* flyby_update, once for every picture: record a frame, or play one.      *)
flyby_record ==
    /\ mode = "rec" /\ ~spinning
    /\ ~apart /\ file < MaxFrames
    /\ file' = file + 1
    /\ UNCHANGED <<opts, sav, mode, nautoto, pending, apart, pos, spinning, was,
                   recorded, left>>

playing == mode = "play" /\ "pause" \notin opts /\ ~spinning

flyby_frame ==
    /\ playing
    /\ pos < file
    /\ pos' = pos + 1
    /\ UNCHANGED <<opts, sav, mode, nautoto, pending, file, apart, spinning, was,
                   recorded, left>>

(* At the end of the file a looping playback rewinds and reads on in the   *)
(* same call: it finds the first frame, or the end of an empty file again, *)
(* and again.                                                              *)
flyby_rewind ==
    /\ playing
    /\ pos = file /\ "loop" \in opts
    /\ pos' = IF file > 0 THEN 1 ELSE pos
    /\ spinning' = (file = 0)
    /\ UNCHANGED <<opts, sav, mode, nautoto, pending, file, apart, was, recorded,
                   left>>

flyby_eof == playing /\ pos = file /\ "loop" \notin opts /\ end_play

(* cocb_autoto: a timer expires.                                           *)
cocb_autoto_early ==
    /\ pending > 0 /\ ~spinning
    /\ pending' = pending - 1
    /\ IF "autofb" \in opts /\ mode = "off"
       THEN /\ nautoto' = nautoto - 1
            /\ IF nautoto <= 2 THEN beginauto
               ELSE UNCHANGED <<opts, sav, mode, playback, was>>
       ELSE UNCHANGED <<opts, sav, mode, nautoto, playback, was>>
    /\ UNCHANGED left

cocb_autoto ==
    /\ pending > 0 /\ ~spinning
    /\ pending' = pending - 1
    /\ IF "autofb" \in opts /\ mode = "off"
       THEN /\ nautoto' = nautoto - 1
            /\ IF nautoto = 1 THEN beginauto
               ELSE UNCHANGED <<opts, sav, mode, playback, was>>
       ELSE UNCHANGED <<opts, sav, mode, nautoto, playback, was>>
    /\ UNCHANGED left

Display == flyby_record \/ flyby_frame \/ flyby_rewind \/ flyby_eof

Next == User \/ Display \/ cocb_autoto

Spec == Init /\ [][Next]_vars

(* The main loop of GLUT keeps drawing and keeps expiring timers.          *)
FairSpec == Spec /\ WF_vars(Display) /\ WF_vars(cocb_autoto)

-----------------------------------------------------------------------------
(* Types.  A playback has a file and stays within it.                      *)
TypeOK ==
    /\ opts \subseteq Option /\ sav \subseteq Option /\ was \subseteq Option
    /\ mode \in {"off", "rec", "play"}
    /\ nautoto \in Int /\ pending \in Nat
    /\ file \in Nat \cup {NoFile} /\ pos \in Nat
    /\ apart \in BOOLEAN /\ spinning \in BOOLEAN /\ recorded \in BOOLEAN
    /\ left \in Nat
    /\ mode = "play" => file # NoFile /\ pos <= file

(* flyby.c:438-440: nautoto counts the resets; "Once it hits zero, no more *)
(* reset actions have been triggered, and the auto-flyby may commence".    *)
(* When automatic playback begins, no timer of a later input is running,   *)
(* but for as many as were armed when the option was last turned on:       *)
(* opt_flip sets the count to zero and leaves those timers armed           *)
(* (main.c:250-253), and each of them takes one off the new count.  For an *)
(* option that is not turned off and on again left is zero, and no timer   *)
(* is running.                                                             *)
NeverEarly ==
    [][mode = "off" /\ mode' = "play" /\ pending' < pending
         => pending' <= left]_vars

(* flyby_begin ("Backup current options and enable/disable special options *)
(* for the flyby duration", flyby.c:217-220): when a playback ends the     *)
(* options are those of the moment it began, whoever began and ended it    *)
(* and however it was paused meanwhile.                                    *)
PlayRestores ==
    [][mode = "play" /\ mode' = "off" => opts' = was]_vars

(* xt3dmon.1:259: "Press any other key to break out of playback."  A       *)
(* playback comes back to the main loop, where a key can reach it, if      *)
(* anything was ever recorded in its file, however the recording was       *)
(* broken off, cleared or led elsewhere.  The code does not keep the       *)
(* sentence for a file uinpcb_fbnew made and nothing was recorded in:      *)
(* flyby_read rewinds it for ever (flyby.c:267-273), here spinning.        *)
RecordedPlays == spinning => ~recorded

(* flyby.c:442-446: "when the timer for each expires, nautoto gets         *)
(* decremented, until the final one expires.  When that happens ... nautoto *)
(* to zero, enabling the auto flyby".  A user who leaves with the option   *)
(* on and a file to play finds it playing, or left it recording.           *)
Away == <>[][~User]_vars /\ <>[]("autofb" \in opts) /\ <>[](file # NoFile)

Commences == Away => []<>(mode # "off")

(* The same for as long as the count is that of the timers that are armed. *)
CommencesCounted ==
    Away /\ <>[](mode = "off" => nautoto = pending) => []<>(mode # "off")
=============================================================================
