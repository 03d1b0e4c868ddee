-------------------------- MODULE AutoFlybyProofs --------------------------
(* Proofs about AutoFlyby, for any files and any bounds.                   *)
EXTENDS AutoFlyby, TLAPS

(* A playback knows the options it found.                                  *)
SavedAre == mode = "play" => sav = was

AutoInv == TypeOK /\ SavedAre

(* Every armed timer is counted, but for as many as were armed when the    *)
(* option was last turned on.  Without this NeverEarly does not follow     *)
(* from the step alone: the count would say nothing of the timers.         *)
Counted == pending <= nautoto + left

(* A file that was recorded in has a frame, and a recording goes to such a *)
(* file unless flyby_fn names another one.                                 *)
Filled ==
    /\ recorded => file > 0
    /\ spinning => file = 0
    /\ mode = "rec" /\ ~apart => recorded

-----------------------------------------------------------------------------
(* flyby_rstautoto counts one reset, or none.                              *)
LEMMA ResetsAre == \A o, m : resets(o, m) \in {0, 1}
BY DEF resets

(* Every step keeps the types and the saved options.                       *)
LEMMA AutoStep == AutoInv /\ [Next]_vars => AutoInv'
<1> USE AutoFlybyAssumption, ResetsAre DEF AutoInv, TypeOK, SavedAre, NoFile
<1> SUFFICES ASSUME AutoInv, [Next]_vars PROVE AutoInv'
    OBVIOUS
<1>1. CASE touch
    BY <1>1 DEF touch, rstautoto, playback
<1>2. CASE key_play
  <2>1. /\ nautoto' \in Int /\ pending' \in Nat
        /\ mode' \in {"off", "rec", "play"}
        /\ sav' \subseteq Option /\ was' \subseteq Option
      BY <1>2 DEF key_play, rstautoto, begin_play
  <2>2. CASE file = NoFile
      BY <1>2, <2>1, <2>2 DEF key_play, begin_play, playback
  <2>3. CASE file # NoFile
      BY <1>2, <2>1, <2>3 DEF key_play, begin_play
  <2> QED
      BY <2>2, <2>3
<1>3. CASE key_record
  <2>1. apart' \in BOOLEAN /\ spinning' \in BOOLEAN /\ recorded' \in BOOLEAN
      BY <1>3 DEF key_record
  <2>2. nautoto' \in Int /\ pending' \in Nat /\ file' \in Nat
      BY <1>3 DEF key_record, rstautoto
  <2> QED
      BY <1>3, <2>1, <2>2 DEF key_record
<1>4. CASE key_stop
    BY <1>4 DEF key_stop, rstautoto, playback
<1>5. CASE key_clear
  <2>1. apart' \in BOOLEAN /\ recorded' \in BOOLEAN /\ spinning' \in BOOLEAN
      BY <1>5 DEF key_clear
  <2> QED
      BY <1>5, <2>1 DEF key_clear, rstautoto
<1>6. ASSUME NEW o \in Option, key_option(o) PROVE AutoInv'
    BY <1>6 DEF key_option, rstautoto, playback
<1>7. ASSUME NEW k \in Others, choose(k) PROVE AutoInv'
  <2>1. apart' \in BOOLEAN /\ recorded' \in BOOLEAN /\ spinning' \in BOOLEAN
      BY <1>7 DEF choose, select
  <2> QED
      BY <1>7, <2>1 DEF choose, select, rstautoto
<1>15. CASE fbnew
  <2>1. apart' \in BOOLEAN /\ recorded' \in BOOLEAN /\ spinning' \in BOOLEAN
      BY <1>15 DEF fbnew, select
  <2> QED
      BY <1>15, <2>1 DEF fbnew, select, rstautoto
<1>8. CASE actflyby_pause
    BY <1>8 DEF actflyby_pause, playback, Option
<1>9. CASE end_play
    BY <1>9 DEF end_play, rstautoto, playback
<1>10. CASE flyby_record
    BY <1>10 DEF flyby_record
<1>11. CASE flyby_frame
    BY <1>11 DEF flyby_frame, playing
<1>12. CASE flyby_rewind
    BY <1>12 DEF flyby_rewind, playing
<1>13. CASE cocb_autoto
  <2>1. pending' \in Nat /\ nautoto' \in Int /\ left' \in Nat
      BY <1>13 DEF cocb_autoto
  <2>2. CASE beginauto /\ file = NoFile /\ mode = "off"
      BY <2>1, <2>2 DEF beginauto, begin_play, playback, Option
  <2>3. CASE beginauto /\ file # NoFile
    <3>1. opts' \subseteq Option /\ sav' \subseteq Option /\ was' \subseteq Option
        BY <2>3 DEF beginauto, begin_play, Option
    <3>2. mode' = "play" /\ sav' = was' /\ pos' = 0 /\ file' = file
        BY <2>3 DEF beginauto, begin_play
    <3>3. apart' \in BOOLEAN /\ spinning' \in BOOLEAN /\ recorded' \in BOOLEAN
        BY <2>3 DEF beginauto, begin_play
    <3> QED
        BY <2>1, <2>3, <3>1, <3>2, <3>3
  <2>4. CASE UNCHANGED <<opts, sav, mode, playback, was>>
      BY <2>1, <2>4 DEF playback
  <2> QED
      BY <1>13, <2>2, <2>3, <2>4 DEF cocb_autoto
<1>14. CASE UNCHANGED vars
    BY <1>14 DEF vars, playback
<1> QED
    BY <1>1, <1>2, <1>3, <1>4, <1>5, <1>6, <1>7, <1>8, <1>9, <1>10, <1>11,
       <1>12, <1>13, <1>14, <1>15
    DEF Next, User, Display, actflyby_break, flyby_eof

(* Turning the option on writes off the timers that are armed; every other *)
(* step keeps the count.                                                   *)
LEMMA CountedStep ==
    ASSUME AutoInv, Counted, [Next]_vars
    PROVE  Counted'
<1> USE AutoFlybyAssumption DEF AutoInv, TypeOK, Counted, Option
<1>1. CASE touch
    BY <1>1 DEF touch, rstautoto, resets, playback
<1>2. CASE key_play
    BY <1>2 DEF key_play, rstautoto, resets, playback, begin_play
<1>3. CASE key_record
    BY <1>3 DEF key_record, rstautoto, resets
<1>4. CASE key_stop
    BY <1>4 DEF key_stop, rstautoto, resets, playback
<1>5. CASE key_clear
    BY <1>5 DEF key_clear, rstautoto, resets
<1>6. ASSUME NEW o \in Option, key_option(o) PROVE Counted'
    BY <1>6 DEF key_option, rstautoto, resets, playback
<1>7. ASSUME NEW k \in Others, choose(k) PROVE Counted'
    BY <1>7 DEF choose, select, rstautoto, resets
<1>15. CASE fbnew
    BY <1>15 DEF fbnew, select, rstautoto, resets
<1>8. CASE actflyby_pause
    BY <1>8 DEF actflyby_pause, playback
<1>9. CASE mode = "play" /\ end_play
    BY <1>9 DEF end_play, rstautoto, resets, playback
<1>10. CASE flyby_record
    BY <1>10 DEF flyby_record
<1>11. CASE flyby_frame
    BY <1>11 DEF flyby_frame, playing
<1>12. CASE flyby_rewind
    BY <1>12 DEF flyby_rewind, playing
<1>13. CASE cocb_autoto
    BY <1>13 DEF cocb_autoto, beginauto, begin_play, playback
<1>14. CASE UNCHANGED vars
    BY <1>14 DEF vars, playback
<1> QED
    BY <1>1, <1>2, <1>3, <1>4, <1>5, <1>6, <1>7, <1>8, <1>9, <1>10, <1>11,
       <1>12, <1>13, <1>14, <1>15
    DEF Next, User, Display, actflyby_break, flyby_eof, playing

(* Files that were recorded in stay files with a frame.                    *)
LEMMA FilledStep ==
    ASSUME AutoInv, Filled, [Next]_vars
    PROVE  Filled'
<1> USE AutoFlybyAssumption DEF AutoInv, TypeOK, Filled, NoFile
<1>1. CASE touch
    BY <1>1 DEF touch, playback
<1>2. CASE key_play
    BY <1>2 DEF key_play, playback, begin_play
<1>3. CASE awake /\ key_record
  <2>1. recorded' /\ ~spinning'
      BY <1>3, Zenon DEF key_record, awake
  <2>2. file' > 0
      BY <1>3 DEF key_record
  <2> QED
      BY <2>1, <2>2
<1>4. CASE key_stop
    BY <1>4 DEF key_stop, playback
<1>5. CASE awake /\ key_clear
  <2>1. ~recorded' /\ ~spinning'
      BY <1>5, Zenon DEF key_clear, awake
  <2>2. mode' = "rec" => apart'
      BY <1>5, Zenon DEF key_clear
  <2> QED
      BY <2>1, <2>2
<1>6. ASSUME NEW o \in Option, key_option(o) PROVE Filled'
    BY <1>6 DEF key_option, playback
<1>7. ASSUME NEW k \in Nat, awake, select(k) PROVE Filled'
  <2>1. (recorded' <=> k > 0) /\ ~spinning'
      BY <1>7, Zenon DEF select, awake
  <2>2. mode' = "rec" => apart'
      BY <1>7, Zenon DEF select
  <2>3. file' = k
      BY <1>7 DEF select
  <2> QED
      BY <2>1, <2>2, <2>3
<1>8. CASE actflyby_pause
    BY <1>8 DEF actflyby_pause, playback
<1>9. CASE end_play
    BY <1>9 DEF end_play, playback
<1>10. CASE flyby_record
    BY <1>10 DEF flyby_record
<1>11. CASE flyby_frame
    BY <1>11 DEF flyby_frame
<1>12. CASE flyby_rewind
    BY <1>12 DEF flyby_rewind
<1>13. CASE cocb_autoto
    BY <1>13 DEF cocb_autoto, beginauto, begin_play, playback
<1>14. CASE UNCHANGED vars
    BY <1>14 DEF vars, playback
<1> QED
    BY <1>1, <1>2, <1>3, <1>4, <1>5, <1>6, <1>7, <1>8, <1>9, <1>10, <1>11,
       <1>12, <1>13, <1>14
    DEF Next, User, Display, actflyby_break, flyby_eof, choose, fbnew

(* The initial states have all of it.                                      *)
LEMMA AutoInit == Init => AutoInv /\ Counted /\ Filled
<1> SUFFICES ASSUME Init PROVE AutoInv /\ Counted /\ Filled
    OBVIOUS
<1>0. (file > 0) \in BOOLEAN
    OBVIOUS
<1>1. apart \in BOOLEAN /\ spinning \in BOOLEAN /\ recorded \in BOOLEAN
    BY <1>0, Zenon DEF Init
<1>2. TypeOK
    BY <1>1, AutoFlybyAssumption DEF Init, TypeOK, Option, NoFile
<1>3. SavedAre /\ Counted
    BY DEF Init, SavedAre, Counted
<1>4. Filled
    BY DEF Init, Filled
<1> QED
    BY <1>2, <1>3, <1>4 DEF AutoInv

-----------------------------------------------------------------------------
(* The types, in every reachable state.                                    *)
THEOREM AutoTypes == Spec => []TypeOK
<1>1. Init => AutoInv
    BY AutoInit
<1>2. AutoInv => TypeOK
    BY DEF AutoInv
<1> QED
    BY <1>1, <1>2, AutoStep, PTL DEF Spec

(* A playback that ends gives the user back the options it found, whoever  *)
(* began it, even one that began by turning the loop option on.            *)
THEOREM OptionsRestored == Spec => PlayRestores
<1>1. Init => AutoInv
    BY AutoInit
<1>2. ASSUME AutoInv, [Next]_vars
      PROVE  [mode = "play" /\ mode' = "off" => opts' = was]_vars
  <2> SUFFICES ASSUME mode = "play", mode' = "off" PROVE opts' = was
      OBVIOUS
  <2>1. CASE end_play
      BY <1>2, <2>1 DEF end_play, AutoInv, SavedAre
  <2>2. CASE actflyby_pause
      BY <2>2 DEF actflyby_pause
  <2>3. CASE flyby_frame \/ flyby_rewind \/ flyby_record
      BY <2>3 DEF flyby_frame, flyby_rewind, flyby_record
  <2>4. CASE cocb_autoto
      BY <2>4 DEF cocb_autoto
  <2>5. CASE UNCHANGED vars
      BY <2>5 DEF vars, playback
  <2> QED
      BY <1>2, <2>1, <2>2, <2>3, <2>4, <2>5
      DEF Next, User, Display, actflyby_break, flyby_eof, touch, key_play,
          key_record, key_stop, key_clear, key_option, choose, fbnew, select
<1> QED
    BY <1>1, <1>2, AutoStep, PTL DEF Spec, PlayRestores

(* Automatic playback begins only when the timer of the last input has     *)
(* expired, but for the timers armed when the option was last turned on,   *)
(* for any number of inputs, recordings and playbacks in between and       *)
(* however often the option is turned off and on.                          *)
THEOREM QuietFirst == Spec => NeverEarly
<1>1. Init => AutoInv /\ Counted
    BY AutoInit
<1>2. AutoInv /\ Counted /\ [Next]_vars => (AutoInv /\ Counted)'
    BY AutoStep, CountedStep
<1>3. ASSUME AutoInv, Counted, [Next]_vars
      PROVE  [mode = "off" /\ mode' = "play" /\ pending' < pending
                => pending' <= left]_vars
  <2> SUFFICES ASSUME mode = "off", mode' = "play", pending' < pending
               PROVE  pending' <= left
      OBVIOUS
  <2> USE <1>3 DEF AutoInv, TypeOK
  <2>1. CASE cocb_autoto
      BY <2>1 DEF cocb_autoto, Counted
  <2>2. CASE key_play
      BY <2>2 DEF key_play, rstautoto, resets
  <2>3. CASE UNCHANGED vars
      BY <2>3 DEF vars, playback
  <2> QED
      BY <2>1, <2>2, <2>3
      DEF Next, User, Display, actflyby_break, actflyby_pause, flyby_eof,
          touch, key_record, key_stop, key_clear, key_option, choose, fbnew, select,
          flyby_record, flyby_frame, flyby_rewind, playing
<1> QED
    BY <1>1, <1>2, <1>3, PTL DEF Spec, NeverEarly

(* Whatever is chosen, made, cleared and recorded, flyby_read comes back   *)
(* from a file that something was recorded in.                             *)
THEOREM RecordingsPlay == Spec => []RecordedPlays
<1>1. Init => AutoInv /\ Filled
    BY AutoInit
<1>2. AutoInv /\ Filled /\ [Next]_vars => (AutoInv /\ Filled)'
    BY AutoStep, FilledStep
<1>3. Filled => RecordedPlays
    BY DEF Filled, RecordedPlays
<1> QED
    BY <1>1, <1>2, <1>3, PTL DEF Spec
=============================================================================
