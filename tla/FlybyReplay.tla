---------------------------- MODULE FlybyReplay ----------------------------
(***************************************************************************)
(* The selected nodes (selnode.c) and what a flyby makes of them.  The     *)
(* selection is kept three times: in the list selnodes, in the flag        *)
(* NF_SELNODE of every node and in the count nselnodes.  While a flyby is  *)
(* recorded every change appends one record per node; flyby_read replays   *)
(* each by toggling its node, so a record does not say whether it selects. *)
(* A recording is appended to the file that is there, and a playback may   *)
(* begin again at its start.                                               *)
(*                                                                         *)
(* A playback also leafs through the frames of a reel of archived data, at *)
(* places it computes from the number of its own frames.                   *)
(*                                                                         *)
(* Panels and the keyboard are the subject of PanelInput, the options and  *)
(* the idle timers of AutoFlyby; a paused playback is one that takes its   *)
(* time.  A flyby file that exists has been recorded, so it has a frame.   *)
(***************************************************************************)
EXTENDS Integers, FiniteSets, SequencesExt

CONSTANTS
    Node,    \* the nodes that are shown
    Ways,    \* functions from nodes to neighbours, for every arrow key; a node
             \* the last report does not have may share a neighbour
    Reels,   \* numbers of frames of the reels; 0 stands for the option off
    MaxFile, \* bound: records of the file while something is recorded
    MaxSel   \* bound: entries of the selection

ASSUME FlybyReplayAssumption ==
    /\ IsFiniteSet(Node)
    /\ Ways \subseteq [Node -> Node]
    /\ Reels \subseteq Nat
    /\ {MaxFile, MaxSel} \subseteq Nat

VARIABLES
    sn,     \* the selection: selnodes, NF_SELNODE and nselnodes
    mode,   \* flyby_mode
    file,   \* records of the file flyby_fn names, <<>> if there is none
    apart,  \* the file that is recorded has been unlinked
    at,     \* records of the file that flyby_read has read
    loop,   \* OP_LOOPFLYBY during the playback
    reel,   \* reelframe_list.ol_cur with OP_REEL on, or 0
    reel_pos,
    flyby_len,
    flyby_pos,
    met,    \* history: sn_replace chose a node that was selected already
    skewed, \* history: the file has records of sn_replace, or began with a
            \* selection that had a node twice
    carry   \* history: what was selected where the recording being played began

selection == <<sn, met>>
recording == <<file, apart, skewed>>
playback == <<at, loop, carry>>
reels == <<reel, reel_pos, flyby_len, flyby_pos>>
vars == <<selection, recording, playback, reels, mode>>

(* sn.out collects the records the calls of one handler write.             *)
Nothing == [list |-> <<>>, flag |-> {}, count |-> 0, out |-> <<>>]

SelRec(n) == [type |-> "selnode", node |-> n]
(* INIT and SEQ records hold the state; `truth` is, for the properties     *)
(* only, what was selected when they were written.                         *)
StateRec(t, s) == [type |-> t, truth |-> ToSet(s.list)]
IsState(r) == r.type \in {"init", "seq"}

Init ==
    /\ sn = Nothing
    /\ mode = "off"
    /\ file = <<>> /\ apart = FALSE
    /\ at = 0 /\ loop = FALSE
    /\ reel = 0 /\ reel_pos = -1 /\ flyby_len = 0 /\ flyby_pos = 0
    /\ met = FALSE /\ skewed = FALSE /\ carry = {}

-----------------------------------------------------------------------------
(* The calls of selnode.c, from selection to selection.  Operators named   *)
(* _unchecked, _lost and _rounded_up are plausible mistakes that no        *)
(* specification uses.                                                     *)

sn_insert(s, n) ==
    [list |-> <<n>> \o s.list, flag |-> s.flag \cup {n},
     count |-> s.count + 1, out |-> Append(s.out, SelRec(n))]

sn_add_unchecked(s, n) == sn_insert(s, n)
sn_add(s, n) == IF Contains(s.list, n) THEN s ELSE sn_insert(s, n)

sn_clear(s) ==
    [list |-> <<>>, flag |-> s.flag \ ToSet(s.list), count |-> 0,
     out |-> s.out \o [i \in DOMAIN s.list |-> SelRec(s.list[i])]]

(* The first entry of the node goes.                                       *)
sn_del(s, n) ==
    [list |-> RemoveFirst(s.list, n), flag |-> s.flag \ {n},
     count |-> s.count - 1, out |-> Append(s.out, SelRec(n))]

sn_toggle(s, n) ==
    IF Contains(s.list, n) THEN sn_del(s, n) ELSE sn_insert(s, n)

sn_set(s, n) == sn_insert(sn_clear(s), n)

(* Both records name the new node: the old one has been overwritten.       *)
sn_replace(s, i, n) ==
    IF s.list[i] = n
    THEN s
    ELSE [list |-> [s.list EXCEPT ![i] = n],
          flag |-> (s.flag \ {s.list[i]}) \cup {n},
          count |-> s.count,
          out |-> s.out \o <<SelRec(n), SelRec(n)>>]

(* One call after the other.  A record of a flyby is a call, too.          *)
add(n)        == [type |-> "add", node |-> n]
replace(i, n) == [type |-> "replace", entry |-> i, node |-> n]

call(s, c) ==
    CASE c.type = "add"     -> sn_add(s, c.node)
      [] c.type = "replace" -> sn_replace(s, c.entry, c.node)
      [] c.type = "selnode" -> sn_toggle(s, c.node)
      [] IsState(c)         -> s

calls(s, cs) ==
    LET after[i \in 0 .. Len(cs)] == IF i = 0 THEN s ELSE call(after[i - 1], cs[i])
    IN  after[Len(cs)]

sn_addallvis(s) ==
    LET np == SetToSeq(Node) IN calls(s, [i \in DOMAIN np |-> add(np[i])])

(* An arrow key with and without the shift key, for every selected node.   *)
spread(s, way) == calls(s, [i \in DOMAIN s.list |-> add(way[s.list[i]])])
moved(s, way)  == calls(s, [i \in DOMAIN s.list |-> replace(i, way[s.list[i]])])

(* A node moves onto one that has yet to move, or where another has moved. *)
meets(s, way) ==
    \E i, j \in DOMAIN s.list :
        /\ way[s.list[i]] # s.list[i]
        /\ \/ j > i /\ way[s.list[i]] = s.list[j]
           \/ j < i /\ way[s.list[i]] = way[s.list[j]]

-----------------------------------------------------------------------------
(* The inputs that change the selection; all of them are given only while  *)
(* no playback has taken the mouse and the keyboard.                       *)

(* The selection becomes s, and its records are written.                   *)
written(s) ==
    IF mode = "rec" /\ ~apart THEN file \o s.out ELSE file

select(s) ==
    /\ mode \in {"off", "rec"}
    /\ Len(s.list) <= MaxSel
    /\ mode = "rec" => Len(written(s)) < MaxFile
    /\ sn' = [s EXCEPT !.out = <<>>]
    /\ file' = written(s)
    /\ UNCHANGED <<apart, playback, reels, mode>>

gscb_node(n) == select(sn_set(sn, n)) /\ met' = FALSE /\ UNCHANGED skewed
gscb_node_shift(n) == select(sn_toggle(sn, n)) /\ UNCHANGED <<met, skewed>>
uinpcb_gotonode(n) == select(sn_add(sn, n)) /\ UNCHANGED <<met, skewed>>
key_c == select(sn_clear(sn)) /\ met' = FALSE /\ UNCHANGED skewed
key_all == select(sn_addallvis(sn)) /\ UNCHANGED <<met, skewed>>

gl_spkeyh_node_shift(way) ==
    select(spread(sn, way)) /\ UNCHANGED <<met, skewed>>

gl_spkeyh_node(way) ==
    /\ select(moved(sn, way))
    /\ met' = (met \/ meets(sn, way))
    /\ skewed' = (skewed \/ file' # file)

-----------------------------------------------------------------------------
(* Recording.                                                              *)

begin_rec_selection_lost ==
    /\ mode = "off"
    /\ Len(file) + 1 < MaxFile
    /\ mode' = "rec"
    /\ file' = Append(file, StateRec("init", sn))
    /\ UNCHANGED <<selection, apart, skewed, playback, reels>>

(* The file is opened for appending.                                       *)
begin_rec ==
    /\ mode = "off"
    /\ Len(file) + 1 + Len(sn.list) < MaxFile
    /\ mode' = "rec"
    /\ file' = Append(file, StateRec("init", sn))
                 \o [i \in DOMAIN sn.list |-> SelRec(sn.list[i])]
    /\ skewed' = (skewed \/ ~IsInjective(sn.list))
    /\ UNCHANGED <<selection, apart, playback, reels>>

(* A frame is drawn.                                                       *)
flyby_writeseq ==
    /\ mode = "rec" /\ ~apart
    /\ Len(file) < MaxFile
    /\ file' = Append(file, StateRec("seq", sn))
    /\ UNCHANGED <<selection, apart, skewed, playback, reels, mode>>

end_rec ==
    /\ mode = "rec"
    /\ mode' = "off"
    /\ apart' = FALSE
    /\ UNCHANGED <<selection, file, skewed, playback, reels>>

(* A recording under way goes on in the file that has no name any more.    *)
flyby_clear ==
    /\ mode \in {"off", "rec"}
    /\ file # <<>>
    /\ file' = <<>>
    /\ skewed' = FALSE
    /\ apart' = (mode = "rec")
    /\ UNCHANGED <<selection, playback, reels, mode>>

-----------------------------------------------------------------------------
(* Playing.                                                                *)

(* reel_advance from position p of a reel of r frames.                     *)
reel_advance(p, r) == IF p + 1 >= r THEN p ELSE p + 1

flyby_calclen == Cardinality({i \in DOMAIN file : IsState(file[i])})

(* l: the loop option, or an automatic playback; r: the reel, if any.      *)
begin_play(l, r) ==
    /\ mode = "off"
    /\ file # <<>>
    /\ mode' = "play"
    /\ at' = 0 /\ loop' = l /\ carry' = {}
    /\ reel' = r
    /\ IF r = 0
       THEN UNCHANGED <<reel_pos, flyby_len, flyby_pos>>
       ELSE /\ flyby_len' = flyby_calclen
            /\ flyby_pos' = 0
            /\ reel_pos' = reel_advance(-1, r)
    /\ sn' = [sn_clear(sn) EXCEPT !.out = <<>>]
    /\ met' = FALSE
    /\ UNCHANGED recording

(* The records after position p up to the next state, or to the end.       *)
frames(p) == {i \in p + 1 .. Len(file) : IsState(file[i])}
replayed(s, from, upto) == [calls(s, SubSeq(file, from, upto)) EXCEPT !.out = <<>>]

leaf_rounded_up(pos, rpos) ==
    IF reel = 0
    THEN /\ mode' = mode /\ flyby_pos' = pos /\ reel_pos' = rpos
    ELSE /\ mode' = mode
         /\ flyby_pos' = pos + 1
         /\ reel_pos' = IF pos % ((flyby_len + reel - 1) \div reel) = 0
                        THEN reel_advance(rpos, reel) ELSE rpos

(* The end of flyby_read, with a place in the playback and in the reel:    *)
(* the place modulo the number of flyby frames to one frame of the reel.   *)
(* Division by zero ends the program.                                      *)
leaf(pos, rpos) ==
    IF reel = 0
    THEN /\ mode' = mode /\ flyby_pos' = pos /\ reel_pos' = rpos
    ELSE IF flyby_len \div reel = 0
    THEN /\ mode' = "dead" /\ UNCHANGED <<flyby_pos, reel_pos>>
    ELSE /\ mode' = mode
         /\ flyby_pos' = pos + 1
         /\ reel_pos' = IF pos % (flyby_len \div reel) = 0
                        THEN reel_advance(rpos, reel) ELSE rpos

(* One frame: everything up to the next state.                             *)
flyby_read ==
    /\ mode = "play"
    /\ \E i \in frames(at) :
        /\ \A j \in frames(at) : i <= j
        /\ at' = i
        /\ sn' = replayed(sn, at + 1, i)
        /\ carry' = IF file[i].type = "init" THEN ToSet(sn'.list) ELSE carry
        /\ leaf(flyby_pos, reel_pos)
    /\ UNCHANGED <<recording, loop, met, reel, flyby_len>>

(* The end of the file: what is left is read, and then the first frame.    *)
rewind ==
    /\ mode = "play"
    /\ frames(at) = {} /\ loop
    /\ \E i \in frames(0) :
        /\ \A j \in frames(0) : i <= j
        /\ at' = i
        /\ sn' = replayed(replayed(sn, at + 1, Len(file)), 1, i)
        /\ carry' = IF file[i].type = "init" THEN ToSet(sn'.list) ELSE carry
    /\ leaf(0, -1)
    /\ UNCHANGED <<recording, loop, met, reel, flyby_len>>

flyby_end ==
    /\ mode' = "off"
    /\ at' = 0 /\ loop' = FALSE /\ carry' = {} /\ reel' = 0
    /\ UNCHANGED <<recording, met, reel_pos, flyby_len, flyby_pos>>

(* ... or flyby_end.  The selection stays as the playback left it.         *)
end_of_file ==
    /\ mode = "play"
    /\ frames(at) = {} /\ ~loop
    /\ sn' = replayed(sn, at + 1, Len(file))
    /\ flyby_end

(* Any key.                                                                *)
gl_keyh_actflyby == mode = "play" /\ flyby_end /\ UNCHANGED sn

Next ==
    \/ \E n \in Node : gscb_node(n) \/ gscb_node_shift(n) \/ uinpcb_gotonode(n)
    \/ key_c \/ key_all
    \/ \E way \in Ways : gl_spkeyh_node(way) \/ gl_spkeyh_node_shift(way)
    \/ begin_rec \/ flyby_writeseq \/ end_rec \/ flyby_clear
    \/ \E l \in BOOLEAN, r \in Reels : begin_play(l, r)
    \/ flyby_read \/ rewind \/ end_of_file \/ gl_keyh_actflyby

Spec == Init /\ [][Next]_vars

-----------------------------------------------------------------------------
(* Properties.                                                             *)

(* The count is that of the list, no node is flagged that is not in it,    *)
(* and, until an arrow key has moved a node onto a selected one, the list  *)
(* names every flagged node once: through any order of clicks, keys and    *)
(* replayed records (selnode.c).                                           *)
SelectionWhole ==
    /\ sn.count = Len(sn.list)
    /\ sn.flag \subseteq ToSet(sn.list)
    /\ met \/ (IsInjective(sn.list) /\ sn.flag = ToSet(sn.list))

(* Every frame of a playback shows the nodes as selected that were         *)
(* selected when it was recorded.  "Playback a previously recorded         *)
(* flyby." (xt3dmon.1:252)                                                 *)
ReplayExact ==
    mode = "play" /\ at > 0 /\ file[at].type = "seq" =>
        ToSet(sn.list) = file[at].truth

(* It does so whenever nothing was left selected where its recording       *)
(* begins, by recordings before it in the file or by the last round of a   *)
(* loop, no selected node was moved by an arrow key, and none was selected *)
(* twice where the recording began (flyby.c:306, selnode.c:42).            *)
ReplaySelects == carry = {} /\ ~skewed => ReplayExact

(* Whenever a playback has shown its last frame, the reel has reached its  *)
(* last one too, in the first round and in every later one, whatever the   *)
(* numbers of frames are (flyby.c:385).                                    *)
ReelReachesEnd ==
    mode = "play" /\ at > 0 /\ frames(at) = {} /\ reel > 0 =>
        reel_pos = reel - 1

=============================================================================
