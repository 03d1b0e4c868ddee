----------------------------- MODULE Highlight -----------------------------
(***************************************************************************)
(* Which nodes are drawn: the fills of the node classes of the data mode   *)
(* (hl.c), and the keys, legend clicks, goto-job panel and script commands *)
(* that change their alpha.  In the job mode the classes are the statuses, *)
(* followed by the jobs of job_list in the order of the last fetch.        *)
(***************************************************************************)
EXTENDS JobList

CONSTANT NTEMPC      \* number of temperature classes

ASSUME HighlightAssumption == NTEMPC \in Nat

VARIABLES
    dmode,           \* st_dmode, DM_JOB or DM_TEMP
    status, temp,    \* f_a of statusclass[] and tempclass[]
    sel              \* the nodes of selnodes

hl    == <<dmode, status, temp, sel>>
hvars == <<vars, hl>>

\* statusclass[]; "off" stands for booting, not scheduled and I/O
Status == <<"free", "alloc", "off">>
NSC    == 3
Temp   == 0 .. NTEMPC - 1

\* class indices with a meaning of their own (nodeclass.h)
NC_ALL   == -1
NC_SELDM == -3

HTypeOK ==
    /\ TypeOK
    /\ dmode \in {"job", "temp"}
    /\ status \in [1 .. NSC -> Level] /\ temp \in [Temp -> Level]
    /\ sel \subseteq Node

HInit ==
    /\ Init
    /\ dmode = "job" /\ sel = {}
    /\ status = [s \in 1 .. NSC |-> Top] /\ temp = [t \in Temp |-> Top]

-----------------------------------------------------------------------------
(* The fill operations of fill.c.                                          *)
setxparent == [a \in Level |-> 0]
setopaque  == [a \in Level |-> Top]
togglevis  == [a \in Level |-> IF a # 0 THEN 0 ELSE Top]
alphainc   == [a \in Level |-> IF a + 1 > Top THEN Top ELSE a + 1]
alphadec   == [a \in Level |-> IF a - 1 < 0 THEN 0 ELSE a - 1]

(* The fills of all classes, as one value that a handler changes in steps. *)
fills == [job |-> alpha, status |-> status, temp |-> temp]

listed == {data[n] : n \in 1 .. cur}

nc_runall(h, f) ==
    IF dmode = "job"
    THEN [h EXCEPT !.job = [o \in Object |-> IF o \in listed THEN f[@[o]] ELSE @[o]],
                   !.status = [s \in 1 .. NSC |-> f[@[s]]]]
    ELSE [h EXCEPT !.temp = [t \in Temp |-> f[@[t]]]]

(* The classes nc_getfp() has a fill for.                                  *)
class == IF dmode = "job" THEN 0 .. NSC + cur - 1 ELSE Temp

nc_apply(h, f, nc) ==
    IF nc \notin class THEN h
    ELSE CASE dmode = "temp"            -> [h EXCEPT !.temp[nc] = f[@]]
           [] dmode = "job" /\ nc < NSC -> [h EXCEPT !.status[nc + 1] = f[@]]
           [] OTHER                     -> [h EXCEPT !.job[data[nc - NSC + 1]] = f[@]]

(* No node has a temperature (apply_node), so in that mode nothing is done. *)
nc_runsn(h, f) ==
    IF dmode = "job"
    THEN [h EXCEPT !.job = [o \in Object |->
             IF \E n \in sel : node[n].job = o THEN f[@[o]] ELSE @[o]]]
    ELSE h

become(h) == alpha' = h.job /\ status' = h.status /\ temp' = h.temp

still == UNCHANGED <<data, obj, tcur, cur, max, node, pc, was>>

-----------------------------------------------------------------------------
(* Variants with a plausible mistake; no specification below uses them.    *)

seldm_shows_first(h) == nc_runall(nc_runsn(h, setopaque), setxparent)

key_ar_during_fetch ==
    /\ become(nc_runall(fills, setopaque))
    /\ still /\ UNCHANGED <<dmode, sel>>

key_ar_selected ==
    /\ pc = "idle"
    /\ become(nc_runsn(fills, setopaque))
    /\ still /\ UNCHANGED <<dmode, sel>>

-----------------------------------------------------------------------------
(* Show the classes that selected nodes belong to, and no others.          *)
seldm(h) == nc_runsn(nc_runall(h, setxparent), setopaque)

nc_set(h, nc) ==
    CASE nc = NC_ALL   -> nc_runall(h, setopaque)
      [] nc = NC_SELDM -> seldm(h)
      [] nc \in class  -> nc_apply(nc_runall(h, setxparent), setopaque, nc)
      [] OTHER         -> h

-----------------------------------------------------------------------------
(* gl_keyh_alpha: the key a, then j, r or s.                               *)
key_aj ==
    /\ pc = "idle" /\ sel # {}
    /\ become(seldm(fills))
    /\ still /\ UNCHANGED <<dmode, sel>>

key_ar ==
    /\ pc = "idle"
    /\ become(nc_runall(fills, setopaque))
    /\ still /\ UNCHANGED <<dmode, sel>>

key_as ==
    /\ pc = "idle"
    /\ become(nc_runall(fills, setxparent))
    /\ still /\ UNCHANGED <<dmode, sel>>

(* gscb_pw_hlnc: a click on a class of the legend, with shift or without.  *)
hlnc_click(nc, shift) ==
    /\ pc = "idle" /\ nc \in class
    /\ become(nc_apply(IF shift THEN fills ELSE nc_runall(fills, setxparent),
                       togglevis, nc))
    /\ still /\ UNCHANGED <<dmode, sel>>

(* The same with the keys that brighten and dim a class, or all of them.   *)
hlnc_squire(nc, f) ==
    /\ pc = "idle"
    /\ become(IF nc = NC_ALL THEN nc_runall(fills, f) ELSE nc_apply(fills, f, nc))
    /\ still /\ UNCHANGED <<dmode, sel>>

(* The script command hl (dxp_hl).                                         *)
dxp_hl(nc) ==
    /\ pc = "idle"
    /\ become(nc_set(fills, nc))
    /\ still /\ UNCHANGED <<dmode, sel>>

(* job_findbyid finds the job at position pos, and the class of that index *)
(* is set before the data mode is.                                         *)
uinpcb_gotojob(j) ==
    \E pos \in 1 .. cur :
        /\ pc = "idle" /\ id_at(pos) = j
        /\ become(nc_set(fills, NSC + pos - 1))
        /\ dmode' = "job"
        /\ still /\ UNCHANGED sel

set_dmode(m) ==
    /\ pc = "idle" /\ dmode' = m
    /\ UNCHANGED <<vars, status, temp, sel>>

select(S) ==
    /\ pc = "idle" /\ sel' = S
    /\ UNCHANGED <<vars, dmode, status, temp>>

-----------------------------------------------------------------------------
Paint ==
    \/ key_aj \/ key_ar \/ key_as
    \/ \E nc \in class :
          \/ \E shift \in BOOLEAN : hlnc_click(nc, shift)
          \/ \E f \in {alphainc, alphadec} : hlnc_squire(nc, f)
    \/ \E f \in {alphainc, alphadec} : hlnc_squire(NC_ALL, f)
    \/ \E nc \in class \cup {NC_ALL, NC_SELDM} : dxp_hl(nc)
    \/ \E j \in Job : uinpcb_gotojob(j)

HNext ==
    \/ Fetch /\ UNCHANGED hl
    \/ Paint
    \/ \E m \in {"job", "temp"} : set_dmode(m)
    \/ \E S \in SUBSET Node : select(S)

HSpec == HInit /\ [][HNext]_hvars

-----------------------------------------------------------------------------
(* How a node is drawn in the job mode (dmode_change sets n_fillp).        *)
state_fill(n) == CHOOSE s \in 1 .. NSC : Status[s] = node[n].state
Shown(n) == IF node[n].job # NULL THEN alpha[node[n].job] # 0
            ELSE status[state_fill(n)] # 0

(* The highlighting leaves the list as the fetches need it: whatever the   *)
(* handlers do to the fills is what JobList allows between two fetches.    *)
JobListSpec == Spec

(* No job of a node is missing from the list.                              *)
AllListed == \A n \in Node : node[n].job # NULL => node[n].job \in listed

(* After the keys a j in the job mode just the nodes in jobs of selected   *)
(* nodes are drawn (nc_runall, then nc_runsn), whatever fetches and other  *)
(* highlighting came before, while all jobs of nodes are in the list.      *)
OnlySelected ==
    key_aj /\ dmode = "job" =>
        \A n \in Node : Shown(n)' <=> node[n].job # NULL
                                      /\ \E m \in sel : node[m].job = node[n].job

OnlySelectedListed == [][AllListed => OnlySelected]_hvars

(* After a r every node is drawn, wherever fetches left its job.           *)
AllShown ==
    [][key_ar /\ dmode = "job" /\ AllListed => \A n \in Node : Shown(n)']_hvars
=============================================================================
