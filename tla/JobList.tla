------------------------------ MODULE JobList ------------------------------
(***************************************************************************)
(* The list of jobs (objlist.c) and the data fetch that fills it: ds_read  *)
(* calls dsfi_node, parse_data and dsff_node.  The jobs of a report are    *)
(* applied one by one; a job already known is meant to keep its struct     *)
(* job, and with it the alpha of its fill, from one fetch to the next.     *)
(*                                                                         *)
(* ol_data is a sequence of objects; an object is named by the order of    *)
(* its malloc() and is never freed.  Positions count from 1.               *)
(***************************************************************************)
EXTENDS Integers, Sequences

CONSTANTS
    Job,     \* ids of jobs: what strtol() makes of a Job_Id, above zero
    Node,    \* the nodes of the machine
    Incr,    \* ol_incr, JINCR
    Top      \* f_a of an opaque fill; 0 is transparent

ASSUME JobListAssumption ==
    /\ Job \subseteq Nat \ {0}
    /\ Incr \in Nat \ {0} /\ Top \in Nat \ {0}

Level == 0 .. Top
Id    == Job \cup {0}       \* 0: an object no job has used yet

VARIABLES
    data,            \* ol_data, all ol_alloc of it
    obj,             \* per object: j_id, and OHF_OLD of its flags
    alpha,           \* per object: j_fill.f_a
    tcur, cur, max,  \* ol_tcur, ol_cur, ol_max
    node,            \* per node: n_state ("off" for those never allocated), n_job
    pc,              \* where parse_data is
    was              \* history: per job, its object when the last fetch ended

list == <<data, obj, alpha, tcur, cur, max>>
vars == <<list, node, pc, was>>

Object   == 1 .. Len(obj)
NULL     == 0
NodeInfo == [state : {"free", "alloc", "off"}, job : Nat]

TypeOK ==
    /\ data \in Seq(Nat) /\ Len(data) = Len(obj) /\ Len(alpha) = Len(obj)
    /\ obj \in Seq([id : Id, old : BOOLEAN])
    /\ alpha \in Seq(Level)
    /\ tcur \in Nat /\ cur \in Nat /\ max \in Nat
    /\ cur <= max /\ max <= Len(data) /\ tcur <= Len(data)
    /\ node \in [Node -> NodeInfo]
    /\ pc \in {"idle", "nodes", "jobs"}
    /\ was \in [Job -> Nat]

Init ==
    /\ data = <<>> /\ obj = <<>> /\ alpha = <<>>
    /\ tcur = 0 /\ cur = 0 /\ max = 0
    /\ node = [n \in Node |-> [state |-> "free", job |-> NULL]]
    /\ pc = "idle"
    /\ was = [j \in Job |-> NULL]

-----------------------------------------------------------------------------
(* Variants with a plausible mistake; no specification below uses them.    *)

larger(m, n) == IF m > n THEN m ELSE n

flags_never_cleared(t) ==
    [o \in Object |->
        [obj[o] EXCEPT !.old = @ \/ \E n \in 1 .. t : data[n] = o]]

flags_one_short(t) ==
    [o \in Object |->
        [obj[o] EXCEPT !.old =
            IF \E n \in 1 .. t - 1 : data[n] = o THEN TRUE
            ELSE IF \E n \in t + 1 .. larger(max, t) : data[n] = o THEN FALSE
            ELSE @]]

swapped_half(n) == [data EXCEPT ![tcur + 1] = data[n]]

swapped_not(n) == data

-----------------------------------------------------------------------------
id_at(n) == obj[data[n]].id

(* The flags after obj_batch_end: set up to ol_cur, cleared up to ol_max.  *)
flags(t) ==
    [o \in Object |->
        [obj[o] EXCEPT !.old =
            IF \E n \in 1 .. t : data[n] = o THEN TRUE
            ELSE IF \E n \in t + 1 .. larger(max, t) : data[n] = o THEN FALSE
            ELSE @]]

obj_batch_end(t) ==
    /\ max' = larger(max, t) /\ cur' = t /\ tcur' = t
    /\ obj' = flags(t)
    /\ was' = [j \in Job |->
                  IF \E n \in 1 .. t : id_at(n) = j
                  THEN data[CHOOSE n \in 1 .. t : id_at(n) = j] ELSE NULL]

(* What the list becomes when obj_get() finds the id at position n beyond  *)
(* ol_tcur: the objects at n and at ol_tcur change places.                 *)
swapped(n) == [data EXCEPT ![n] = data[tcur + 1], ![tcur + 1] = data[n]]

(* obj_get() grows the list when it is full.                               *)
full        == tcur >= Len(data)
grown       == IF full THEN data \o [i \in 1 .. Incr |-> Len(data) + i] ELSE data
grown_obj   == IF full THEN obj \o [i \in 1 .. Incr |-> [id |-> 0, old |-> FALSE]]
               ELSE obj
grown_alpha == IF full THEN alpha \o [i \in 1 .. Incr |-> 0] ELSE alpha

(* The nodes of a job's nodeset that are free become allocated to it.      *)
allocate(N, o) ==
    node' = [n \in Node |->
                IF n \in N /\ node[n].state = "free"
                THEN [state |-> "alloc", job |-> o] ELSE node[n]]

-----------------------------------------------------------------------------
(* Variants with a plausible mistake; no specification below uses them.    *)

apply_job_new_looks_no_further(j, N) ==
    /\ pc = "jobs" /\ \A n \in 1 .. tcur : id_at(n) # j
    /\ data' = grown /\ alpha' = grown_alpha
    /\ tcur' = tcur + 1
    /\ obj' = [grown_obj EXCEPT ![grown[tcur + 1]].id = j]
    /\ allocate(N, grown[tcur + 1])
    /\ UNCHANGED <<cur, max, pc, was>>

apply_job_new_no_advance(j, N) ==
    /\ pc = "jobs" /\ \A n \in 1 .. larger(tcur, max) : id_at(n) # j
    /\ data' = grown /\ alpha' = grown_alpha
    /\ obj' = [grown_obj EXCEPT ![grown[tcur + 1]].id = j]
    /\ allocate(N, grown[tcur + 1])
    /\ UNCHANGED <<tcur, cur, max, pc, was>>

-----------------------------------------------------------------------------
(* The fetch.  A report that is not of the form data = {...} stops the     *)
(* parser before it has touched a node; the batch is ended all the same.   *)
fetch_malformed ==
    /\ pc = "idle"
    /\ obj_batch_end(0)
    /\ UNCHANGED <<data, alpha, node, pc>>

(* dsfi_node, and every node reset.                                        *)
parse_begin ==
    /\ pc = "idle"
    /\ tcur' = 0
    /\ node' = [n \in Node |-> [state |-> "off", job |-> NULL]]
    /\ pc' = "nodes"
    /\ UNCHANGED <<data, obj, alpha, cur, max, was>>

(* apply_node for every node of the report; F are the configured ones.     *)
apply_nodes(F) ==
    /\ pc = "nodes"
    /\ node' = [n \in Node |-> [node[n] EXCEPT !.state = IF n \in F THEN "free" ELSE "off"]]
    /\ pc' = "jobs"
    /\ UNCHANGED <<list, was>>

(* apply_job: obj_get() finds the id among the jobs of this fetch ...      *)
apply_job_again(j, N) ==
    \E n \in 1 .. tcur :
        /\ pc = "jobs" /\ id_at(n) = j
        /\ allocate(N, data[n])
        /\ UNCHANGED <<list, pc, was>>

(* ... or among the objects of earlier ones ...                            *)
apply_job_known(j, N) ==
    \E n \in tcur + 1 .. max :
        /\ pc = "jobs" /\ id_at(n) = j
        /\ data' = swapped(n) /\ tcur' = tcur + 1
        /\ allocate(N, data[n])
        /\ UNCHANGED <<obj, alpha, cur, max, pc, was>>

(* ... or nowhere: the object at ol_tcur becomes this job's, whichever job *)
(* it belonged to and with the flags and the alpha it has.                 *)
apply_job_new(j, N) ==
    /\ pc = "jobs"
    /\ \A n \in 1 .. larger(tcur, max) : id_at(n) # j
    /\ data' = grown /\ alpha' = grown_alpha
    /\ tcur' = tcur + 1
    /\ obj' = [grown_obj EXCEPT ![grown[tcur + 1]].id = j]
    /\ allocate(N, grown[tcur + 1])
    /\ UNCHANGED <<cur, max, pc, was>>

(* The end of parse_data, which a malformed part of the report also leads  *)
(* to: col_get_hash shows every job that is not old; then dsff_node.       *)
parse_out ==
    /\ pc \in {"nodes", "jobs"}
    /\ alpha' = [o \in Object |->
                    IF ~obj[o].old /\ \E n \in 1 .. tcur : data[n] = o THEN Top
                    ELSE alpha[o]]
    /\ obj_batch_end(tcur)
    /\ pc' = "idle"
    /\ UNCHANGED <<data, node>>

(* Between fetches the user changes the alpha of jobs (Highlight).         *)
paint ==
    /\ pc = "idle"
    /\ alpha' \in [Object -> Level]
    /\ UNCHANGED <<data, obj, tcur, cur, max, node, pc, was>>

Fetch ==
    \/ fetch_malformed \/ parse_begin \/ parse_out
    \/ \E N \in SUBSET Node : apply_nodes(N)
    \/ \E j \in Job, N \in SUBSET Node :
          apply_job_again(j, N) \/ apply_job_known(j, N) \/ apply_job_new(j, N)

Next == Fetch \/ paint

Spec == Init /\ [][Next]_vars

-----------------------------------------------------------------------------
(* Every object is in the list at one position, and no two objects are of  *)
(* the same job: the swap and the growth in obj_get lose and double none.  *)
OneObjectPerJob ==
    /\ \A m, n \in 1 .. Len(data) : data[m] = data[n] => m = n
    /\ \A m, n \in 1 .. Len(data) : id_at(m) = id_at(n) /\ id_at(m) # 0 => m = n

(* As long as a fetch has met no job that is new to the list, every job it *)
(* has met has the object, and so the alpha, it had before (obj_get).      *)
KnownKept ==
    pc = "jobs" /\ (\A n \in 1 .. tcur : was[id_at(n)] # NULL)
        => \A n \in 1 .. tcur : data[n] = was[id_at(n)]

(* A job that was not in the list the last fetch left is shown by the next *)
(* fetch that lists it in an object of its own, however it was hidden      *)
(* before (OHF_OLD in obj_batch_end and col_get_hash).                     *)
NewShown ==
    [][pc # "idle" /\ pc' = "idle" =>
          \A n \in 1 .. cur' :
             (\A j \in Job : was[j] # data'[n]) => alpha'[data'[n]] = Top]_vars

(* A job that is in one report after the other stays hidden, as long as    *)
(* the later report has no job that is new to the list (OHF_OLD again).    *)
HidingSurvives ==
    [][pc = "jobs" /\ pc' = "idle" /\ (\A n \in 1 .. tcur : was[id_at(n)] # NULL) =>
          \A n \in 1 .. tcur : alpha'[data[n]] = alpha[data[n]]]_vars

(* The job a node points at does not turn into another one under it: no    *)
(* object is given to another job while a node uses it (parse_data resets  *)
(* the nodes before obj_get recycles an object).                           *)
NodeKeepsJob ==
    [][\A n \in Node :
          node[n].job # NULL /\ node'[n].job = node[n].job
             => obj'[node[n].job].id = obj[node[n].job].id]_vars

(* A node has a job just when it is allocated, and its job is in the list  *)
(* (except after a malformed report, which empties the list and keeps the  *)
(* nodes): what draws or hides the jobs of the list reaches every node.    *)
NodeJobListed ==
    \A n \in Node :
        /\ node[n].state = "alloc" <=> node[n].job # NULL
        /\ node[n].job # NULL => tcur = 0 \/ \E i \in 1 .. tcur : data[i] = node[n].job
=============================================================================
