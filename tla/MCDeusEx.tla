------------------------------ MODULE MCDeusEx ------------------------------
(***************************************************************************)
(* Two nodes: one up and running the job, if there is one, and one that    *)
(* is down.  A fetch may find the job gone, and then the temperatures are  *)
(* others.  Each script lets the actions that keep something or wait for   *)
(* something follow one another.                                           *)
(***************************************************************************)
EXTENDS DeusEx, TLC

CONSTANTS n1, n2

do(d)           == Cmd(d)
with(d, m, n)   == [Cmd(d) EXCEPT !.mode = m, !.n = n]
whom(d, x)      == [Cmd(d) EXCEPT !.who = x]
these(d, m, S)  == [Cmd(d) EXCEPT !.mode = m, !.set = S]

TwoNodes == {n1, n2}

Fetches ==
    {[jobs |-> 1, class |-> n1 :> 2 @@ n2 :> 1, temp |-> n1 :> 0 @@ n2 :> 1],
     [jobs |-> 1, class |-> n1 :> 0 @@ n2 :> 1, temp |-> n1 :> 0 @@ n2 :> 1],
     [jobs |-> 0, class |-> n1 :> 0 @@ n2 :> 1, temp |-> n1 :> 1 @@ n2 :> 1]}

Reels == "two" :> 2 @@ "three" :> 3

Camera == <<do("orbit"), do("corkscrew"), do("move"), do("bird")>>
Looks  == <<do("curlyq"), whom("dmode", "temp"), whom("cyclenc", "grow"), do("camlook")>>
Space  == <<with("winsp", "on", 2), with("wioff", "set", 2), with("winsp", "off", 2),
            with("wioff", "set", 0)>>
Text   == <<do("setcap"), do("refresh"), whom("vmode", "wired"), do("exit")>>
Jobs   == <<whom("cyclenc", "cycle"), whom("seljob", "random"), whom("hl", "selnodes")>>
Choice == <<these("selnode", "on", TwoNodes), whom("selnode", "visible"),
            [whom("selnode", "selected") EXCEPT !.mode = "off"], whom("subsel", "all"),
            these("subsel", "off", {n1}), these("opt", "on", {"SUBSET"}),
            these("panel", "on", {"legend"}), [whom("pstick", "bl") EXCEPT !.set = {"legend"}],
            whom("dmode", "same"), whom("cyclenc", "cycle")>>
Film   == <<whom("playreel", "three"), whom("playreel", "two"), these("opt", "off", {"TWEEN"}),
            do("clrsn")>>
Bad    == <<do("unrecognized")>>

AllScripts == <<Camera, Looks, Space, Text, Jobs, Choice, Film, Bad>>
=============================================================================
