# xt3dmon in TLA+

xt3dmon draws the nodes and jobs of a Cray XT3 in OpenGL. It fetches reports
about the machine, keeps what they say in global tables, shows it through GLUT
callbacks, plays recorded camera flights, and can run as a server that renders
pictures for remote clients. This directory holds TLA+ modules translated from
its source, TLC configurations that check them on small instances, and TLAPS
proofs of theorems for every value of their constants.

Run `tlc -config X.cfg M` for a run of the table below (M is the MC module of
the same row) and `tlapm M.tla` for a proof module.

## Inventory

The interactive program has one thread. GLUT calls back for keys, mouse,
timers and drawing; each callback runs to completion, so what is hard is not
preemption but **order**: every callback finds the globals as any earlier ones
left them, timers cannot be cancelled, handlers are replaced by other handlers,
and pointers to list members are kept in other structures. The server adds
real threads.

| Component | State | Operations | Interacts with | What is hard | What makes it correct |
|---|---|---|---|---|---|
| Panels and text input (`panel.c`, `uinp.c`, `key.c`) | list `panels`, `POPT_REMOVE`, `uinp`, the GLUT keyboard handler, `authbuf`, `login_auth` | show, hide, toggle, set; typing, Enter, Escape; two-key commands | flybys, scripts, selection and mouse toggle panels | removal is animated, so a panel goes long after the decision; five parties install keyboard handlers | handler, focus and text agree; no text or password reaches another prompt |
| Server sessions (`server.c`, `server.sh`, `client-snap.c`) | `readq`, `renderq`, locks, conditions; one `client_session` per connection | accept, read and parse, enqueue, clone, draw, answer, close | session clones, the whole renderer | threads, spurious wakeups, cut requests, clients that hang or vanish, exits and restarts | one owner per session, no lost wakeup, whole answers, every connection closed |
| Session clones (`dsc_` in `ds.c`) | directories under the sessions path | exists, create, clone, open, load | server | a crash between two steps; a test that is too weak after it | a session never changes its data; pictures show whole data |
| Jobs of a fetch (`objlist.c`, `job.c`, `parse.c`) | `job_list` (`ol_data`, `ol_cur`, `ol_tcur`, `ol_max`, flags), `n_job` of every node | `obj_get`, batch start and end, apply nodes and jobs | highlighting and the legend hold positions and pointers | objects are swapped, recycled and grown in place; a fetch may stop half-way | one object per job; jobs keep theirs and their alpha; new jobs are shown |
| Highlighting (`hl.c`, `fill.c`) | `f_a` of jobs and classes, `st_dmode` | `nc_set`, `nc_runall`, `nc_runsn`, `nc_apply` from keys, clicks, panels, scripts | job list, selection, data mode | two passes over shared fills; class numbers that shift with every fetch | exactly the classes asked for are drawn |
| Flybys and idle timers (`flyby.c`, `callout.c`) | `flyby_mode`, the file, `flyby_nautoto`, `sav_st`, options | begin, end, loop, clear, choose, pause, `flyby_rstautoto`, `cocb_autoto` | panels, keys, options, selection | timers that outlive the reason they were armed for; a file that changes under a recording | playback starts only when idle, can always be left, gives the options back |
| Rebuild flags and main loop (`main.c`, `gl.c`) | `st_rf`, `rebuild_wirep`, stereo | `rf_deps`, `rebuild`, display and idle functions | everything sets flags | flags set during a rebuild, deferred rebuilds, two flags on one bit | nothing drawn is older than the state it shows |
| Selection (`selnode.c`, `selnid.c`) | `selnodes`, `NF_SELNODE` | add, delete, toggle, set, replace | flybys record it, panels show it, highlighting uses it | replay by toggling | list and flags agree; a replay selects what was recorded |
| Deus Ex scripts (`deusex.c`, `dx-parse.y`) | queue of actions, timers, cycle indices | one operation per command | every other component | actions that span many frames over data that is fetched meanwhile | every action ends; the script goes on |
| Data sources (`ds.c`, `ustream*`, `http.c`) | `ds_mtime`, flags, streams | open, refresh, read | parser, session clones | stale modification times, failures half-way | a changed report is read |
| Reel (`reel.c`) | list of archived data sets, position | load, start, advance | flybys, data sources | list reloaded while advancing | every frame is shown, in order |
| Status log (`status.c`) | queue of messages with timers | add, pop | panels | timers against new entries | a message stays its time; the panel goes with the last |
| Tweening, camera (`tween.c`, `cam.c`) | destination and position | set destination, step | keys, flybys, options | two switches for one motion | the camera arrives |
| Node geometry (`node.c`, `math.c`, `vec.c`) | `node_nidmap`, positions | neighbours, ids to positions | selection, route drawing | ids at the limits of the map | neighbours are symmetric |
| Report and machine parsers (`parse.c`, `mach-parse.y`) | machine tables | parse | job list, nodes | malformed input | stops without leaving half a table |
| Picking, mouse (`mouse.c`, `select.c`) | dragged panel, hits | pick, drag, click | panels, highlighting | a panel freed while dragged | a click reaches what was drawn |
| Drawing (`draw.c`, `prefresh.c`, `widget.c`, `text.c`, `shadow.c`, ...) | display lists | draw | everything | marks left in shared objects | |
| Snapshots (`capture.c`, `png.c`) | frame queue | write pictures | server | | |
| Containers (`buf.c`, `dynarray.c`, `util.c`, `env.c`) | growable arrays | get, append, resize | everything | sizes at zero and at the limit | what was put in is what comes out |
| Portability, tools, eggs | | | | | |

`PROJECT.json` lists the hazards with their lines, the properties that cover
them and, where none does yet, why.

## Modules

| Module | Models | MC module | Proofs |
|---|---|---|---|
| `PanelInput` | panels, text input, what flybys, scripts and the selection do to them | `MCPanelInput` | `PanelInputProofs` |
| `ServerSessions` | server mode with its threads, queues and session clones | `MCServerSessions` | `ServerSessionsProofs` |
| `JobList` | the job list across fetches; the **abstract** specification for what may happen to it between them (`paint`) | `MCJobList` | in `HighlightProofs` |
| `Highlight` | extends `JobList` by the fills, the data mode and the selection; implements `JobList` (`JobListSpec`) | `MCHighlight` | `HighlightProofs` |
| `AutoFlyby` | recording, playing and the idle timers | `MCAutoFlyby` | `AutoFlybyProofs` |
| `FlybyReplay` | the selection, what recordings keep of it and playbacks make of it; the reel in a playback | `MCFlybyReplay` | `FlybyReplayProofs` |
| `PanelContent` | when each panel is composed again and drawn | `MCPanelContent` | `PanelContentProofs` |
| `Scene` | the **abstract** promise of the frames: what is wrong is owed, and a frame pays | (as a property of `MCRebuild`) | |
| `Rebuild` | the rebuild flags and everything a frame keeps from the one before; implements `Scene` (`KeepsPromise`) | `MCRebuild` | `RebuildProofs` |
| `DeusEx` | scripts: the list of actions, what they keep between frames, their timer, their reel | `MCDeusEx` | `DeusExProofs` |

`AutoFlyby`, `FlybyReplay` and `PanelInput` are three views of `flyby.c`: when a
playback begins and ends, what it does to the selection, what it does to panels
and keys. Each keeps the part of the others it needs as a choice (in
`FlybyReplay`, for instance, a playback may begin whenever there is a file).
`Highlight` composes with `JobList` by extension, and `Rebuild` with `Scene` by
an instance with a refinement mapping.

Every module has the program's state as variables under the program's names
and one action per callback, thread step or critical section. Operators with
names such as `panel_add_keeps_text` stand in a section of variants: each is a
plausible mistake that breaks one property, kept to show that the property can
fail; no specification uses them.

### PanelInput
The handlers call each other on shared globals (`panel_toggle` calls
`panel_tremove`, which releases the input that Enter has already given back,
...), so those globals are one record `ui` and each C function is an operator
from record to record; an action composes them in the order of the code.
`popt` is the membership in the list together with `POPT_REMOVE`, `kbd` the
handler installed with `glutKeyboardFunc`, `focus` is `uinp.uinp_panel`, `buf`
the length of `uinp_buf`, `atpass` the flag `POPT_LOGIN_ATPASS`. `panel_free`
is the end of the removal animation; it may come any time later. Flybys are
present as far as they touch panels and handlers; the script command `panel`
names the panels in `Scripted`.

### ServerSessions
A session is the connection it was made for. A request is counted in halves of
lines, since `read` returns any part of the stream and each part is parsed on
its own; a client may send lines without end, so of what it sent only the part not
read yet is kept (`unread`), and whether the last line is finished (`half`).
`stalled` is a client that does not read what it is sent: the GLUT thread then
waits in `write` until the client goes away. `reader_block` is the `read` that
blocks although `select` promised something. `reader` and `render` hold the place of a thread and the session
pointer it has in hand; a critical section is one step. `killed` and the error
paths that end in `err()` or in a NULL pointer are one operator, `exit`;
`restart` is `server.sh`. `disk` is what a session's clone directory holds:
nothing, the directory, a copy under way (`part`) or one that has ended: whole,
`short` where `read` returned 0 before the end of the data (the copy takes that as the
end and does not use `us_read`), or `left` where the server died in it. It survives
restarts. What a session sets before its picture (modes, options, the view) is left out.

### JobList and Highlight
Objects are identified by the order of their allocation; `data` is `ol_data`,
`obj` and `alpha` the contents of objects. A fetch is a sequence of steps (`parse_begin`,
`apply_nodes`, one `apply_job_*` for each job of the report, `parse_out`), so
`obj_get` is seen at every stage; `fetch_malformed` is a report that fails at
its start, and a `parse_out` before all jobs are applied one that fails later.
`was` remembers, for the properties only, which object each job had after the
last fetch. `Highlight` adds the status and temperature classes, the data mode
and the selection; its operators `nc_runall`, `nc_apply`, `nc_runsn`, `nc_set`
work on the fills as one value, and the handlers compose them as the code does.
The three statuses it keeps stand for the five of the code.

### AutoFlyby
All idle timers run equally long, so the last to expire belongs to the last
input; `pending` counts them and no clock is needed. `nautoto` is the
program's own count, which may differ; `left` remembers, for the properties only, the timers that
were armed when the option was last turned on. A file is the number of its frames, zero
for one that `uinpcb_fbnew` has just made; `recorded` remembers that something was
recorded in it;
`apart` says a recording goes to a file whose name has been unlinked or
replaced by the chooser. `was` remembers the options at the start of a
playback, for the properties only. Scripts, which can change options too, are
in `DeusEx`.

### FlybyReplay
The code keeps the selection three times: `sn` has the list, the flags and the
count, and `sn.out` the records that the calls of one handler write. A record
holds a node and not whether it is selected, as in the code; records of the
state carry, for the properties only, what was selected when they were written.
`skewed` and `met` remember that an arrow key moved a selected node (or that a
recording began with a node listed twice), and that it met another one; `carry` is what was selected where the recording being
played begins. The file is a sequence of records, since recordings are
appended to it. What a handler does is a sequence of calls (`calls`), and so is what
a playback reads, since each record is a call of `sn_toggle`. `leaf` is the arithmetic of `flyby_read` that spreads the frames
of a reel over those of the flyby.

### PanelContent
Every panel of `pinfo[]` is here with what it reads (`Reads`), the test its
refresh function makes, and the marks it clears. A panel's text is the function
from what it read to the values it found; its display list is the text it was
made from. `Watched` are the things for which the code has a mark at all (all of
`Reads` but the pairs `Unseen`). An action is an input that changes what panels
read, with exactly the marks its code sets; `frame` refreshes and draws the panels
in list order. `flyby_end` restores what `load_state` restores and drops the pending
bits as it does; `lost` records, for `Fresh` alone, that a pending `RF_DMODE` was
among them.

### Rebuild and Scene
`stale` is the set of kept things (fills, node places, clip distance, wired
repetitions, focus, six display lists) whose inputs changed since they were
made. For each, an operator `*_reads` lists what its code looks at; making a
stale thing makes its readers stale. A bit of `st_rf` never appears in the
definition of staleness: what the code sets and what is in fact wrong are
computed apart, and the properties compare them. `frame` is the display function
with `rebuild` in the order of its code, for one eye or two, with the deferred
`rebuild_wirep`; `far` counts the frames that nodes glide.

`Scene` says what a user may expect and nothing of bits: something may be wrong
in the picture only when a coming frame will make it (`wrong \subseteq owed`), an
operation may not forget a debt, and a frame pays all but what glides. The
mapping is `shown <- Shown(w)`, the things the present mode shows;
`wrong <- Wrong(w)`, those of them that are stale (less the places of nodes
while the user holds them with `OP_STOP`); `owed <- Owed(w)`, those that the
closure of the bits, the deferred wired rebuild or a glide under way
will make. The frame is `Draw`, an operation `Change`.

### DeusEx
The list of actions is what the parser builds from a script's directives: the
directive, the one that waits for its effect, and the second of rest it inserts;
`parsed` names the script that the list was built from. Each action is an
operator that says what it does in this frame and whether it is done; `frame`
runs the current one as `dx_update` does. The statics of the actions outlive
scripts and so are part of the state, each with its owner (`by`, for the
properties only). `dx_set`, `key_x`, `key_space` and `key_R` end, start and
replace scripts at any time; `timer` is the GLUT timer, which cannot be
cancelled. Nodes and camera take up to `Frames` frames; a fetch may find other
jobs and temperatures. The random draw that finds no node is a state of its own
(`spin`), as is the end of the program. For the properties only, `torn` says that a script
was ever ended in the middle of an action, and `kept` which captions `refresh` was keeping
then. The drain caption of `rebuild()` never shows: `mach_drain` (`main.c:62`) is zero and
nothing sets it.

## Runs

| Run | Kind | Instance | Distinct states | Shows |
|---|---|---|---|---|
| `MCPanelInput` | pass | 6 panels, one character of text | 150 174 | `FocusShown`, `LoginAuthWhole`, `TextNeverMoves` |
| `MCServerSessions` | pass | 2 connections of one session, 2 readers, 2 half lines unread, 1 restart | 263 394 | `OneOwner`, `NoLostWakeup`, `AnswerWhole`, `PictureOfClone`, `SessionFrozen` |
| `MCServerSessionsLive` | pass | the same, no restart | 405 456 | `Closes`, `Answered` |
| `MCJobList` | pass | 3 jobs, 2 nodes, list grows by 2 | 309 882 | `KnownKept`, `OneObjectPerJob`, `NodeJobListed`, `NewShown`, `HidingSurvives`, `NodeKeepsJob` |
| `MCHighlight` | pass | 2 jobs, 2 nodes, list grows by 1, 1 temperature class | 379 776 | `JobListSpec`, `OnlySelectedListed`, `AllShown` |
| `MCAutoFlyby` | pass | 2 timers, the option turned off and on, files of 0 to 2 frames | 807 794 | `RecordedPlays`, `NeverEarly`, `PlayRestores`, `CommencesCounted` |
| `MCAutoFlybyLost` | violation | 3 timers, the option stays on | | a timer that expires during a recording stays counted (`Commences`) |
| `MCFlybyReplay` | pass | 2 nodes, of which a fetch may leave one out, files of up to 6 records, selections of up to 2 entries, no reel or one of 2 or 3 frames | 2 345 184 | `SelectionWhole`, `ReplaySelects`, `ReelReachesEnd` |
| `MCPanelContent` | pass | 19 groups of panels, 2 changes between two frames | 1 064 494 | `Fresh`, `DisplayListCurrent`, `TypedShownAlone` |
| `MCRebuild` | pass | 16 operations that ask for what they make wrong, glides of 2 frames | 53 472 | `KeepsPromise` (implements `Scene`), `EventuallySettled` |
| `MCRebuildAll` | pass | 21 operations, those that forget a flag among them, glides of 1 frame | 135 616 | `FetchHeals` |
| `MCDeusEx` | pass | 8 scripts, 2 nodes, 3 reports, reels of 2 and 3 frames, 4 keys | 1 072 812 | `TimerAccounted`, `NoDangling`, `OwnProgress`, `AdjustExact`, `CycleShowsEach`, `ReelWhole`, `Advances` |

Each property has a mutant of the code in `PROJECT.json` that violates it in its
run. The properties that the proofs cover in full (type invariants,
`HandlerHasPanel`, `NoOrphanText`, `HasSession`, `RenderAwake`) are stated in the
modules and proved; no run repeats them.

### Bounds, and why they are enough
- Panels: one text panel for every kind of end that Enter has (removed at once,
  lingering, two prompts), one that flybys can replay, and the panels whose
  widgets start other actions. Panels without text differ only in their names.
  `MaxBuf = 1`: the code asks only whether the buffer is empty.
- Server: two readers and two connections reach every race for a queue, a
  third reader would sleep or look as one of the two; both requests carry the
  same session, the only case in which they meet on the disk (a request without a
  session id takes the path of a directory left without data by a crash). Two halves
  unread are one line: cut, whole or missing; how many lines a client sends in all is not
  bounded. One restart shows what an earlier life
  left behind. The queues are as long as there are connections.
- Jobs: three jobs and a growth of two give swaps over a distance, a list that
  is full in the middle of a fetch and objects left over behind `ol_cur`.
  The list is bounded by itself: it grows only for jobs it does not know.
- `Top`, the opaque alpha, is 1 level above transparent in the runs; dimming in
  steps only adds levels that all count as visible.
- Timers: two at once are one of before and one of after the option was turned off,
  or a playback was broken off; `MCAutoFlybyLost` has a third. A frame more in a file changes
  nothing but its length.
- `FlybyReplay`: two nodes are the fewest that can be selected apart, and met
  by an arrow key. A report may leave one of them out, after which the other is the
  neighbour of both and a node can be listed twice; `MaxSel = 2` entries then
  suffice. Six records hold two recordings with frames between
  changes, so that the second begins with what the first left. Reels of two and
  three frames with flybys of up to six make steps of the reel shorter, equal and longer
  than those of the flyby.
- `PanelContent`: panels interact only through marks they share, so a group
  holds two panels with a mark or a source in common, and every panel is in
  one. Two changes between frames let the second undo or repeat the first; a mode
  chosen and a playback begun and broken off are three, and `lost`
  is met in `{fbstat, legend}` because the modes may change while a playback runs, too.
- `Rebuild`: every operation, but one between two frames. Bits and stale things
  add up, and the debts of earlier operations are met by later ones all the
  same, since a glide and a deferred wired repetition last over frames. Two
  operations in one gap are beyond these instances. `MCRebuildAll` leaves
  out `show_pipes`, which `MCRebuild` has.
- `DeusEx`: each script lets actions that keep something follow each other;
  four keys end, exchange and start scripts twice. An archive of three frames and one of two
  are played in turn, one script sets an offset to zero, one ends in a cycle without end. `FPS`,
  `Tenth` and `Frames` are the smallest that differ from one. `MaxClass` stops the counter of such a
  cycle at a number past every table, where one more changes nothing.

### Fairness, and why the code justifies it
- `ServerSessions!FairSpec`: weak fairness for the listener's enqueue, for each
  reader's step and for the GLUT thread's. These are threads that can run (or a
  `select` whose three seconds pass), and the scheduler runs them. A `write` to a
  client that does not read cannot run, and neither can a `read` that blocks: fairness says
  nothing of them. Nothing is
  assumed of clients, of spurious wakeups, or of the GLUT thread's timed wait,
  whose deadline is computed in the wrong unit. So `Closes` and `Answered` name what keeps
  the promise from being kept: the GLUT thread stuck for ever in a write (nobody else is
  answered), a reader blocked for ever in a read, and clients that send a line within
  every three seconds for ever, each of which keeps its reader.
- `AutoFlyby!FairSpec`: weak fairness for drawing and for the expiry of
  timers, which the GLUT main loop does for ever. Nothing is assumed of the
  user: `Commences` speaks of one who has gone.
- `Rebuild!Spec`: weak fairness for the frame, which the idle function posts
  again and again. `EventuallySettled` speaks of a user who leaves the picture alone.
- `DeusEx!Spec`: weak fairness for the frame and for the expiry of the timer,
  both the GLUT main loop's. Nothing is assumed of keys or of what a fetch finds.

The other specifications state no fairness and no liveness.

Deadlock is not checked where the program may really stop: a server that has
exited for good with all clients done, and a program with no timer armed that
waits for a user (whose inputs are bounded). It is checked in the other runs.

## Disagreements found
One run ends in a counterexample that follows the code against what a comment
says; `PROJECT.json` quotes the lines.

- The auto-flyby may never begin again after a recording (`callout.c:50` against
  `flyby.c:442-446`): run `MCAutoFlybyLost`.

The others were met while modelling. The models do what the code does, and the
properties are stated so as to say how far the promise holds; each place is
named here for who changes the code.

The server:
- A client that does not read its picture stops the server for everybody: the only
  GLUT thread waits in `write` (`server.c:482`, `capture.c:125-147`). A client that keeps sending lines
  keeps its reader (`server.c:521-541`), and `read` may block after `select` (`server.c:530-533`).
- A copy ends when `read` returns 0 on the descriptor below the stream (`ds.c:491-498`):
  what the stream has buffered or would uncompress is bypassed. The session then shows short
  data for ever, as it does the part that a death of the server left; `PictureOfClone`
  says that there is no third way.
- A client that resets its connection ends the server for all (`server.c:482`, `535`).

Panels and highlighting:
- A key does not always break out of a playback (`xt3dmon.1:259`): a text
  panel that the flyby itself opens takes the keyboard (`flyby.c:306`,
  `panel.c:852`). `BreaksWithoutText` proves that this is the only way.
- `panels_set` counts panels on their way out as shown (`panel.c:940`), so a
  state record may leave fewer panels than it names.
- The goto-job panel changes the class before the data mode (`uinp.c:134`), so
  outside the job mode it does not show only its job (`xt3dmon.1:354`).
- All text panels share the mark "something was typed", and each of them clears it
  (`prefresh.c:139-143`), so of several open ones a panel may not show what was
  typed; hence `TypedShownAlone`.

Flybys:
- Turning the auto-flyby off and on again does not forget its timers
  (`main.c:250-253`), so an old one starts the playback early; `NeverEarly` allows
  as many timers still to run as were armed when the option was last turned on, none if it
  stayed on.
- A looping playback of an empty file never returns (`flyby.c:267-273`), so that no key breaks
  out of it (`xt3dmon.1:259`), and the "new flyby" box makes such a file (`uinp.c:237-240`).
  `RecordedPlays` says that this happens to no file anything was recorded in.
- Selections are replayed by toggling. A second recording in the file, and the
  second round of a loop, begin with what the one before left selected, and
  an arrow key records the new node twice and the old one never
  (`selnode.c:42-48`); hence the conditions of `ReplaySelects`. When an arrow key moves a
  node onto a selected one, the list names it twice, and after a removal list
  and flag disagree.
- A reel longer than its flyby makes the place of its frames a division by zero
  (`flyby.c:388`).
- The first frame of the reel is not fetched in the first round of a playback:
  `flyby_read` clears `RF_DATASRC` and then advances.

Rebuild flags that are forgotten, and healed by the next fetch (`FetchHeals`):
- `set_dmode` in the node-neighbour mode does not ask for `RF_VMODE`;
  the route keys (`key.c:651`, `select.c:625`) not for `RF_SELNODE`; the subset option
  (`main.c:247`) only for `RF_CLUSTER`; turning the node animation off in the wired mode
  copies places that are themselves out of date.
- `load_state` does not compare the route, the neighbour mode and the pipe
  dimensions, and drops the bits that were pending (`main.c:318`). A data mode chosen
  in the same gap between frames in which a playback ends is then not told to the
  legend and the node panel, which show the old one (`Untold` in `Fresh`).

Scripts:
- `refresh` without a caption on the screen never ends, and neither does
  `cyclenc` over the mode `same`; `seljob random` draws for ever when no node has
  a job (`deusex.c:568`). `stall 0.5` rests for 0 ms (`deusex.c:722`). `winsp` and
  `wioff` cannot set 0, which is their end mark (`deusex.c:737`), although they "set to the given
  value" (`xt3dmon.1:885-886`, `897-898`): `AdjustExact` says that zero leaves the value as it was.
- A script ended in the middle of `cyclenc`, `orbit` or `refresh` leaves its
  statics to the next (`torn` in the properties); the caption that `refresh` was keeping then
  may be in a list that is freed when the next `refresh` shows it (`deusex.c:439-448`). `NoDangling`
  excepts those captions (`kept`) and no others. An adjustment that is ended halfway is finished by the
  next one, with its own numbers (`own`).
- A second archive may end early: the end of a reel is told by a position that
  did not move, and it is kept from the archive before (`deusex.c:387`, `415`,
  against `xt3dmon.1:731-735`); hence the condition of `ReelWhole`.

## What is proved
For every set of panels, connections, readers, sessions, jobs, nodes and classes
and every bound, under the assumptions each module names:

- **PanelInput**, `InputSafe`, `LoginsWhole`, `TextStays`, `BreaksWithoutText`. The argument follows
  the call graph. `UOk` is what each C function keeps of the record (types, the panel
  with the input is shown, the text handler has a panel), `UText` what every
  callback restores by its end, and `Keeps(u, v)` puts both between the record
  before and after; one lemma per function proves it and they compose by
  transitivity. The strengthening is `AtPassword(ui) => authbuf = "user"`:
  without it nothing says that the name joined with a password is of the same
  login. `BreaksWithoutText` assumes that no flyby or script names a text panel,
  and shows that this is the only way in which a key fails to break out of a playback.
- **ServerSessions**, `SessionsSafe`, `NobodySleepsOnWork`, `PicturesOfClones`,
  `AnswersWhole`, `CloneStays`. `OneOwner`
  is not inductive alone: whether an enqueue keeps it depends on `HasSession`
  (a thread at its queue holds nothing), and `NoLostWakeup` counts readers about
  to look against requests in the queue, which needs that the queue holds each
  session once. For the disk: the GLUT thread past the copy holds a session whose copy has
  ended, one that the server's death left only when the server has died, a copy is under way
  only for the session it holds, and no other step writes the disk. For the answers: what has
  been read is a whole number of lines at a reader, nothing before one, and everything after;
  `OneOwner` keeps a reader's chunk from touching any other session.
- **JobList**, `JobListSafe`, `KnownJobsStay`, `NodesHaveJobs`, `NewJobsShown`,
  `HiddenStays`, `NodesKeepJobs`.
  The invariant says that `data` is a permutation of the objects, that positions
  up to `max` have ids and positions beyond have none, and what `was` and the old
  flags say of each other at every stage of a fetch: an object is flagged old
  just when the last fetch left it in the list.
- **Highlight**, `HighlightImplements`: `HSpec => JobListSpec`, step by step: a
  fetch is a fetch, each painting operation is `paint`, and the rest stutters. So
  all theorems of `JobList` hold of `HSpec`. `HighlightTypes` needs that the class
  indices stay within the list. `JustSelectedShown` and `EverythingShown` need of
  the invariant that positions of the list name objects.
- **AutoFlyby**, `AutoTypes`, `OptionsRestored`, `QuietFirst`, `RecordingsPlay`. For the
  options: during a playback the saved options are the ones of its beginning.
  For `QuietFirst`: the program's count is at least the number of armed timers less those that
  were armed when the option was last turned on, so when it comes to zero no more than those
  run. For `RecordingsPlay`: a recording writes its first record before anything can play it, and a
  recording whose file is cleared or exchanged goes on in one that no playback opens.
- **Rebuild**, `TypesHold`, `FetchingHeals`, `Refinement`. `FetchingHeals` holds for
  every set of operations, those that forget a bit included. `Refinement` is
  `Spec => KeepsPromise`, which is `Scene`'s specification under the mapping, for any
  set `Ops` of operations that ask for what they change (`Asking`, which is also
  the run's `Ops`). "What is wrong is owed" is not inductive: a thing that is not
  shown may be stale, and another mode shows it. `Due` says for every kept thing which
  of the bits, closed by `rf_deps`, asks for it if it is stale, and `Glide` that a node
  off its place has frames to go and is drawn in the next. An operation keeps this
  because `Touches` bounds what it makes stale by the bits it sets; a frame because each
  `if_` stage of `rebuild` makes its things from things made before it (one lemma
  `...Stage` for each).
- **DeusEx**, `OneTimer`, `NothingDangles`, `ProgressOwned`, `AdjustsExactly`,
  `CyclesThroughAll`, `PlaysWholeReel`, for all scripts over the directives of the grammar, all archives, all fetches, and scripts ended
  and exchanged at any time. The invariant `Good` ties each static to the
  directives that use it and to the action that is run: the timer (`TimerOk`, `TimerOwn`),
  captions (`TextOk`: each is of the present list or was kept when a script was ended), the five motions (`MoveOk`), the reel (`ReelOk`), the class of
  `cyclenc` (`CycleOk`). What a function leaves behind is the next action's inheritance, so
  besides `Good` there is a lemma per function in `dxtab[]` that it is `Idle` when it
  says it is done. That the running action is one of the directives of the grammar needs a lemma
  about the parser (`dx_parse`), by induction over the script. The last three need a
  second invariant, `Sound`, of how far an action has come: the value and what is left of
  an adjustment add up to what was asked for, or belong to a script that was ended
  before (`Tuned`, which interruptions do not break); the classes a cycle has passed
  that have nodes were all shown (`Cycled`); the frames before the reel's place were all
  fetched, the one at it was or the flag asks for it (`Reeled`), and when the timer is
  armed it was (`ReelDue`). That the timer calls back what the running
  action armed it for (`Tied`) is part of it. A lemma for each function in
  `dxtab[]` says what it has come to when it is done (`Outcome`).
- **FlybyReplay**, `SelectionStaysWhole`, `FramesReplayed`, `ReelGoesThrough`. Since
  records only toggle, what a frame shows depends on all records before it; the
  invariant says that there is a story of the whole file, which gives for each record
  what is selected after it (`Story`), that a recording is at its end, and a playback
  at the record read last (`Told`). Every call of `selnode.c` writes records that lead
  from the old selection to the new one (`Kept`) as long as no node is
  listed twice (`Tidy`). For the reel: the place in the playback is the number of states
  read, and never beyond the share of the reel's frame.
- **PanelContent**, `PanelsFresh`, `ListsCurrent`, `TypedShown`, for every group of
  panels and any number of changes between two frames (the run has groups of one to
  three panels and two changes). Between frames a panel may be out of date; `Known` says that its
  refresh function will find out: what it keeps a copy of, its text shows as the
  copy has it, and of everything else it is told of, the text is right or one of the
  function's own marks is set (`Late`). Handlers keep this because whoever sees
  what they change is marked, `Heeds`, with one lemma per kind of handler. In a frame
  the fetch and the classes come first (`RebuildGood`), then `Stage` says what holds
  after each panel of the list: the ones before are right and stay so (`Fine`, `Aside`:
  a refresh takes no mark of another panel, except the one text panels share), the
  ones after wait as they were.

Recursive definitions are written as recursive functions (`calls`, `dx_parse`, `drawn`, ...),
and what is proved of them is proved by a least counterexample (`LeastNat`): a first
place at which the claim fails has one before it at which it holds.

### Only model-checked
Liveness (`Closes`, `Answered`, `CommencesCounted`, `Commences`,
`EventuallySettled`, `Advances`) is beyond the prover, which has no rule for
fairness. Every other property of the passing runs is a theorem.

## Not modelled, and why
- OpenGL calls, widgets, fonts, shadows, picking by name stacks and the wording of
  panels: no state the properties speak of.
- Positions, angles, the paths of the camera and the tweening arithmetic: floating
  point. The models keep what starts and ends a motion.
- The stream backends, HTTP and the scripts that collect data: wrappers of libraries and
  sequential I/O. The modification times by which `ds_refresh` decides are left
  out; a fetch finds new data or none.
- The yacc grammars: run once at start-up (machine) or taken as the list of
  commands they produce (scripts).
- The values in a server request and the camera, highlighting and caption records of a flyby.
- Passive stereo, where a second process window follows the first.
- The timers of entries in the status log.
- Portability layer, test programs, easter eggs but for the flags one sets.

## Plan
Done: `PanelInput`, `ServerSessions`, `JobList`, `Highlight`, `AutoFlyby`,
`FlybyReplay`, `Scene` and `Rebuild`, `DeusEx`, `PanelContent` with their theorems.
Left, in order of what matters to the program:

1. `StatusLog` (timers against messages) and `DataSource` (modification times,
   failures half-way).
2. Pure operators with reference definitions: growth of `buf` and `dynarray`,
   neighbours in `node.c`, ids at the limits of `node_nidmap`.
