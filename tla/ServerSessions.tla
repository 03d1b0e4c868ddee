--------------------------- MODULE ServerSessions ---------------------------
(***************************************************************************)
(* Server mode (server.c): a listener thread accepts connections, NREADTHR *)
(* reader threads read and parse one request each, and the GLUT thread     *)
(* (serv_displayh) renders one picture after another.  A session is handed *)
(* from thread to thread through two queues, each with a mutex and a       *)
(* condition variable; a critical section of the code is one action.       *)
(* Before it draws, the GLUT thread clones the data set for the session id *)
(* of the request (dsc_ in ds.c); the clones stay on disk when the server   *)
(* dies and is started again.                                              *)
(*                                                                         *)
(* A request is a stream of lines.  It is counted here in halves of lines, *)
(* because a read() may return any part of what the client has sent; a     *)
(* line may stand for several of the program's that are read together.  A  *)
(* client may send lines without end: of what it has sent the model keeps  *)
(* what is not read yet, and whether the last line is finished.            *)
(***************************************************************************)
EXTENDS Naturals, Sequences, FiniteSets, FiniteSetsExt, Functions

CONSTANTS
    Conn,        \* connections clients may make
    NoConn,      \* no session: a NULL client_session
    Reader,      \* the reader threads, NREADTHR of them
    Session,     \* session ids
    NoSid,       \* the empty session id of a request without a sid line
    Sid,         \* the session id that the request of a connection carries
    MaxUnread,   \* bound: halves of lines the socket of a client holds unread
    MaxRestart   \* bound: how often the server is started again

ASSUME ServerAssumption ==
    /\ NoConn \notin Conn
    /\ Sid \in [Conn -> Session] /\ NoSid \in Session
    /\ IsFiniteSet(Reader)
    /\ MaxUnread \in Nat /\ MaxRestart \in Nat

VARIABLES
    fd,          \* cs_fd of a connection: "none" before accept(), "open", "closed"
    half,        \* 1 when the last line the client sent is not finished, else 0
    unread,      \* halves of lines sent that no read() has returned yet
    eof,         \* the client has shut down its side
    reset,       \* the client has gone away: read() and write() fail
    stalled,     \* the client will not read what it is sent: write() blocks
    sized,       \* cs_winv is set: the lines sw and sh were parsed
    reply,       \* what the client was sent: "none", "header", "picture"
    up,          \* the server process runs
    starts,      \* how often it was started again
    readq, renderq,
    listener,    \* session accepted and not yet queued
    reader,      \* per thread: where it is, and the session it holds
    render,      \* the same for the GLUT thread
    disk         \* the clone of a session, one of Clone

client  == <<half, unread, eof, reset, stalled>>
threads == <<readq, renderq, listener, reader, render>>
vars    == <<fd, client, sized, reply, up, starts, threads, disk>>

ReaderPC == {"look", "wait", "read", "block", "enqueue", "drop"}
RenderPC == {"look", "info", "wait", "exists", "clone", "copy", "load",
             "write", "snap", "close"}

(* A clone: no directory, no file in it, a file that is being copied, one  *)
(* whose copy ended before the data did, one that a death of the server    *)
(* left in the middle, a whole one.                                        *)
Clone == {"none", "dir", "part", "short", "left", "whole"}
Ended == {"short", "left", "whole"}

TypeOK ==
    /\ fd \in [Conn -> {"none", "open", "closed"}]
    /\ half \in [Conn -> {0, 1}] /\ unread \in [Conn -> 0 .. MaxUnread]
    /\ eof \in [Conn -> BOOLEAN] /\ reset \in [Conn -> BOOLEAN]
    /\ stalled \in [Conn -> BOOLEAN]
    /\ sized \in [Conn -> BOOLEAN]
    /\ reply \in [Conn -> {"none", "header", "picture"}]
    /\ up \in BOOLEAN /\ starts \in 0 .. MaxRestart
    /\ readq \in Seq(Conn) /\ renderq \in Seq(Conn)
    /\ listener \in Conn \cup {NoConn}
    /\ reader \in [Reader -> [pc : ReaderPC, cs : Conn \cup {NoConn}]]
    /\ render \in [pc : RenderPC, cs : Conn \cup {NoConn}]
    /\ disk \in [Session -> Clone]

At(pc)     == {r \in Reader : reader[r].pc = pc}
idle       == [pc |-> "look", cs |-> NoConn]
asleep     == [pc |-> "wait", cs |-> NoConn]
goto(x, l) == [x EXCEPT !.pc = l]

-----------------------------------------------------------------------------
(* serv_init: the threads are started, the queues are empty.               *)
StartThreads ==
    /\ readq' = <<>> /\ renderq' = <<>> /\ listener' = NoConn
    /\ reader' = [r \in Reader |-> idle] /\ render' = idle

(* The directory of the empty session id is the sessions directory itself, *)
(* which exists before the server runs (server.sh).                        *)
Init ==
    /\ fd = [c \in Conn |-> "none"] /\ reply = [c \in Conn |-> "none"]
    /\ half = [c \in Conn |-> 0] /\ unread = [c \in Conn |-> 0]
    /\ eof = [c \in Conn |-> FALSE] /\ reset = [c \in Conn |-> FALSE]
    /\ stalled = [c \in Conn |-> FALSE]
    /\ sized = [c \in Conn |-> FALSE]
    /\ up = TRUE /\ starts = 0
    /\ readq = <<>> /\ renderq = <<>> /\ listener = NoConn
    /\ reader = [r \in Reader |-> idle] /\ render = idle
    /\ disk = [s \in Session |-> IF s = NoSid THEN "dir" ELSE "none"]

(* err(1, ...), a fault or a kill: the kernel closes every connection, and *)
(* the file that was being copied stays as it is.                          *)
exit ==
    /\ up' = FALSE
    /\ fd' = [c \in Conn |-> IF fd[c] = "open" THEN "closed" ELSE fd[c]]
    /\ disk' = [s \in Session |-> IF disk[s] = "part" THEN "left" ELSE disk[s]]
    /\ sized' = [c \in Conn |-> FALSE]
    /\ UNCHANGED <<client, reply, starts, threads>>

killed == up /\ exit

restart ==
    /\ ~up /\ starts < MaxRestart
    /\ up' = TRUE /\ starts' = starts + 1
    /\ StartThreads
    /\ UNCHANGED <<fd, client, sized, reply, disk>>

-----------------------------------------------------------------------------
(* The clients.                                                            *)

client_send(c) ==
    /\ fd[c] = "open" /\ ~eof[c] /\ ~reset[c] /\ unread[c] < MaxUnread
    /\ half' = [half EXCEPT ![c] = 1 - @]
    /\ unread' = [unread EXCEPT ![c] = @ + 1]
    /\ UNCHANGED <<fd, eof, reset, stalled, sized, reply, up, starts, threads, disk>>

client_shutdown(c) ==
    /\ fd[c] = "open" /\ ~eof[c] /\ ~reset[c]
    /\ eof' = [eof EXCEPT ![c] = TRUE]
    /\ UNCHANGED <<fd, half, unread, reset, stalled, sized, reply, up, starts, threads, disk>>

client_gone(c) ==
    /\ fd[c] = "open" /\ ~reset[c]
    /\ reset' = [reset EXCEPT ![c] = TRUE]
    /\ UNCHANGED <<fd, half, unread, eof, stalled, sized, reply, up, starts, threads, disk>>

(* The client that the GLUT thread writes to stays and reads no more.  One *)
(* that only pauses is a client whose picture takes longer to write.       *)
client_stall(c) ==
    /\ up /\ render.pc \in {"write", "snap"} /\ render.cs = c
    /\ ~reset[c] /\ ~stalled[c]
    /\ stalled' = [stalled EXCEPT ![c] = TRUE]
    /\ UNCHANGED <<fd, half, unread, eof, reset, sized, reply, up, starts, threads, disk>>

-----------------------------------------------------------------------------
(* Variants with a plausible mistake; no specification below uses them.    *)

listen_enqueue_no_signal ==
    /\ up /\ listener # NoConn
    /\ readq' = Append(readq, listener) /\ listener' = NoConn
    /\ UNCHANGED <<fd, client, sized, reply, up, starts, renderq, reader, render, disk>>

reader_look_keeps(r) ==
    /\ up /\ reader[r].pc = "look"
    /\ reader' = [reader EXCEPT ![r] = IF readq = <<>> THEN asleep
                                       ELSE [pc |-> "read", cs |-> Head(readq)]]
    /\ UNCHANGED <<fd, client, sized, reply, up, starts, readq, renderq,
                   listener, render, disk>>

reader_data_ignores_eol(r) ==
    LET c == reader[r].cs
    IN  /\ up /\ reader[r].pc = "read" /\ ~reset[c] /\ unread[c] > 0
        /\ \E k \in 1 .. unread[c] :
              unread' = [unread EXCEPT ![c] = @ - k]
        /\ UNCHANGED <<fd, half, eof, reset, stalled, sized, reply, up, starts,
                       threads, disk>>

reader_timeout_never(r) == FALSE

reader_enqueue_no_signal(r) ==
    /\ up /\ reader[r].pc = "enqueue"
    /\ renderq' = Append(renderq, reader[r].cs)
    /\ reader' = [reader EXCEPT ![r] = idle]
    /\ UNCHANGED <<fd, client, sized, reply, up, starts, readq, listener, render, disk>>

render_exists_always_clones ==
    /\ up /\ render.pc = "exists"
    /\ render' = goto(render, "clone")
    /\ UNCHANGED <<fd, client, sized, reply, up, starts, readq, renderq,
                   listener, reader, disk>>

render_copy_unchecked ==
    /\ up /\ render.pc = "copy"
    /\ \E d \in {"part", "short", "whole"} : disk' = [disk EXCEPT ![Sid[render.cs]] = d]
    /\ render' = goto(render, "load")
    /\ UNCHANGED <<fd, client, sized, reply, up, starts, readq, renderq,
                   listener, reader>>

-----------------------------------------------------------------------------
(* serv_listenthr_main: accept, then queue the session and signal.  The    *)
(* signal wakes one waiting reader, if there is one.                       *)

listen_accept(c) ==
    /\ up /\ listener = NoConn /\ fd[c] = "none"
    /\ fd' = [fd EXCEPT ![c] = "open"] /\ listener' = c
    /\ UNCHANGED <<client, sized, reply, up, starts, readq, renderq, reader,
                   render, disk>>

listen_enqueue ==
    /\ up /\ listener # NoConn
    /\ readq' = Append(readq, listener) /\ listener' = NoConn
    /\ IF At("wait") = {} THEN UNCHANGED reader
       ELSE \E r \in At("wait") : reader' = [reader EXCEPT ![r] = idle]
    /\ UNCHANGED <<fd, client, sized, reply, up, starts, renderq, render, disk>>

-----------------------------------------------------------------------------
(* serv_readthr_main.                                                      *)

reader_look(r) ==
    /\ up /\ reader[r].pc = "look"
    /\ IF readq = <<>>
       THEN reader' = [reader EXCEPT ![r] = asleep] /\ UNCHANGED readq
       ELSE /\ reader' = [reader EXCEPT ![r] = [pc |-> "read", cs |-> Head(readq)]]
            /\ readq' = Tail(readq)
    /\ UNCHANGED <<fd, client, sized, reply, up, starts, renderq, listener,
                   render, disk>>

(* A waiter may wake without a signal; the loop around the wait allows it. *)
reader_spurious(r) ==
    /\ up /\ reader[r].pc = "wait"
    /\ reader' = [reader EXCEPT ![r] = idle]
    /\ UNCHANGED <<fd, client, sized, reply, up, starts, readq, renderq,
                   listener, render, disk>>

(* select() says that there is something to read, and read() finds nothing *)
(* and blocks, without a timeout ("linux may still block").                *)
reader_block(r) ==
    LET c == reader[r].cs
    IN  /\ up /\ reader[r].pc = "read" /\ ~reset[c] /\ unread[c] = 0 /\ ~eof[c]
        /\ reader' = [reader EXCEPT ![r] = goto(@, "block")]
        /\ UNCHANGED <<fd, client, sized, reply, up, starts, readq, renderq,
                       listener, render, disk>>

(* read() returns k halves of lines.  Every chunk is parsed on its own     *)
(* (serv_parse), so one that does not end at the end of a line is an       *)
(* error; so is a line with an unknown name or a bad value (ok = FALSE).   *)
reader_data(r) ==
    LET c == reader[r].cs
    IN  /\ up /\ reader[r].pc \in {"read", "block"} /\ ~reset[c] /\ unread[c] > 0
        /\ \E k \in 1 .. unread[c], ok, size \in BOOLEAN :
              LET parsed == ok /\ k % 2 = 0
              IN  /\ unread' = [unread EXCEPT ![c] = @ - k]
                  /\ sized' = [sized EXCEPT ![c] = @ \/ (parsed /\ size)]
                  /\ reader' = [reader EXCEPT
                                  ![r] = goto(@, IF parsed THEN "read" ELSE "drop")]
        /\ UNCHANGED <<fd, half, eof, reset, stalled, reply, up, starts, readq, renderq,
                       listener, render, disk>>

(* read() returns 0: the loop is left with what select() returned, which   *)
(* is SERVP_CONT, whether or not anything was read before.                 *)
reader_eof(r) ==
    LET c == reader[r].cs
    IN  /\ up /\ reader[r].pc \in {"read", "block"} /\ ~reset[c]
        /\ unread[c] = 0 /\ eof[c]
        /\ reader' = [reader EXCEPT ![r] = goto(@, "enqueue")]
        /\ UNCHANGED <<fd, client, sized, reply, up, starts, readq, renderq,
                       listener, render, disk>>

reader_error(r) ==
    /\ up /\ reader[r].pc \in {"read", "block"} /\ reset[reader[r].cs]
    /\ exit

(* select() returns 0 after three seconds without anything to read.        *)
reader_timeout(r) ==
    LET c == reader[r].cs
    IN  /\ up /\ reader[r].pc = "read" /\ ~reset[c] /\ unread[c] = 0 /\ ~eof[c]
        /\ reader' = [reader EXCEPT ![r] = goto(@, "drop")]
        /\ UNCHANGED <<fd, client, sized, reply, up, starts, readq, renderq,
                       listener, render, disk>>

reader_enqueue(r) ==
    /\ up /\ reader[r].pc = "enqueue"
    /\ renderq' = Append(renderq, reader[r].cs)
    /\ render' = IF render.pc = "wait" THEN idle ELSE render
    /\ reader' = [reader EXCEPT ![r] = idle]
    /\ UNCHANGED <<fd, client, sized, reply, up, starts, readq, listener, disk>>

reader_drop(r) ==
    /\ up /\ reader[r].pc = "drop"
    /\ fd' = [fd EXCEPT ![reader[r].cs] = "closed"]
    /\ sized' = [sized EXCEPT ![reader[r].cs] = FALSE]
    /\ reader' = [reader EXCEPT ![r] = idle]
    /\ UNCHANGED <<client, reply, up, starts, readq, renderq, listener,
                   render, disk>>

-----------------------------------------------------------------------------
(* serv_displayh, up to the wait for a request.                            *)

render_look ==
    /\ up /\ render.pc = "look"
    /\ IF renderq = <<>>
       THEN render' = goto(render, "info") /\ UNCHANGED renderq
       ELSE /\ render' = [pc |-> "exists", cs |-> Head(renderq)]
            /\ renderq' = Tail(renderq)
    /\ UNCHANGED <<fd, client, sized, reply, up, starts, readq, listener,
                   reader, disk>>

(* The count of requests was drawn without the lock: look again.           *)
render_info ==
    /\ up /\ render.pc = "info"
    /\ render' = IF renderq = <<>> THEN asleep ELSE idle
    /\ UNCHANGED <<fd, client, sized, reply, up, starts, readq, renderq,
                   listener, reader, disk>>

render_timedout ==
    /\ up /\ render.pc = "wait"
    /\ render' = idle
    /\ UNCHANGED <<fd, client, sized, reply, up, starts, readq, renderq,
                   listener, reader, disk>>

-----------------------------------------------------------------------------
(* serv_displayh with a request: clone the data set, load it, answer.      *)

render_exists ==
    LET s == Sid[render.cs]
    IN  /\ up /\ render.pc = "exists"
        /\ IF disk[s] = "none"
           THEN disk' = [disk EXCEPT ![s] = "dir"] /\ render' = goto(render, "clone")
           ELSE UNCHANGED disk /\ render' = goto(render, "load")
        /\ UNCHANGED <<fd, client, sized, reply, up, starts, readq, renderq,
                       listener, reader>>

(* dsc_clone creates the file when the source of the data can be opened;   *)
(* when it cannot, the unchecked result of ds_open() is dereferenced.      *)
render_clone ==
    /\ up /\ render.pc = "clone"
    /\ \/ /\ disk' = [disk EXCEPT ![Sid[render.cs]] = "part"]
          /\ render' = goto(render, "copy")
          /\ UNCHANGED <<fd, client, sized, reply, up, starts, readq, renderq,
                         listener, reader>>
       \/ exit

(* The copy ends when read() on the descriptor of the data returns 0.      *)
(* That is the end of the data ("whole") or not ("short"): the source may  *)
(* send less than it has, and what the stream has buffered, decrypts or    *)
(* uncompresses (us_read) is bypassed.  A failed read or write ends the    *)
(* program.                                                                *)
render_copy ==
    /\ up /\ render.pc = "copy"
    /\ \/ /\ \E d \in {"short", "whole"} :
                disk' = [disk EXCEPT ![Sid[render.cs]] = d]
          /\ render' = goto(render, "load")
          /\ UNCHANGED <<fd, client, sized, reply, up, starts, readq, renderq,
                         listener, reader>>
       \/ exit

(* dsc_load fails when the session has a directory and no data in it.      *)
render_load ==
    /\ up /\ render.pc = "load"
    /\ render' = goto(render, IF disk[Sid[render.cs]] = "dir" THEN "close" ELSE "write")
    /\ UNCHANGED <<fd, client, sized, reply, up, starts, readq, renderq,
                   listener, reader, disk>>

(* write() of the header blocks as long as the client does not read it.    *)
render_write ==
    LET c == render.cs
    IN  /\ up /\ render.pc = "write"
        /\ \/ reset[c] /\ exit
           \/ /\ ~reset[c] /\ ~stalled[c]
              /\ reply' = [reply EXCEPT ![c] = "header"]
              /\ render' = goto(render, "snap")
              /\ UNCHANGED <<fd, client, sized, up, starts, readq, renderq,
                             listener, reader, disk>>

(* capture_snapfd: png_write() ends the program when the picture has no    *)
(* width (the request set no size) or the client is gone, and blocks as    *)
(* long as the client does not read it.                                    *)
render_snap ==
    LET c == render.cs
    IN  /\ up /\ render.pc = "snap"
        /\ \/ (reset[c] \/ ~sized[c]) /\ exit
           \/ /\ ~reset[c] /\ sized[c] /\ ~stalled[c]
              /\ reply' = [reply EXCEPT ![c] = "picture"]
              /\ render' = goto(render, "close")
              /\ UNCHANGED <<fd, client, sized, up, starts, readq, renderq,
                             listener, reader, disk>>

render_close ==
    /\ up /\ render.pc = "close"
    /\ fd' = [fd EXCEPT ![render.cs] = "closed"]
    /\ sized' = [sized EXCEPT ![render.cs] = FALSE]
    /\ render' = idle
    /\ UNCHANGED <<client, reply, up, starts, readq, renderq, listener,
                   reader, disk>>

-----------------------------------------------------------------------------
ReaderStep(r) ==
    \/ reader_look(r) \/ reader_data(r) \/ reader_eof(r) \/ reader_error(r)
    \/ reader_timeout(r) \/ reader_enqueue(r) \/ reader_drop(r)

RenderStep ==
    \/ render_look \/ render_info \/ render_exists \/ render_clone
    \/ render_copy \/ render_load \/ render_write \/ render_snap \/ render_close

Next ==
    \/ \E c \in Conn : listen_accept(c) \/ client_send(c)
                          \/ client_shutdown(c) \/ client_gone(c) \/ client_stall(c)
    \/ listen_enqueue
    \/ \E r \in Reader : ReaderStep(r) \/ reader_block(r) \/ reader_spurious(r)
    \/ RenderStep \/ render_timedout
    \/ killed \/ restart

Spec == Init /\ [][Next]_vars

(* The scheduler runs every thread that can run, select() times out, and   *)
(* read() and write() return when the client has sent or reads.  Nothing   *)
(* is assumed of the clients, of the timeout of the GLUT thread's wait     *)
(* (its deadline is miscomputed) or of spurious wakeups.                   *)
Fairness ==
    /\ WF_vars(listen_enqueue)
    /\ \A r \in Reader : WF_vars(ReaderStep(r))
    /\ WF_vars(RenderStep)

FairSpec == Spec /\ Fairness

-----------------------------------------------------------------------------
(* Who holds a pointer to a session.                                       *)
Reading  == {reader[r].cs : r \in Reader} \ {NoConn}
Accepted == {listener} \ {NoConn}
Drawn    == {render.cs} \ {NoConn}
Held     == Range(readq) \cup Range(renderq) \cup Reading \cup Accepted \cup Drawn

NotTwice ==
    /\ IsInjective(readq) /\ IsInjective(renderq)
    /\ \A r, q \in Reader :
          reader[r].cs = reader[q].cs /\ reader[r].cs # NoConn => r = q
    /\ Range(readq) \cap (Range(renderq) \cup Reading \cup Accepted \cup Drawn) = {}
    /\ Range(renderq) \cap (Reading \cup Accepted \cup Drawn) = {}
    /\ Reading \cap (Accepted \cup Drawn) = {}
    /\ Accepted \cap Drawn = {}

(* A session is held in exactly one place until it is closed and freed and *)
(* in none after: no thread uses a session that another one has freed or   *)
(* closes its descriptor again, and none is leaked.                        *)
OneOwner == up => NotTwice /\ Held = {c \in Conn : fd[c] = "open"}

(* No thread works on a NULL session: one that wakes up without a request  *)
(* looks again (the loop around pthread_cond_wait, the return after the    *)
(* timed wait), and one that has none is at its queue.                     *)
HasSession ==
    /\ \A r \in Reader : reader[r].cs = NoConn <=> reader[r].pc \in {"look", "wait"}
    /\ render.cs = NoConn <=> render.pc \in {"look", "info", "wait"}

(* A request in the queue is never left lying while a reader sleeps: there *)
(* is a reader about to look for each one (signal under readq_lock, and    *)
(* the loop around pthread_cond_wait).                                     *)
NoLostWakeup ==
    up /\ At("wait") # {} => Len(readq) <= Cardinality(At("look"))

(* The GLUT thread does not sleep on a request: the queue is looked at     *)
(* again under renderq_lock before the wait.                               *)
RenderAwake == up /\ render.pc = "wait" => renderq = <<>>

(* Nothing is drawn for a request that was read only in part: a picture    *)
(* answers every line the client sent, however the stream was cut.         *)
AnswerWhole ==
    \A c \in Conn : reply[c] # "none" => eof[c] /\ unread[c] = 0 /\ half[c] = 0

(* The data of a session never changes once its copy has ended, whole,     *)
(* short, or cut by a death of the server: all pictures of a session show  *)
(* the same data, over restarts too (dsc_exists before dsc_clone).         *)
SessionFrozen ==
    [][\A s \in Session :
          disk[s] \in Ended => disk'[s] = disk[s]]_vars

(* No picture is drawn from a clone that is not there or still being       *)
(* copied.  One that is not whole was cut by a read() of 0 before the end  *)
(* of the data, or left by a server that died since; a read error does not *)
(* get past the copy (the checks of dsc_clone, dsc_exists and dsc_load).   *)
PictureOfClone ==
    \A c \in Conn : reply[c] # "none" =>
        \/ disk[Sid[c]] \in {"short", "whole"}
        \/ disk[Sid[c]] = "left" /\ starts > 0

(* The GLUT thread is in a write() to a client that does not read.         *)
stuck ==
    /\ up /\ render.pc \in {"write", "snap"}
    /\ stalled[render.cs] /\ ~reset[render.cs]

SendsForEver(c) == []<><<client_send(c)>>_vars

(* Every connection is closed in the end: one that stops sending, one cut  *)
(* in the middle of a line, one that is never drawn.  Excepted is what the *)
(* code does not guard against: the GLUT thread may be stuck for ever in a *)
(* write, a reader may block for ever in a read that select() promised,    *)
(* and a client that sends a line in every three seconds for ever keeps    *)
(* its connection and its reader; as many of them as there are readers     *)
(* keep everybody else waiting.                                            *)
Closes ==
    \/ <>[]stuck
    \/ \E r \in Reader : <>[](reader[r].pc = "block")
    \/ \A c \in Conn :
          \/ fd[c] = "open" ~> fd[c] = "closed"
          \/ SendsForEver(c)
          \/ \E S \in kSubset(Cardinality(Reader), Conn \ {c}) :
                \A k \in S : SendsForEver(k)

(* A request that has been read gets its picture, unless its client goes   *)
(* away, the server ends, its session has a directory and no data, or the  *)
(* GLUT thread is stuck for ever with a client that does not read.         *)
Answered ==
    \/ <>[]stuck
    \/ \A c \in Conn :
          up /\ sized[c] /\ disk[Sid[c]] # "dir"
             /\ (\E i \in DOMAIN renderq : renderq[i] = c)
             ~> reply[c] = "picture" \/ reset[c] \/ ~up
=============================================================================
