------------------------ MODULE ServerSessionsProofs ------------------------
(***************************************************************************)
(* Proofs about ServerSessions, for any number of connections, readers and *)
(* session ids.  The inductive invariant is proved part by part, each part *)
(* from the ones before it.                                                *)
(***************************************************************************)
EXTENDS ServerSessions, FiniteSetTheorems, TLAPS

-----------------------------------------------------------------------------
(* Queues without repeated elements.                                       *)

LEMMA AppendSet ==
    ASSUME NEW S, NEW q \in Seq(S), NEW x \in S
    PROVE  /\ Append(q, x) \in Seq(S)
           /\ Range(Append(q, x)) = Range(q) \cup {x}
           /\ IsInjective(q) /\ x \notin Range(q) => IsInjective(Append(q, x))
<1> DEFINE a == Append(q, x)
<1>1. /\ a \in Seq(S) /\ DOMAIN a = 1 .. Len(q) + 1 /\ DOMAIN q = 1 .. Len(q)
      /\ Len(q) \in Nat
      /\ \A i \in 1 .. Len(q) : a[i] = q[i]
      /\ a[Len(q) + 1] = x
  OBVIOUS
<1> HIDE DEF a
<1>2. Range(a) = Range(q) \cup {x}
  <2>1. ASSUME NEW y \in Range(a) PROVE y \in Range(q) \cup {x}
    <3>1. PICK i \in 1 .. Len(q) + 1 : y = a[i]
      BY <1>1 DEF Range
    <3>2. CASE i \in 1 .. Len(q)
      BY <1>1, <3>1, <3>2 DEF Range
    <3>3. CASE i = Len(q) + 1
      BY <1>1, <3>1, <3>3
    <3> QED BY <1>1, <3>1, <3>2, <3>3
  <2>2. ASSUME NEW y \in Range(q) PROVE y \in Range(a)
    <3>1. PICK i \in 1 .. Len(q) : y = q[i]
      BY <1>1 DEF Range
    <3>2. i \in 1 .. Len(q) + 1 /\ y = a[i]
      BY <1>1, <3>1
    <3> QED BY <1>1, <3>2 DEF Range
  <2>3. x \in Range(a)
    <3>1. Len(q) + 1 \in 1 .. Len(q) + 1
      BY <1>1
    <3> QED BY <1>1, <3>1 DEF Range
  <2> QED BY <2>1, <2>2, <2>3
<1>3. ASSUME IsInjective(q), x \notin Range(q)
      PROVE  IsInjective(a)
  <2> SUFFICES ASSUME NEW i \in 1 .. Len(q) + 1, NEW j \in 1 .. Len(q) + 1, a[i] = a[j]
               PROVE  i = j
    BY <1>1 DEF IsInjective
  <2>1. \A k \in 1 .. Len(q) : a[k] # x
    BY <1>1, <1>3 DEF Range
  <2>2. CASE i \in 1 .. Len(q) /\ j \in 1 .. Len(q)
    BY <1>1, <1>3, <2>2 DEF IsInjective
  <2>3. CASE i = Len(q) + 1 \/ j = Len(q) + 1
    BY <1>1, <2>1, <2>3
  <2> QED BY <1>1, <2>2, <2>3
<1> QED BY <1>1, <1>2, <1>3 DEF a

LEMMA TailSet ==
    ASSUME NEW S, NEW q \in Seq(S), q # <<>>
    PROVE  /\ Head(q) \in S /\ Head(q) \in Range(q) /\ Tail(q) \in Seq(S)
           /\ Range(q) = Range(Tail(q)) \cup {Head(q)}
           /\ IsInjective(q) => IsInjective(Tail(q)) /\ Head(q) \notin Range(Tail(q))
<1> DEFINE t == Tail(q)
<1>1. /\ t \in Seq(S) /\ DOMAIN q = 1 .. Len(q) /\ DOMAIN t = 1 .. Len(q) - 1
      /\ Len(q) \in Nat \ {0}
      /\ \A i \in 1 .. Len(q) - 1 : t[i] = q[i + 1]
      /\ Head(q) = q[1] /\ Head(q) \in S
  OBVIOUS
<1> HIDE DEF t
<1>2. Head(q) \in Range(q)
  BY <1>1 DEF Range
<1>3. Range(q) = Range(t) \cup {Head(q)}
  <2>1. ASSUME NEW y \in Range(q) PROVE y \in Range(t) \cup {Head(q)}
    <3>1. PICK i \in 1 .. Len(q) : y = q[i]
      BY <1>1 DEF Range
    <3>2. CASE i = 1
      BY <1>1, <3>1, <3>2
    <3>3. CASE i # 1
      <4>1. i - 1 \in 1 .. Len(q) - 1 /\ (i - 1) + 1 = i
        BY <1>1, <3>3
      <4>2. t[i - 1] = y
        BY <1>1, <3>1, <4>1
      <4>3. i - 1 \in DOMAIN t
        BY <1>1, <4>1
      <4>4. y \in Range(t)
        BY <4>2, <4>3 DEF Range
      <4> QED BY <4>4
    <3> QED BY <3>2, <3>3
  <2>2. ASSUME NEW y \in Range(t) PROVE y \in Range(q)
    <3>1. PICK i \in 1 .. Len(q) - 1 : y = t[i]
      BY <1>1 DEF Range
    <3>2. i + 1 \in 1 .. Len(q) /\ y = q[i + 1]
      BY <1>1, <3>1
    <3> QED BY <1>1, <3>2 DEF Range
  <2> QED BY <1>2, <2>1, <2>2
<1>4. ASSUME IsInjective(q)
      PROVE  IsInjective(t) /\ Head(q) \notin Range(t)
  <2>1. ASSUME NEW i \in 1 .. Len(q) - 1, NEW j \in 1 .. Len(q) - 1, t[i] = t[j]
        PROVE  i = j
    <3>1. i + 1 \in 1 .. Len(q) /\ j + 1 \in 1 .. Len(q) /\ q[i + 1] = q[j + 1]
      BY <1>1, <2>1
    <3>2. i + 1 = j + 1
      BY <1>1, <1>4, <3>1 DEF IsInjective
    <3> QED BY <1>1, <3>2
  <2>2. ASSUME Head(q) \in Range(t) PROVE FALSE
    <3>1. PICK i \in 1 .. Len(q) - 1 : q[1] = t[i]
      BY <1>1, <2>2 DEF Range
    <3>2. i + 1 \in 1 .. Len(q) /\ 1 \in 1 .. Len(q) /\ q[1] = q[i + 1]
      BY <1>1, <3>1
    <3>3. i + 1 = 1
      BY <1>1, <1>4, <3>2 DEF IsInjective
    <3> QED BY <1>1, <3>3
  <2> QED BY <1>1, <2>1, <2>2 DEF IsInjective
<1> QED BY <1>1, <1>2, <1>3, <1>4 DEF t

-----------------------------------------------------------------------------
(* Types, and who has a session.                                           *)

TypeInv == TypeOK /\ HasSession

LEMMA TypeInit == Init => TypeInv
BY ServerAssumption DEF Init, TypeInv, TypeOK, HasSession, idle, ReaderPC, RenderPC, Clone

LEMMA ReaderMoves ==
    ASSUME TypeInv, NEW r \in Reader, NEW x \in [pc : ReaderPC, cs : Conn \cup {NoConn}],
           x.cs = NoConn <=> x.pc \in {"look", "wait"},
           reader' = [reader EXCEPT ![r] = x]
    PROVE  /\ reader' \in [Reader -> [pc : ReaderPC, cs : Conn \cup {NoConn}]]
           /\ \A q \in Reader : reader'[q].cs = NoConn <=> reader'[q].pc \in {"look", "wait"}
           /\ \A q \in Reader : reader'[q] = IF q = r THEN x ELSE reader[q]
BY DEF TypeInv, TypeOK, HasSession

LEMMA ReaderGoes ==
    ASSUME TypeInv, NEW r \in Reader, NEW l \in ReaderPC \ {"look", "wait"},
           reader[r].pc \notin {"look", "wait"},
           reader' = [reader EXCEPT ![r] = goto(@, l)]
    PROVE  /\ reader' \in [Reader -> [pc : ReaderPC, cs : Conn \cup {NoConn}]]
           /\ \A q \in Reader : reader'[q].cs = NoConn <=> reader'[q].pc \in {"look", "wait"}
           /\ \A q \in Reader : reader'[q].cs = reader[q].cs
           /\ \A q \in Reader : reader'[q].pc = IF q = r THEN l ELSE reader[q].pc
BY DEF TypeInv, TypeOK, HasSession, goto

LEMMA RenderGoes ==
    ASSUME TypeInv, NEW l \in RenderPC \ {"look", "info", "wait"},
           render.pc \notin {"look", "info", "wait"},
           render' = goto(render, l)
    PROVE  /\ render' \in [pc : RenderPC, cs : Conn \cup {NoConn}]
           /\ render'.cs # NoConn /\ render'.cs = render.cs /\ render'.pc = l
BY DEF TypeInv, TypeOK, HasSession, goto

LEMMA IdleType ==
    /\ idle \in [pc : ReaderPC, cs : Conn \cup {NoConn}]
    /\ asleep \in [pc : ReaderPC, cs : Conn \cup {NoConn}]
    /\ idle \in [pc : RenderPC, cs : Conn \cup {NoConn}]
    /\ asleep \in [pc : RenderPC, cs : Conn \cup {NoConn}]
    /\ idle.pc = "look" /\ idle.cs = NoConn /\ asleep.pc = "wait" /\ asleep.cs = NoConn
BY DEF idle, asleep, ReaderPC, RenderPC

(* Every step keeps the types, and sessions with the threads at work.      *)
LEMMA TypeStep == TypeInv /\ [Next]_vars => TypeInv'
<1> SUFFICES ASSUME TypeInv, [Next]_vars PROVE TypeInv'
  OBVIOUS
<1> USE ServerAssumption
<1>0. TypeOK /\ HasSession
  BY DEF TypeInv
<1>1. CASE UNCHANGED vars
  BY <1>0, <1>1 DEF TypeInv, TypeOK, HasSession, vars, client, threads
<1>2. ASSUME exit PROVE TypeInv'
  <2>1. fd' \in [Conn -> {"none", "open", "closed"}] /\ sized' \in [Conn -> BOOLEAN]
    BY <1>0, <1>2 DEF exit, TypeOK
  <2>2. disk' \in [Session -> Clone]
    BY <1>0, <1>2 DEF exit, TypeOK, Clone
  <2> QED BY <1>0, <1>2, <2>1, <2>2 DEF exit, TypeInv, TypeOK, HasSession, client, threads
<1>3. CASE killed
  BY <1>2, <1>3 DEF killed
<1>4. CASE restart
  BY <1>0, <1>4, IdleType DEF restart, StartThreads, TypeInv, TypeOK, HasSession, client
<1>5. ASSUME NEW c \in Conn, client_send(c) PROVE TypeInv'
  <2>1. half' \in [Conn -> {0, 1}]
    <3>1. half[c] \in {0, 1}
      BY <1>0 DEF TypeOK
    <3>2. 1 - half[c] \in {0, 1}
      BY <3>1
    <3> QED BY <1>0, <1>5, <3>2 DEF client_send, TypeOK
  <2>2. unread' \in [Conn -> 0 .. MaxUnread]
    <3>1. unread[c] + 1 \in 0 .. MaxUnread
      BY <1>0, <1>5 DEF client_send, TypeOK
    <3> QED BY <1>0, <1>5, <3>1 DEF client_send, TypeOK
  <2> QED BY <1>0, <1>5, <2>1, <2>2 DEF client_send, TypeInv, TypeOK, HasSession, threads
<1>6. ASSUME NEW c \in Conn, client_shutdown(c) \/ client_gone(c) \/ client_stall(c)
      PROVE  TypeInv'
  BY <1>0, <1>6 DEF client_shutdown, client_gone, client_stall,
                    TypeInv, TypeOK, HasSession, threads
<1>7. ASSUME NEW c \in Conn, listen_accept(c) PROVE TypeInv'
  BY <1>0, <1>7 DEF listen_accept, TypeInv, TypeOK, HasSession, client
<1>8. CASE listen_enqueue
  <2>1. readq' \in Seq(Conn) /\ listener' \in Conn \cup {NoConn}
    BY <1>0, <1>8, AppendSet DEF listen_enqueue, TypeOK
  <2>2. CASE UNCHANGED reader
    BY <1>0, <1>8, <2>1, <2>2 DEF listen_enqueue, TypeInv, TypeOK, HasSession, client
  <2>3. ASSUME NEW r \in At("wait"), reader' = [reader EXCEPT ![r] = idle]
        PROVE  TypeInv'
    <3>1. r \in Reader
      BY <2>3 DEF At
    <3>2. /\ reader' \in [Reader -> [pc : ReaderPC, cs : Conn \cup {NoConn}]]
          /\ \A q \in Reader : reader'[q].cs = NoConn <=> reader'[q].pc \in {"look", "wait"}
      BY <3>1, <2>3, ReaderMoves, IdleType
    <3> QED BY <1>0, <1>8, <2>1, <3>2 DEF listen_enqueue, TypeInv, TypeOK, HasSession, client
  <2> QED BY <1>8, <2>2, <2>3 DEF listen_enqueue
<1>9. ASSUME NEW r \in Reader, reader_look(r) PROVE TypeInv'
  <2>1. CASE readq = <<>>
    <3>1. /\ reader' \in [Reader -> [pc : ReaderPC, cs : Conn \cup {NoConn}]]
          /\ \A q \in Reader : reader'[q].cs = NoConn <=> reader'[q].pc \in {"look", "wait"}
      BY <1>9, <2>1, ReaderMoves, IdleType DEF reader_look
    <3> QED BY <1>0, <1>9, <2>1, <3>1 DEF reader_look, TypeInv, TypeOK, HasSession, client
  <2>2. CASE readq # <<>>
    <3> DEFINE x == [pc |-> "read", cs |-> Head(readq)]
    <3>1. Head(readq) \in Conn /\ Tail(readq) \in Seq(Conn)
      BY <1>0, <2>2, TailSet DEF TypeOK
    <3>2. /\ x \in [pc : ReaderPC, cs : Conn \cup {NoConn}]
          /\ x.cs = NoConn <=> x.pc \in {"look", "wait"}
          /\ reader' = [reader EXCEPT ![r] = x]
      BY <1>9, <2>2, <3>1 DEF reader_look, ReaderPC
    <3> HIDE DEF x
    <3>3. /\ reader' \in [Reader -> [pc : ReaderPC, cs : Conn \cup {NoConn}]]
          /\ \A q \in Reader : reader'[q].cs = NoConn <=> reader'[q].pc \in {"look", "wait"}
      BY <3>2, ReaderMoves
    <3> QED BY <1>0, <1>9, <2>2, <3>1, <3>3 DEF reader_look, TypeInv, TypeOK, HasSession, client
  <2> QED BY <2>1, <2>2
<1>10. ASSUME NEW r \in Reader, reader_spurious(r) PROVE TypeInv'
  <2>1. /\ reader' \in [Reader -> [pc : ReaderPC, cs : Conn \cup {NoConn}]]
        /\ \A q \in Reader : reader'[q].cs = NoConn <=> reader'[q].pc \in {"look", "wait"}
    BY <1>10, ReaderMoves, IdleType DEF reader_spurious
  <2> QED BY <1>0, <1>10, <2>1 DEF reader_spurious, TypeInv, TypeOK, HasSession, client
<1>11. ASSUME NEW r \in Reader, reader_data(r) PROVE TypeInv'
  <2> DEFINE c == reader[r].cs
  <2>1. c \in Conn
    BY <1>0, <1>11 DEF reader_data, TypeOK, HasSession
  <2>2. PICK k \in 1 .. unread[c], l \in {"read", "drop"}, b \in BOOLEAN :
          /\ unread' = [unread EXCEPT ![c] = @ - k]
          /\ reader' = [reader EXCEPT ![r] = goto(@, l)]
          /\ sized' = [sized EXCEPT ![c] = b]
    BY <1>0, <1>11, <2>1 DEF reader_data, TypeOK
  <2>3. /\ reader' \in [Reader -> [pc : ReaderPC, cs : Conn \cup {NoConn}]]
        /\ \A q \in Reader : reader'[q].cs = NoConn <=> reader'[q].pc \in {"look", "wait"}
    <3>1. l \in ReaderPC \ {"look", "wait"} /\ reader[r].pc \notin {"look", "wait"}
      BY <1>11, <2>2 DEF reader_data, ReaderPC
    <3> QED BY <2>2, <3>1, ReaderGoes
  <2>4. unread' \in [Conn -> 0 .. MaxUnread] /\ sized' \in [Conn -> BOOLEAN]
    BY <1>0, <2>1, <2>2 DEF TypeOK
  <2> QED BY <1>0, <1>11, <2>3, <2>4 DEF reader_data, TypeInv, TypeOK, HasSession
<1>12. ASSUME NEW r \in Reader, reader_eof(r) \/ reader_timeout(r) \/ reader_block(r)
       PROVE  TypeInv'
  <2>1. PICK l \in {"enqueue", "drop", "block"} : reader' = [reader EXCEPT ![r] = goto(@, l)]
    BY <1>12 DEF reader_eof, reader_timeout, reader_block
  <2>2. l \in ReaderPC \ {"look", "wait"} /\ reader[r].pc \notin {"look", "wait"}
    BY <1>12, <2>1 DEF reader_eof, reader_timeout, reader_block, ReaderPC
  <2>3. /\ reader' \in [Reader -> [pc : ReaderPC, cs : Conn \cup {NoConn}]]
        /\ \A q \in Reader : reader'[q].cs = NoConn <=> reader'[q].pc \in {"look", "wait"}
    BY <2>1, <2>2, ReaderGoes
  <2> QED BY <1>0, <1>12, <2>3
          DEF reader_eof, reader_timeout, reader_block, TypeInv, TypeOK, HasSession, client
<1>13. ASSUME NEW r \in Reader, reader_error(r) PROVE TypeInv'
  BY <1>2, <1>13 DEF reader_error
<1>14. ASSUME NEW r \in Reader, reader_enqueue(r) \/ reader_drop(r) PROVE TypeInv'
  <2>1. reader[r].cs \in Conn
    BY <1>0, <1>14 DEF reader_enqueue, reader_drop, TypeOK, HasSession
  <2>2. /\ reader' \in [Reader -> [pc : ReaderPC, cs : Conn \cup {NoConn}]]
        /\ \A q \in Reader : reader'[q].cs = NoConn <=> reader'[q].pc \in {"look", "wait"}
    BY <1>14, ReaderMoves, IdleType DEF reader_enqueue, reader_drop
  <2>3. CASE reader_enqueue(r)
    <3>1. renderq' \in Seq(Conn)
      BY <1>0, <2>1, <2>3, AppendSet DEF reader_enqueue, TypeOK
    <3>2. /\ render' \in [pc : RenderPC, cs : Conn \cup {NoConn}]
          /\ render'.cs = NoConn <=> render'.pc \in {"look", "info", "wait"}
      BY <1>0, <2>3, IdleType DEF reader_enqueue, TypeOK, HasSession
    <3> QED BY <1>0, <2>2, <2>3, <3>1, <3>2
            DEF reader_enqueue, TypeInv, TypeOK, HasSession, client
  <2>4. CASE reader_drop(r)
    BY <1>0, <2>2, <2>4 DEF reader_drop, TypeInv, TypeOK, HasSession, client
  <2> QED BY <1>14, <2>3, <2>4
<1>15. CASE render_look
  <2>1. CASE renderq = <<>>
    <3>1. render' \in [pc : RenderPC, cs : Conn \cup {NoConn}]
          /\ render'.cs = NoConn /\ render'.pc = "info"
      BY <1>0, <1>15, <2>1 DEF render_look, goto, TypeOK, HasSession, RenderPC
    <3> QED BY <1>0, <1>15, <2>1, <3>1 DEF render_look, TypeInv, TypeOK, HasSession, client
  <2>2. CASE renderq # <<>>
    <3>1. Head(renderq) \in Conn /\ Tail(renderq) \in Seq(Conn)
      BY <1>0, <2>2, TailSet DEF TypeOK
    <3>2. render' \in [pc : RenderPC, cs : Conn \cup {NoConn}]
          /\ render'.cs = Head(renderq) /\ render'.pc = "exists"
      BY <1>15, <2>2, <3>1 DEF render_look, RenderPC
    <3> QED BY <1>0, <1>15, <2>2, <3>1, <3>2
            DEF render_look, TypeInv, TypeOK, HasSession, client
  <2> QED BY <2>1, <2>2
<1>16. CASE render_info \/ render_timedout
  <2>1. /\ render' \in [pc : RenderPC, cs : Conn \cup {NoConn}]
        /\ render'.cs = NoConn /\ render'.pc \in {"look", "info", "wait"}
    BY <1>16, IdleType DEF render_info, render_timedout
  <2> QED BY <1>0, <1>16, <2>1
          DEF render_info, render_timedout, TypeInv, TypeOK, HasSession, client
<1>17. ASSUME NEW l \in {"clone", "copy", "load", "write", "snap", "close"},
              render.pc \in {"exists", "clone", "copy", "load", "write", "snap"},
              render' = goto(render, l),
              disk' \in [Session -> Clone],
              reply' \in [Conn -> {"none", "header", "picture"}],
              UNCHANGED <<fd, client, sized, up, starts, readq, renderq, listener, reader>>
       PROVE  TypeInv'
  <2>1. /\ render' \in [pc : RenderPC, cs : Conn \cup {NoConn}]
        /\ render'.cs # NoConn /\ render'.pc \notin {"look", "info", "wait"}
    BY <1>0, <1>17, RenderGoes DEF RenderPC
  <2> QED BY <1>0, <1>17, <2>1 DEF TypeInv, TypeOK, HasSession, client
<1>18. CASE render_exists
  <2>1. \/ disk' = disk /\ render' = goto(render, "load")
        \/ disk' = [disk EXCEPT ![Sid[render.cs]] = "dir"] /\ render' = goto(render, "clone")
    BY <1>18 DEF render_exists
  <2>2. disk' \in [Session -> Clone]
    BY <1>0, <2>1 DEF TypeOK, Clone
  <2>3. reply \in [Conn -> {"none", "header", "picture"}]
    BY <1>0 DEF TypeOK
  <2> QED BY <1>17, <1>18, <2>1, <2>2, <2>3 DEF render_exists
<1>19. CASE render_clone
  <2>1. [disk EXCEPT ![Sid[render.cs]] = "part"] \in [Session -> Clone]
    BY <1>0 DEF TypeOK, Clone
  <2>2. reply \in [Conn -> {"none", "header", "picture"}]
    BY <1>0 DEF TypeOK
  <2> QED BY <1>2, <1>17, <1>19, <2>1, <2>2 DEF render_clone
<1>20. CASE render_copy
  <2>1. \A d \in {"short", "whole"} : [disk EXCEPT ![Sid[render.cs]] = d] \in [Session -> Clone]
    BY <1>0 DEF TypeOK, Clone
  <2>2. reply \in [Conn -> {"none", "header", "picture"}]
    BY <1>0 DEF TypeOK
  <2> QED BY <1>2, <1>17, <1>20, <2>1, <2>2 DEF render_copy
<1>21. CASE render_load
  BY <1>0, <1>17, <1>21 DEF render_load, TypeOK
<1>22. CASE render_write
  BY <1>0, <1>2, <1>17, <1>22 DEF render_write, TypeOK
<1>23. CASE render_snap
  BY <1>0, <1>2, <1>17, <1>23 DEF render_snap, TypeOK
<1>24. CASE render_close
  BY <1>0, <1>24, IdleType DEF render_close, TypeInv, TypeOK, HasSession, client
<1> QED
  BY <1>1, <1>3, <1>4, <1>5, <1>6, <1>7, <1>8, <1>9, <1>10, <1>11, <1>12, <1>13, <1>14,
     <1>15, <1>16, <1>18, <1>19, <1>20, <1>21, <1>22, <1>23, <1>24
  DEF Next, ReaderStep, RenderStep

-----------------------------------------------------------------------------
(* Every session is in one place.                                          *)

DeadClosed == ~up => \A c \in Conn : fd[c] # "open"

OwnerInv == OneOwner /\ DeadClosed

Open == {c \in Conn : fd[c] = "open"}

ReadersDiffer ==
    \A r, q \in Reader : reader[r].cs = reader[q].cs /\ reader[r].cs # NoConn => r = q

LEMMA ReadingMoves ==
    ASSUME TypeInv, ReadersDiffer, NEW r \in Reader,
           NEW x \in [pc : ReaderPC, cs : Conn \cup {NoConn}],
           reader' = [reader EXCEPT ![r] = x],
           x.cs = NoConn \/ x.cs \notin Reading
    PROVE  /\ Reading' = (Reading \ {reader[r].cs}) \cup ({x.cs} \ {NoConn})
           /\ ReadersDiffer'
<1>1. \A q \in Reader : reader'[q] = IF q = r THEN x ELSE reader[q]
  BY DEF TypeInv, TypeOK
<1>2. Reading' \subseteq (Reading \ {reader[r].cs}) \cup ({x.cs} \ {NoConn})
  BY <1>1 DEF Reading, ReadersDiffer
<1>3. (Reading \ {reader[r].cs}) \cup ({x.cs} \ {NoConn}) \subseteq Reading'
  BY <1>1 DEF Reading
<1>4. ReadersDiffer'
  BY <1>1 DEF Reading, ReadersDiffer
<1> QED BY <1>2, <1>3, <1>4

LEMMA ReadingStays ==
    ASSUME TypeInv, TypeInv', \A q \in Reader : reader'[q].cs = reader[q].cs
    PROVE  Reading' = Reading /\ (ReadersDiffer => ReadersDiffer')
BY DEF Reading, ReadersDiffer

(* Steps that move no session and open or close no connection.             *)
LEMMA OwnerFrame ==
    ASSUME TypeInv, TypeInv', OwnerInv, UNCHANGED <<fd, up, readq, renderq, listener>>,
           \A q \in Reader : reader'[q].cs = reader[q].cs, render'.cs = render.cs
    PROVE  OwnerInv'
<1>1. Reading' = Reading /\ (ReadersDiffer => ReadersDiffer')
  BY ReadingStays
<1>2. Drawn' = Drawn /\ Accepted' = Accepted
  BY DEF Drawn, Accepted
<1> QED BY <1>1, <1>2 DEF OwnerInv, OneOwner, DeadClosed, NotTwice, Held, ReadersDiffer

LEMMA OwnerInit == Init => OwnerInv
<1> SUFFICES ASSUME Init PROVE OwnerInv
  OBVIOUS
<1>1. Range(readq) = {} /\ Range(renderq) = {} /\ IsInjective(readq) /\ IsInjective(renderq)
  BY DEF Init, Range, IsInjective
<1>2. Reading = {} /\ Accepted = {} /\ Drawn = {} /\ ReadersDiffer
  BY DEF Init, Reading, Accepted, Drawn, ReadersDiffer, idle
<1>3. {c \in Conn : fd[c] = "open"} = {} /\ up
  BY DEF Init
<1> QED BY <1>1, <1>2, <1>3 DEF OwnerInv, OneOwner, DeadClosed, NotTwice, Held, ReadersDiffer

LEMMA OwnerStep == TypeInv /\ TypeInv' /\ OwnerInv /\ [Next]_vars => OwnerInv'
<1> SUFFICES ASSUME TypeInv, TypeInv', OwnerInv, [Next]_vars PROVE OwnerInv'
  OBVIOUS
<1> USE ServerAssumption
<1>0. TypeOK /\ HasSession /\ TypeOK' /\ HasSession'
  BY DEF TypeInv
<1>a. ASSUME up PROVE ReadersDiffer /\ NotTwice /\ Held = Open
  BY <1>a DEF OwnerInv, OneOwner, NotTwice, ReadersDiffer, Open
<1>b. ASSUME up', NotTwice', Held' = Open' PROVE OwnerInv'
  BY <1>b DEF OwnerInv, OneOwner, DeadClosed, Open
<1>1. CASE UNCHANGED vars
  BY <1>1, OwnerFrame DEF vars, client, threads
<1>2. ASSUME exit PROVE OwnerInv'
  BY <1>0, <1>2 DEF exit, OwnerInv, OneOwner, DeadClosed, TypeOK
<1>3. CASE killed
  BY <1>2, <1>3 DEF killed
<1>4. CASE restart
  <2>1. /\ Range(readq)' = {} /\ Range(renderq)' = {}
        /\ IsInjective(readq)' /\ IsInjective(renderq)'
    BY <1>4 DEF restart, StartThreads, Range, IsInjective
  <2>2. Reading' = {} /\ Accepted' = {} /\ Drawn' = {} /\ ReadersDiffer'
    BY <1>4 DEF restart, StartThreads, Reading, Accepted, Drawn, ReadersDiffer, idle
  <2>3. Open' = {} /\ up'
    BY <1>4 DEF restart, OwnerInv, DeadClosed, Open
  <2> QED BY <2>1, <2>2, <2>3, <1>b DEF NotTwice, Held, ReadersDiffer
<1>5. ASSUME NEW c \in Conn, client_send(c) \/ client_shutdown(c) \/ client_gone(c)
                                \/ client_stall(c)
      PROVE  OwnerInv'
  BY <1>5, OwnerFrame DEF client_send, client_shutdown, client_gone, client_stall, threads
<1>6. ASSUME NEW c \in Conn, listen_accept(c) PROVE OwnerInv'
  <2>1. Accepted = {} /\ Accepted' = {c} /\ up /\ up' /\ c \notin Open
    BY <1>6, ServerAssumption DEF listen_accept, Accepted, Open
  <2>2. Open' = Open \cup {c}
    BY <1>0, <1>6 DEF listen_accept, Open, TypeOK
  <2>3. /\ UNCHANGED <<Range(readq), Range(renderq), Reading, Drawn, ReadersDiffer>>
        /\ UNCHANGED <<IsInjective(readq), IsInjective(renderq)>>
    BY <1>6 DEF listen_accept, Reading, Drawn, ReadersDiffer
  <2>4. NotTwice' /\ Held' = Open'
    BY <1>a, <2>1, <2>2, <2>3 DEF NotTwice, Held, ReadersDiffer
  <2> QED BY <1>b, <2>1, <2>4
<1>7. CASE listen_enqueue
  <2>1. /\ up /\ up' /\ listener \in Conn /\ Accepted = {listener} /\ Accepted' = {}
        /\ UNCHANGED <<Range(renderq), IsInjective(renderq), Drawn, Open>>
    BY <1>0, <1>7 DEF listen_enqueue, Accepted, Drawn, Open, TypeOK
  <2>2. listener \notin Range(readq)
    BY <1>a, <2>1 DEF NotTwice
  <2>3. Range(readq)' = Range(readq) \cup {listener} /\ IsInjective(readq)'
    BY <1>0, <1>7, <1>a, <2>1, <2>2, AppendSet DEF listen_enqueue, NotTwice, TypeOK
  <2>4. Reading' = Reading /\ ReadersDiffer'
    <3>1. CASE UNCHANGED reader
      BY <1>a, <2>1, <3>1 DEF Reading, ReadersDiffer
    <3>2. ASSUME NEW r \in At("wait"), reader' = [reader EXCEPT ![r] = idle]
          PROVE  Reading' = Reading /\ ReadersDiffer'
      <4>1. r \in Reader /\ reader[r].cs = NoConn /\ NoConn \notin Reading
        BY <1>0, <3>2 DEF At, HasSession, Reading
      <4>2. /\ Reading' = (Reading \ {reader[r].cs}) \cup ({idle.cs} \ {NoConn})
            /\ ReadersDiffer'
        BY <1>a, <2>1, <3>2, <4>1, ReadingMoves, IdleType
      <4> QED BY <4>1, <4>2, IdleType
    <3> QED BY <1>7, <3>1, <3>2 DEF listen_enqueue
  <2>5. NotTwice' /\ Held' = Open'
    BY <1>a, <2>1, <2>2, <2>3, <2>4 DEF NotTwice, Held, ReadersDiffer
  <2> QED BY <1>b, <2>1, <2>5
<1>8. ASSUME NEW r \in Reader, reader_look(r) PROVE OwnerInv'
  <2>1. CASE readq = <<>>
    <3>1. \A q \in Reader : reader'[q].cs = reader[q].cs
      <4>1. reader' = [reader EXCEPT ![r] = asleep] /\ reader[r].pc = "look"
        BY <1>8, <2>1 DEF reader_look
      <4>2. reader[r].cs = NoConn /\ reader \in [Reader -> [pc : ReaderPC, cs : Conn \cup {NoConn}]]
        BY <1>0, <4>1 DEF TypeOK, HasSession
      <4> QED BY <4>1, <4>2, IdleType
    <3> QED BY <1>8, <2>1, <3>1, OwnerFrame DEF reader_look
  <2>2. CASE readq # <<>>
    <3> DEFINE c == Head(readq)
               x == [pc |-> "read", cs |-> c]
    <3>1. /\ up /\ up' /\ UNCHANGED <<Range(renderq), IsInjective(renderq), Accepted, Drawn, Open>>
          /\ reader[r].cs = NoConn /\ NoConn \notin Reading
      BY <1>0, <1>8 DEF reader_look, Accepted, Drawn, Open, HasSession, Reading
    <3>2. /\ c \in Conn /\ c # NoConn /\ c \in Range(readq)
          /\ Range(readq) = Range(readq') \cup {c}
          /\ IsInjective(readq') /\ c \notin Range(readq')
      <4>1. readq \in Seq(Conn) /\ readq' = Tail(readq) /\ IsInjective(readq)
        BY <1>0, <1>8, <1>a, <2>2, <3>1 DEF reader_look, NotTwice, TypeOK
      <4>2. /\ c \in Conn /\ c \in Range(readq) /\ Range(readq) = Range(Tail(readq)) \cup {c}
            /\ IsInjective(Tail(readq)) /\ c \notin Range(Tail(readq))
        BY <2>2, <4>1, TailSet
      <4> QED BY <4>1, <4>2, ServerAssumption
    <3>3. c \notin Reading
      BY <1>a, <3>1, <3>2 DEF NotTwice
    <3>4. /\ x \in [pc : ReaderPC, cs : Conn \cup {NoConn}] /\ x.cs = c
          /\ reader' = [reader EXCEPT ![r] = x]
      BY <1>8, <2>2, <3>2 DEF reader_look, ReaderPC
    <3> HIDE DEF x
    <3>5. Reading' = Reading \cup {c} /\ ReadersDiffer'
      <4>1. /\ Reading' = (Reading \ {reader[r].cs}) \cup ({x.cs} \ {NoConn})
            /\ ReadersDiffer'
        BY <1>a, <3>1, <3>3, <3>4, ReadingMoves
      <4> QED BY <3>1, <3>2, <3>4, <4>1
    <3>6. NotTwice' /\ Held' = Open'
      BY <1>a, <3>1, <3>2, <3>3, <3>5 DEF NotTwice, Held, ReadersDiffer
    <3> QED BY <1>b, <3>1, <3>6
  <2> QED BY <2>1, <2>2
<1>9. ASSUME NEW r \in Reader, reader_spurious(r) PROVE OwnerInv'
  <2>1. \A q \in Reader : reader'[q].cs = reader[q].cs
    BY <1>0, <1>9, IdleType DEF reader_spurious, TypeOK, HasSession
  <2> QED BY <1>9, <2>1, OwnerFrame DEF reader_spurious
<1>10. ASSUME NEW r \in Reader,
              reader_data(r) \/ reader_eof(r) \/ reader_timeout(r) \/ reader_block(r)
       PROVE  OwnerInv'
  <2>1. \E l \in {"read", "drop", "enqueue", "block"} :
           reader' = [reader EXCEPT ![r] = goto(@, l)]
    BY <1>10 DEF reader_data, reader_eof, reader_timeout, reader_block
  <2>2. \A q \in Reader : reader'[q].cs = reader[q].cs
    BY <1>0, <2>1 DEF goto, TypeOK
  <2> QED BY <1>10, <2>2, OwnerFrame DEF reader_data, reader_eof, reader_timeout, reader_block
<1>11. ASSUME NEW r \in Reader, reader_error(r) PROVE OwnerInv'
  BY <1>2, <1>11 DEF reader_error
<1>12. ASSUME NEW r \in Reader, reader_enqueue(r) \/ reader_drop(r) PROVE OwnerInv'
  <2> DEFINE c == reader[r].cs
  <2>1. /\ up /\ up' /\ c \in Conn /\ c \in Reading
        /\ UNCHANGED <<Range(readq), IsInjective(readq), Accepted>>
    <3>1. reader[r].pc \in {"enqueue", "drop"} /\ up /\ (up' = up) /\ UNCHANGED <<readq, listener>>
      BY <1>12 DEF reader_enqueue, reader_drop
    <3>2. c \in Conn \cup {NoConn} /\ c # NoConn
      <4>1. reader[r] \in [pc : ReaderPC, cs : Conn \cup {NoConn}]
        BY <1>0 DEF TypeOK
      <4>2. c = NoConn <=> reader[r].pc \in {"look", "wait"}
        BY <1>0 DEF HasSession
      <4> QED BY <3>1, <4>1, <4>2
    <3> QED BY <3>1, <3>2 DEF Reading, Accepted
  <2>2. Reading' = Reading \ {c} /\ ReadersDiffer'
    BY <1>12, <1>a, <2>1, ReadingMoves, IdleType DEF reader_enqueue, reader_drop
  <2>3. Drawn' = Drawn
    BY <1>0, <1>12, IdleType DEF reader_enqueue, reader_drop, Drawn, HasSession
  <2>4. CASE reader_enqueue(r)
    <3>1. c \notin Range(renderq)
      BY <1>a, <2>1 DEF NotTwice
    <3>2. Range(renderq)' = Range(renderq) \cup {c} /\ IsInjective(renderq)' /\ Open' = Open
      BY <1>0, <1>a, <2>1, <2>4, <3>1, AppendSet, SMTT(40) DEF reader_enqueue, NotTwice, TypeOK, Open
    <3> HIDE DEF c
    <3>3. NotTwice' /\ Held' = Open'
      BY <1>a, <2>1, <2>2, <2>3, <3>1, <3>2 DEF NotTwice, Held, ReadersDiffer
    <3> QED BY <1>b, <2>1, <3>3
  <2>5. CASE reader_drop(r)
    <3>1. UNCHANGED <<Range(renderq), IsInjective(renderq)>> /\ Open' = Open \ {c}
      BY <1>0, <2>1, <2>5 DEF reader_drop, TypeOK, Open
    <3> HIDE DEF c
    <3>2. NotTwice' /\ Held' = Open'
      BY <1>a, <2>1, <2>2, <2>3, <3>1 DEF NotTwice, Held, ReadersDiffer
    <3> QED BY <1>b, <2>1, <3>2
  <2> QED BY <1>12, <2>4, <2>5
<1>13. CASE render_look
  <2>1. CASE renderq = <<>>
    <3>1. render' = goto(render, "info") /\ UNCHANGED <<fd, up, readq, renderq, listener, reader>>
      BY <1>13, <2>1 DEF render_look
    <3>2. render'.cs = render.cs
      BY <3>1 DEF goto
    <3> QED BY <3>1, <3>2, OwnerFrame
  <2>2. CASE renderq # <<>>
    <3> DEFINE c == Head(renderq)
    <3>1. /\ up /\ up' /\ UNCHANGED <<Range(readq), IsInjective(readq), Accepted, Reading,
                                     ReadersDiffer, Open>>
          /\ Drawn = {}
      BY <1>0, <1>13 DEF render_look, Accepted, Drawn, Open, HasSession, Reading, ReadersDiffer
    <3>2. /\ c \in Conn /\ c # NoConn /\ c \in Range(renderq)
          /\ Range(renderq) = Range(renderq') \cup {c}
          /\ IsInjective(renderq') /\ c \notin Range(renderq')
      <4>1. renderq \in Seq(Conn) /\ renderq' = Tail(renderq) /\ IsInjective(renderq)
        BY <1>0, <1>13, <1>a, <2>2, <3>1 DEF render_look, NotTwice, TypeOK
      <4>2. /\ c \in Conn /\ c \in Range(renderq) /\ Range(renderq) = Range(Tail(renderq)) \cup {c}
            /\ IsInjective(Tail(renderq)) /\ c \notin Range(Tail(renderq))
        BY <2>2, <4>1, TailSet
      <4> QED BY <4>1, <4>2, ServerAssumption
    <3>3. Drawn' = {c}
      BY <1>13, <2>2, <3>2 DEF render_look, Drawn
    <3> HIDE DEF c
    <3>4. NotTwice' /\ Held' = Open'
      BY <1>a, <3>1, <3>2, <3>3 DEF NotTwice, Held, ReadersDiffer
    <3> QED BY <1>b, <3>1, <3>4
  <2> QED BY <2>1, <2>2
<1>14. CASE render_info \/ render_timedout
  BY <1>0, <1>14, IdleType, OwnerFrame DEF render_info, render_timedout, HasSession
<1>15. ASSUME NEW l, render' = goto(render, l),
              UNCHANGED <<fd, up, readq, renderq, listener, reader>>
       PROVE  OwnerInv'
  BY <1>15, OwnerFrame DEF goto
<1>16. CASE render_exists \/ render_load
  BY <1>15, <1>16 DEF render_exists, render_load
<1>17. CASE render_clone \/ render_copy
  BY <1>2, <1>15, <1>17 DEF render_clone, render_copy
<1>18. CASE render_write \/ render_snap
  BY <1>2, <1>15, <1>18 DEF render_write, render_snap
<1>19. CASE render_close
  <2> DEFINE c == render.cs
  <2>1. /\ up /\ up' /\ c \in Conn /\ Drawn = {c} /\ Drawn' = {}
        /\ UNCHANGED <<Range(readq), IsInjective(readq), Range(renderq), IsInjective(renderq),
                       Accepted, Reading, ReadersDiffer>>
    BY <1>0, <1>19, IdleType
    DEF render_close, Accepted, Drawn, TypeOK, HasSession, Reading, ReadersDiffer
  <2>2. Open' = Open \ {c}
    BY <1>0, <1>19, <2>1 DEF render_close, TypeOK, Open
  <2> HIDE DEF c
  <2>3. NotTwice' /\ Held' = Open'
    BY <1>a, <2>1, <2>2 DEF NotTwice, Held, ReadersDiffer
  <2> QED BY <1>b, <2>1, <2>3
<1> QED
  BY <1>1, <1>3, <1>4, <1>5, <1>6, <1>7, <1>8, <1>9, <1>10, <1>11, <1>12, <1>13, <1>14,
     <1>16, <1>17, <1>18, <1>19
  DEF Next, ReaderStep, RenderStep

-----------------------------------------------------------------------------
(* No wakeup is lost.                                                      *)

WakeInv == NoLostWakeup /\ RenderAwake

LEMMA AtFinite == \A l : IsFiniteSet(At(l)) /\ Cardinality(At(l)) \in Nat
<1> TAKE l
<1>1. At(l) \subseteq Reader
  BY DEF At
<1> QED BY <1>1, FS_Subset, FS_CardinalityType, ServerAssumption

(* A thread that begins to look is one more that looks, and sleeps no more *)
LEMMA MoreLook ==
    ASSUME TypeInv, NEW r \in Reader, reader[r].pc # "look",
           reader' = [reader EXCEPT ![r] = idle]
    PROVE  /\ Cardinality(At("look")') = Cardinality(At("look")) + 1
           /\ At("wait")' \subseteq At("wait")
<1>1. \A q \in Reader : reader'[q] = IF q = r THEN idle ELSE reader[q]
  BY DEF TypeInv, TypeOK
<1>2. At("look")' = At("look") \cup {r} /\ r \notin At("look") /\ At("wait")' \subseteq At("wait")
  BY <1>1, IdleType DEF At
<1> QED BY <1>2, AtFinite, FS_AddElement

LEMMA LessLook ==
    ASSUME TypeInv, NEW r \in Reader, reader[r].pc = "look",
           NEW x \in [pc : ReaderPC, cs : Conn \cup {NoConn}],
           reader' = [reader EXCEPT ![r] = x], x.pc # "look"
    PROVE  Cardinality(At("look")') = Cardinality(At("look")) - 1
<1>1. \A q \in Reader : reader'[q] = IF q = r THEN x ELSE reader[q]
  BY DEF TypeInv, TypeOK
<1>2. At("look")' = At("look") \ {r} /\ r \in At("look")
  BY <1>1 DEF At
<1> QED BY <1>2, AtFinite, FS_RemoveElement

LEMMA WakeInit == Init => WakeInv
<1> SUFFICES ASSUME Init PROVE WakeInv
  OBVIOUS
<1>1. At("wait") = {} /\ render.pc # "wait"
  BY DEF Init, At, idle
<1> QED BY <1>1 DEF WakeInv, NoLostWakeup, RenderAwake

LEMMA WakeStep == TypeInv /\ TypeInv' /\ WakeInv /\ [Next]_vars => WakeInv'
<1> SUFFICES ASSUME TypeInv, TypeInv', WakeInv, [Next]_vars PROVE WakeInv'
  OBVIOUS
<1>0. /\ readq \in Seq(Conn) /\ renderq \in Seq(Conn) /\ HasSession
      /\ Len(readq) \in Nat /\ Len(readq') \in Nat
  <2>1. readq \in Seq(Conn) /\ renderq \in Seq(Conn) /\ HasSession
    BY DEF TypeInv, TypeOK
  <2>2. readq' \in Seq(Conn)
    BY DEF TypeInv, TypeOK
  <2> QED BY <2>1, <2>2
<1>c. /\ Cardinality(At("look")) \in Nat /\ Cardinality(At("look")') \in Nat
  <2>1. /\ Cardinality(At("look")) \in Nat
    BY AtFinite
  <2>2. At("look")' \subseteq Reader
    BY DEF At
  <2>3. Cardinality(At("look")') \in Nat
    BY <2>2, FS_Subset, FS_CardinalityType, ServerAssumption
  <2> QED BY <2>1, <2>3
<1>a. ASSUME UNCHANGED <<up, readq, reader>> PROVE NoLostWakeup'
  BY <1>a DEF WakeInv, NoLostWakeup, At
<1>b. ASSUME UNCHANGED <<up, renderq, render>> PROVE RenderAwake'
  BY <1>b DEF WakeInv, RenderAwake
<1>d. ASSUME ~up' PROVE WakeInv'
  BY <1>d DEF WakeInv, NoLostWakeup, RenderAwake
<1>1. CASE UNCHANGED vars
  BY <1>1, <1>a, <1>b DEF vars, threads, WakeInv
<1>2. CASE killed
  BY <1>2, <1>d DEF killed, exit
<1>3. CASE restart
  <2>1. At("wait")' = {} /\ render'.pc = "look"
    BY <1>3 DEF restart, StartThreads, At, idle
  <2> QED BY <2>1 DEF WakeInv, NoLostWakeup, RenderAwake
<1>4. ASSUME NEW c \in Conn,
             \/ listen_accept(c) \/ client_send(c) \/ client_shutdown(c)
             \/ client_gone(c) \/ client_stall(c)
      PROVE  WakeInv'
  BY <1>4, <1>a, <1>b
  DEF listen_accept, client_send, client_shutdown, client_gone, client_stall, threads, WakeInv
<1>5. CASE listen_enqueue
  <2>1. RenderAwake' /\ up /\ Len(readq') = Len(readq) + 1
    BY <1>0, <1>5, <1>b DEF listen_enqueue, TypeInv, TypeOK
  <2>2. CASE At("wait") = {}
    BY <1>5, <2>1, <2>2 DEF listen_enqueue, WakeInv, NoLostWakeup, At
  <2>3. CASE At("wait") # {}
    <3>1. PICK r \in At("wait") : reader' = [reader EXCEPT ![r] = idle]
      BY <1>5, <2>3 DEF listen_enqueue
    <3>2. r \in Reader /\ reader[r].pc # "look"
      BY <3>1 DEF At
    <3>3. Cardinality(At("look")') = Cardinality(At("look")) + 1
      BY <3>1, <3>2, MoreLook
    <3>4. Len(readq) <= Cardinality(At("look"))
      BY <2>1, <2>3 DEF WakeInv, NoLostWakeup
    <3>5. Len(readq') <= Cardinality(At("look")')
      BY <1>0, <1>c, <2>1, <3>3, <3>4
    <3> QED BY <2>1, <3>5 DEF WakeInv, NoLostWakeup
  <2> QED BY <2>2, <2>3
<1>6. ASSUME NEW r \in Reader, reader_look(r) PROVE WakeInv'
  <2>1. RenderAwake' /\ up /\ reader[r].pc = "look"
    BY <1>6, <1>b DEF reader_look
  <2>2. CASE readq = <<>>
    <3>1. Len(readq') = 0
      BY <1>6, <2>2 DEF reader_look
    <3> QED BY <1>c, <2>1, <3>1 DEF WakeInv, NoLostWakeup
  <2>3. CASE readq # <<>>
    <3> DEFINE x == [pc |-> "read", cs |-> Head(readq)]
    <3>1. Len(readq') = Len(readq) - 1 /\ Head(readq) \in Conn
      BY <1>0, <1>6, <2>3 DEF reader_look
    <3>2. /\ x \in [pc : ReaderPC, cs : Conn \cup {NoConn}] /\ x.pc = "read"
          /\ reader' = [reader EXCEPT ![r] = x]
      BY <1>6, <2>3, <3>1 DEF reader_look, ReaderPC
    <3> HIDE DEF x
    <3>3. Cardinality(At("look")') = Cardinality(At("look")) - 1
      BY <2>1, <3>2, LessLook
    <3>4. At("wait")' \subseteq At("wait")
      BY <3>2 DEF At, TypeInv, TypeOK
    <3>5. At("wait")' # {} => Len(readq) <= Cardinality(At("look"))
      BY <2>1, <3>4 DEF WakeInv, NoLostWakeup
    <3>6. At("wait")' # {} => Len(readq') <= Cardinality(At("look")')
      BY <1>0, <1>c, <3>1, <3>3, <3>5
    <3> QED BY <2>1, <3>6 DEF WakeInv, NoLostWakeup
  <2> QED BY <2>2, <2>3
<1>7. ASSUME NEW r \in Reader,
             reader_spurious(r) \/ reader_enqueue(r) \/ reader_drop(r)
      PROVE  WakeInv'
  <2>1. /\ reader[r].pc # "look" /\ reader' = [reader EXCEPT ![r] = idle]
        /\ up /\ readq' = readq
    BY <1>7 DEF reader_spurious, reader_enqueue, reader_drop
  <2>2. /\ Cardinality(At("look")') = Cardinality(At("look")) + 1
        /\ At("wait")' \subseteq At("wait")
    BY <2>1, MoreLook
  <2>3. At("wait")' # {} => Len(readq) <= Cardinality(At("look"))
    BY <2>1, <2>2 DEF WakeInv, NoLostWakeup
  <2>4. NoLostWakeup'
    BY <1>0, <1>c, <2>1, <2>2, <2>3 DEF NoLostWakeup
  <2>5. RenderAwake'
    BY <1>7, <1>b, IdleType DEF reader_spurious, reader_enqueue, reader_drop, RenderAwake
  <2> QED BY <2>4, <2>5 DEF WakeInv
<1>8. ASSUME NEW r \in Reader,
             reader_data(r) \/ reader_eof(r) \/ reader_timeout(r) \/ reader_block(r)
      PROVE  WakeInv'
  <2>1. /\ reader[r].pc \in {"read", "block"} /\ UNCHANGED <<up, readq, renderq, render>>
        /\ \E l \in {"read", "drop", "enqueue", "block"} :
              reader' = [reader EXCEPT ![r] = goto(@, l)]
    BY <1>8 DEF reader_data, reader_eof, reader_timeout, reader_block
  <2>2. At("look")' = At("look") /\ At("wait")' = At("wait")
    BY <2>1, SMTT(40) DEF At, goto, TypeInv, TypeOK
  <2> QED BY <2>1, <2>2, <1>b DEF WakeInv, NoLostWakeup
<1>9. ASSUME NEW r \in Reader, reader_error(r) PROVE WakeInv'
  BY <1>9, <1>d DEF reader_error, exit
<1>10. ASSUME UNCHANGED <<readq, reader>>, up' = up \/ ~up',
              render'.pc # "wait" \/ renderq' = <<>>
       PROVE  WakeInv'
  BY <1>10, <1>a, <1>d DEF WakeInv, RenderAwake
<1>11. CASE render_look \/ render_info \/ render_timedout
  BY <1>10, <1>11, IdleType DEF render_look, render_info, render_timedout, goto
<1>12. ASSUME NEW l, l # "wait", render' = goto(render, l), UNCHANGED <<readq, reader, up>>
       PROVE  WakeInv'
  <2>1. render'.pc = l
    BY <1>12 DEF goto, TypeInv, TypeOK
  <2> QED BY <1>10, <1>12, <2>1
<1>13. CASE render_exists \/ render_load
  BY <1>12, <1>13 DEF render_exists, render_load
<1>14. CASE render_clone \/ render_copy
  BY <1>d, <1>12, <1>14 DEF render_clone, render_copy, exit
<1>15. CASE render_write \/ render_snap
  BY <1>d, <1>12, <1>15 DEF render_write, render_snap, exit
<1>16. CASE render_close
  BY <1>10, <1>16, IdleType DEF render_close
<1> QED
  BY <1>1, <1>2, <1>3, <1>4, <1>5, <1>6, <1>7, <1>8, <1>9, <1>11, <1>13, <1>14, <1>15, <1>16
  DEF Next, ReaderStep, RenderStep

-----------------------------------------------------------------------------
(* What the GLUT thread knows about the clone it works on.                 *)

(* A clone is "part" only while the GLUT thread of a living server copies  *)
(* it, and "left" only when a server has died since.                       *)
CloneInv ==
    /\ up /\ render.pc = "clone" => disk[Sid[render.cs]] = "dir"
    /\ up /\ render.pc = "copy" => disk[Sid[render.cs]] = "part"
    /\ up /\ render.pc = "load" => disk[Sid[render.cs]] # "none"
    /\ up /\ render.pc \in {"write", "snap"} => disk[Sid[render.cs]] \in Ended
    /\ \A s \in Session :
          /\ disk[s] = "part" => up /\ render.pc = "copy" /\ Sid[render.cs] = s
          /\ disk[s] = "left" => starts > 0 \/ ~up
    /\ \A c \in Conn : reply[c] # "none" => disk[Sid[c]] \in Ended
    /\ PictureOfClone

LEMMA CloneInit == Init => CloneInv
BY ServerAssumption DEF Init, CloneInv, PictureOfClone, idle

Frozen == \A s \in Session : disk[s] \in Ended => disk'[s] = disk[s]

LEMMA CloneStep == TypeInv /\ CloneInv /\ [Next]_vars => CloneInv' /\ Frozen
<1> SUFFICES ASSUME TypeInv, CloneInv, [Next]_vars PROVE CloneInv' /\ Frozen
  OBVIOUS
<1>0. TypeOK /\ HasSession /\ Sid \in [Conn -> Session]
  BY ServerAssumption DEF TypeInv
<1>t. ASSUME render.pc \notin {"look", "info", "wait"}
      PROVE  render.cs \in Conn /\ Sid[render.cs] \in Session
  BY <1>0, <1>t DEF TypeOK, HasSession
(* Steps that leave the disk alone.                                        *)
<1>a. ASSUME UNCHANGED <<up, starts, reply, disk>>,
             render' = render \/ render' = idle \/ render' = asleep
                \/ render'.pc \in {"info", "exists", "close"},
             ~up \/ render.pc # "copy" \/ render' = render
      PROVE  CloneInv' /\ Frozen
  BY <1>0, <1>a, IdleType DEF CloneInv, PictureOfClone, Frozen
<1>b. ASSUME exit PROVE CloneInv' /\ Frozen
  <2>1. /\ ~up' /\ UNCHANGED <<starts, reply, render>>
        /\ \A s \in Session : disk'[s] = IF disk[s] = "part" THEN "left" ELSE disk[s]
    BY <1>b DEF exit, threads
  <2>2. \A c \in Conn : Sid[c] \in Session
    BY <1>0
  <2> QED BY <2>1, <2>2 DEF CloneInv, PictureOfClone, Frozen, Ended
<1>1. CASE UNCHANGED vars
  BY <1>1, <1>a DEF vars, threads
<1>2. CASE killed
  BY <1>2, <1>b DEF killed
<1>3. CASE restart
  <2>1. starts' > 0 /\ starts' > starts /\ render' = idle /\ UNCHANGED <<reply, disk>> /\ ~up
    BY <1>0, <1>3 DEF restart, StartThreads, TypeOK
  <2> QED BY <1>0, <2>1, IdleType DEF CloneInv, PictureOfClone, Frozen, TypeOK
<1>4. ASSUME NEW c \in Conn,
             \/ listen_accept(c) \/ client_send(c) \/ client_shutdown(c)
             \/ client_gone(c) \/ client_stall(c)
      PROVE  CloneInv' /\ Frozen
  BY <1>4, <1>a
  DEF listen_accept, client_send, client_shutdown, client_gone, client_stall, threads
<1>5. CASE listen_enqueue
  BY <1>5, <1>a DEF listen_enqueue
<1>6. ASSUME NEW r \in Reader,
             reader_look(r) \/ reader_spurious(r) \/ reader_data(r) \/ reader_eof(r)
                \/ reader_timeout(r) \/ reader_block(r) \/ reader_drop(r)
      PROVE  CloneInv' /\ Frozen
  BY <1>6, <1>a
  DEF reader_look, reader_spurious, reader_data, reader_eof, reader_timeout,
      reader_block, reader_drop
<1>7. ASSUME NEW r \in Reader, reader_enqueue(r) PROVE CloneInv' /\ Frozen
  BY <1>7, <1>a DEF reader_enqueue
<1>8. ASSUME NEW r \in Reader, reader_error(r) PROVE CloneInv' /\ Frozen
  BY <1>8, <1>b DEF reader_error
<1>9. CASE render_look
  <2>1. render'.pc \in {"info", "exists"}
    BY <1>0, <1>9 DEF render_look, goto, TypeOK
  <2> QED BY <1>9, <1>a, <2>1 DEF render_look
<1>10. CASE render_info \/ render_timedout \/ render_close
  BY <1>10, <1>a DEF render_info, render_timedout, render_close
<1>g. ASSUME NEW l, render' = goto(render, l) PROVE render'.pc = l /\ render'.cs = render.cs
  BY <1>0, <1>g DEF goto, TypeOK
(* Steps of the GLUT thread that write to the clone of its session.        *)
<1>12. ASSUME NEW d, NEW l,
              \/ render.pc = "exists" /\ disk[Sid[render.cs]] = "none"
                 /\ d = "dir" /\ l = "clone"
              \/ render.pc = "clone" /\ d = "part" /\ l = "copy"
              \/ render.pc = "copy" /\ d \in {"short", "whole"} /\ l = "load",
              up, render' = goto(render, l),
              disk' = [disk EXCEPT ![Sid[render.cs]] = d],
              UNCHANGED <<up, starts, reply>>
       PROVE  CloneInv' /\ Frozen
  <2> DEFINE s == Sid[render.cs]
  <2>1. s \in Session /\ render'.pc = l /\ Sid[render'.cs] = s
    BY <1>12, <1>t, <1>g
  <2>2. \A q \in Session : disk'[q] = IF q = s THEN d ELSE disk[q]
    BY <1>0, <1>12, <2>1 DEF TypeOK
  <2>3. \A c \in Conn : Sid[c] \in Session
    BY <1>0
  <2>4. disk[s] \notin Ended
    BY <1>12 DEF CloneInv, Ended
  <2>5. \A q \in Session : disk[q] = "part" => q = s
    BY <1>12 DEF CloneInv
  <2>6. \A c \in Conn : reply[c] # "none" => disk[Sid[c]] \in Ended
    BY DEF CloneInv
  <2>7. \A c \in Conn : reply[c] # "none" => Sid[c] # s /\ disk'[Sid[c]] = disk[Sid[c]]
    BY <2>2, <2>3, <2>4, <2>6
  <2> HIDE DEF s
  <2>8. PictureOfClone'
    BY <1>12, <2>7 DEF CloneInv, PictureOfClone
  <2>9. Frozen
    BY <2>2, <2>4 DEF Frozen
  <2>10. \A c \in Conn : reply'[c] # "none" => disk'[Sid[c]] \in Ended
    BY <1>12, <2>6, <2>7
  <2>11. \A q \in Session :
            /\ disk'[q] = "part" => render'.pc = "copy" /\ q = s
            /\ disk'[q] = "left" => starts > 0
    BY <1>12, <2>1, <2>2, <2>5 DEF CloneInv
  <2>12. disk'[s] = d /\ up'
    BY <1>12, <2>1, <2>2
  <2> QED BY <1>12, <2>1, <2>8, <2>9, <2>10, <2>11, <2>12 DEF CloneInv
<1>11. CASE render_exists
  <2>1. CASE disk[Sid[render.cs]] = "none"
    BY <1>11, <1>12, <2>1 DEF render_exists
  <2>2. CASE disk[Sid[render.cs]] # "none"
    <3>1. /\ UNCHANGED <<up, starts, reply, disk>> /\ render'.pc = "load"
          /\ Sid[render'.cs] = Sid[render.cs] /\ render.pc = "exists"
      BY <1>11, <1>g, <2>2 DEF render_exists
    <3> QED BY <2>2, <3>1 DEF CloneInv, PictureOfClone, Frozen
  <2> QED BY <2>1, <2>2
<1>13. CASE render_clone
  BY <1>12, <1>13, <1>b DEF render_clone
<1>14. CASE render_copy
  BY <1>12, <1>14, <1>b DEF render_copy
<1>15. CASE render_load
  <2>1. /\ UNCHANGED <<up, starts, reply, disk>> /\ render.pc = "load" /\ up
        /\ Sid[render'.cs] = Sid[render.cs] /\ Sid[render.cs] \in Session
        /\ disk[Sid[render.cs]] \in Clone
    BY <1>0, <1>15, <1>g, <1>t DEF render_load, TypeOK
  <2>2. render'.pc = IF disk[Sid[render.cs]] = "dir" THEN "close" ELSE "write"
    BY <1>15, <1>g DEF render_load
  <2>3. disk[Sid[render.cs]] = "dir" \/ disk[Sid[render.cs]] \in Ended
    BY <2>1 DEF CloneInv, Clone, Ended
  <2> QED BY <2>1, <2>2, <2>3 DEF CloneInv, PictureOfClone, Frozen
<1>16. ASSUME NEW c, c = render.cs, NEW v, NEW l, l \in {"snap", "close"},
              render.pc \in {"write", "snap"}, up, render' = goto(render, l),
              reply' = [reply EXCEPT ![c] = v], UNCHANGED <<up, starts, disk>>
       PROVE  CloneInv' /\ Frozen
  <2>1. render'.pc = l /\ Sid[render'.cs] = Sid[c]
    BY <1>16, <1>g
  <2>2. \A q \in Conn : reply'[q] # "none" => q = c \/ reply[q] # "none"
    BY <1>0, <1>16 DEF TypeOK
  <2>3. disk[Sid[c]] \in Ended /\ Sid[c] \in Session
    BY <1>16, <1>t DEF CloneInv
  <2>4. disk[Sid[c]] = "left" => starts > 0
    BY <1>16, <2>3 DEF CloneInv
  <2>5. PictureOfClone'
    BY <1>16, <2>2, <2>3, <2>4 DEF CloneInv, PictureOfClone, Ended
  <2> QED BY <1>16, <2>1, <2>2, <2>3, <2>5 DEF CloneInv, Frozen
<1>17. CASE render_write
  BY <1>16, <1>17, <1>b DEF render_write
<1>18. CASE render_snap
  BY <1>16, <1>18, <1>b DEF render_snap
<1> QED
  BY <1>1, <1>2, <1>3, <1>4, <1>5, <1>6, <1>7, <1>8, <1>9, <1>10, <1>11, <1>13, <1>14,
     <1>15, <1>17, <1>18
  DEF Next, ReaderStep, RenderStep

-----------------------------------------------------------------------------
(* What has been read of a request, wherever its session is.               *)

Lines(c)    == unread[c] % 2 = half[c]
Complete(c) == eof[c] /\ unread[c] = 0 /\ half[c] = 0
Busy        == {"read", "block"}

AnswerInv ==
    /\ \A c \in Conn : fd[c] = "none" => Lines(c)
    /\ up => \A c \in Range(readq) \cup Accepted : Lines(c)
    /\ up => \A r \in Reader : /\ reader[r].pc \in Busy => Lines(reader[r].cs)
                               /\ reader[r].pc = "enqueue" => Complete(reader[r].cs)
    /\ up => \A c \in Range(renderq) \cup Drawn : Complete(c)
    /\ AnswerWhole

LEMMA AnswerInit == Init => AnswerInv
<1> SUFFICES ASSUME Init PROVE AnswerInv
  OBVIOUS
<1>1. \A c \in Conn : Lines(c) /\ reply[c] = "none"
  BY DEF Init, Lines
<1>2. Range(readq) = {} /\ Range(renderq) = {} /\ Accepted = {} /\ Drawn = {}
  BY DEF Init, Range, Accepted, Drawn, idle
<1>3. \A r \in Reader : reader[r].pc = "look"
  BY DEF Init, idle
<1> QED BY <1>1, <1>2, <1>3 DEF AnswerInv, AnswerWhole, Busy

(* Steps that read nothing and send nothing, and put no session where more *)
(* must be known of it.                                                    *)
LEMMA AnswerFrame ==
    ASSUME TypeInv, AnswerInv, UNCHANGED <<half, unread, eof>>,
           \A c \in Conn : fd'[c] = "none" => fd[c] = "none",
           \A c \in Conn : reply'[c] # "none" => reply[c] # "none" \/ Complete(c),
           up' => /\ \A c \in Range(readq') \cup Accepted' : Lines(c)
                  /\ \A r \in Reader : /\ reader'[r].pc \in Busy => Lines(reader'[r].cs)
                                       /\ reader'[r].pc = "enqueue" => Complete(reader'[r].cs)
                  /\ \A c \in Range(renderq') \cup Drawn' : Complete(c)
    PROVE  AnswerInv'
BY DEF AnswerInv, AnswerWhole, Lines, Complete

LEMMA AnswerStep == TypeInv /\ TypeInv' /\ OwnerInv /\ AnswerInv /\ [Next]_vars => AnswerInv'
<1> SUFFICES ASSUME TypeInv, TypeInv', OwnerInv, AnswerInv, [Next]_vars PROVE AnswerInv'
  OBVIOUS
<1>0. TypeOK /\ HasSession /\ TypeOK' /\ HasSession'
  BY DEF TypeInv
<1>n. NoConn \notin Conn
  BY ServerAssumption
<1>a. ASSUME up
      PROVE  /\ \A c \in Range(readq) \cup Accepted : Lines(c)
             /\ \A r \in Reader : /\ reader[r].pc \in Busy => Lines(reader[r].cs)
                                  /\ reader[r].pc = "enqueue" => Complete(reader[r].cs)
             /\ \A c \in Range(renderq) \cup Drawn : Complete(c)
  BY <1>a DEF AnswerInv
<1>m. ASSUME NEW r \in Reader, NEW x, reader' = [reader EXCEPT ![r] = x]
      PROVE  \A q \in Reader : reader'[q] = IF q = r THEN x ELSE reader[q]
  BY <1>0, <1>m DEF TypeOK
<1>r. Range(readq) \subseteq Conn /\ Range(renderq) \subseteq Conn
  <2>1. ASSUME NEW q \in Seq(Conn) PROVE Range(q) \subseteq Conn
    <3>1. DOMAIN q = 1 .. Len(q) /\ \A i \in 1 .. Len(q) : q[i] \in Conn
      OBVIOUS
    <3> QED BY <3>1 DEF Range
  <2> QED BY <1>0, <2>1 DEF TypeOK
<1>c. /\ \A q \in Reader : reader[q].pc \in {"read", "block", "enqueue"} => reader[q].cs \in Conn
      /\ Accepted \subseteq Conn /\ Drawn \subseteq Conn
  <2>1. ASSUME NEW q \in Reader, reader[q].pc \in {"read", "block", "enqueue"}
        PROVE  reader[q].cs \in Conn
    <3>1. reader[q].cs \in Conn \cup {NoConn}
      BY <1>0 DEF TypeOK
    <3>2. reader[q].cs # NoConn
      BY <1>0, <2>1 DEF HasSession
    <3> QED BY <3>1, <3>2
  <2>2. Accepted \subseteq Conn
    BY <1>0 DEF TypeOK, Accepted
  <2>3. Drawn \subseteq Conn
    BY <1>0 DEF TypeOK, Drawn
  <2> QED BY <2>1, <2>2, <2>3
(* Steps that leave every session where it was.                            *)
<1>s. ASSUME UNCHANGED <<fd, half, unread, eof, up, readq, renderq, listener, reader>>,
             render'.cs = render.cs \/ render'.cs = NoConn,
             \A c \in Conn : reply'[c] # "none" => reply[c] # "none" \/ c \in Drawn,
             up
      PROVE  AnswerInv'
  <2>1. Accepted' = Accepted /\ Drawn' \subseteq Drawn
    BY <1>s DEF Accepted, Drawn
  <2>2. Range(readq') = Range(readq) /\ Range(renderq') = Range(renderq)
    BY <1>s
  <2> QED BY <1>a, <1>s, <2>1, <2>2, AnswerFrame
<1>1. CASE UNCHANGED vars
  BY <1>1 DEF vars, client, threads, AnswerInv, AnswerWhole, Lines, Complete,
              Accepted, Drawn
<1>2. ASSUME exit PROVE AnswerInv'
  <2>1. /\ UNCHANGED <<half, unread, eof, reply>> /\ ~up'
        /\ \A c \in Conn : fd'[c] = "none" => fd[c] = "none"
    BY <1>0, <1>2 DEF exit, client, TypeOK
  <2> QED BY <2>1, AnswerFrame
<1>3. CASE killed
  BY <1>2, <1>3 DEF killed
<1>4. CASE restart
  <2>1. /\ UNCHANGED <<fd, half, unread, eof, reply>>
        /\ Range(readq') = {} /\ Range(renderq') = {} /\ Accepted' = {} /\ Drawn' = {}
        /\ \A r \in Reader : reader'[r].pc = "look"
    BY <1>4 DEF restart, StartThreads, client, Range, Accepted, Drawn, idle
  <2> QED BY <2>1, AnswerFrame DEF Busy
<1>5. ASSUME NEW c \in Conn, client_send(c) PROVE AnswerInv'
  <2>1. /\ \A d \in Conn : half'[d] = (IF d = c THEN 1 - half[d] ELSE half[d])
        /\ \A d \in Conn : unread'[d] = (IF d = c THEN unread[d] + 1 ELSE unread[d])
        /\ \A d \in Conn : half[d] \in {0, 1} /\ unread[d] \in Nat
        /\ ~eof[c] /\ fd[c] = "open"
        /\ UNCHANGED <<fd, eof, reply, up, readq, renderq, listener, reader, render>>
    BY <1>0, <1>5 DEF client_send, threads, TypeOK
  <2>2. \A d \in Conn : Complete(d) => Complete(d)'
    BY <2>1 DEF Complete
  <2>3. ASSUME NEW d \in Conn, Lines(d) PROVE Lines(d)'
    <3>1. unread[d] \in Nat /\ half[d] \in {0, 1} /\ unread[d] % 2 = half[d]
      BY <2>1, <2>3 DEF Lines
    <3>2. (unread[d] + 1) % 2 = 1 - half[d]
      BY <3>1
    <3> QED BY <2>1, <3>1, <3>2 DEF Lines
  <2>4. Accepted' = Accepted /\ Drawn' = Drawn
    BY <2>1 DEF Accepted, Drawn
  <2>6. \A d \in Conn : reply[d] # "none" => Complete(d)
    BY DEF AnswerInv, AnswerWhole, Complete
  <2>7. \A d \in Conn : fd[d] = "none" => Lines(d)
    BY DEF AnswerInv
  <2>8. AnswerWhole'
    BY <2>1, <2>2, <2>6 DEF AnswerWhole, Complete
  <2>9. up => /\ \A d \in Range(readq) \cup Accepted : Lines(d)'
              /\ \A r \in Reader, d \in Conn : reader[r].cs = d =>
                    /\ reader[r].pc \in Busy => Lines(d)'
                    /\ reader[r].pc = "enqueue" => Complete(d)'
              /\ \A d \in Range(renderq) \cup Drawn : Complete(d)'
    BY <1>a, <1>r, <1>c, <2>2, <2>3
  <2>10. \A d \in Conn : fd'[d] = "none" => Lines(d)'
    BY <2>1, <2>3, <2>7
  <2> QED BY <1>c, <2>1, <2>4, <2>8, <2>9, <2>10 DEF AnswerInv, Lines, Complete, Busy
<1>6. ASSUME NEW c \in Conn, client_shutdown(c) PROVE AnswerInv'
  <2>1. /\ \A d \in Conn : eof[d] => eof'[d]
        /\ UNCHANGED <<fd, half, unread, reply, up, readq, renderq, listener, reader, render>>
    BY <1>0, <1>6 DEF client_shutdown, threads, TypeOK
  <2>2. Accepted' = Accepted /\ Drawn' = Drawn
    BY <2>1 DEF Accepted, Drawn
  <2> QED BY <1>r, <1>c, <2>1, <2>2 DEF AnswerInv, AnswerWhole, Lines, Complete
<1>7. ASSUME NEW c \in Conn, client_gone(c) \/ client_stall(c) PROVE AnswerInv'
  <2>1. UNCHANGED <<fd, half, unread, eof, reply, up, readq, renderq, listener, reader, render>>
    BY <1>7 DEF client_gone, client_stall, threads
  <2>2. Accepted' = Accepted /\ Drawn' = Drawn
    BY <2>1 DEF Accepted, Drawn
  <2> QED BY <2>1, <2>2 DEF AnswerInv, AnswerWhole, Lines, Complete
<1>8. ASSUME NEW c \in Conn, listen_accept(c) PROVE AnswerInv'
  <2>1. /\ up /\ UNCHANGED <<half, unread, eof, reply, readq, renderq, reader, render>>
        /\ Accepted' = {c} /\ Drawn' = Drawn /\ Lines(c)
        /\ \A d \in Conn : fd'[d] = "none" => fd[d] = "none"
    BY <1>0, <1>8, <1>n DEF listen_accept, client, Accepted, Drawn, TypeOK, AnswerInv
  <2> QED BY <1>a, <2>1, AnswerFrame
<1>9. CASE listen_enqueue
  <2>1. /\ up /\ UNCHANGED <<fd, half, unread, eof, reply, renderq, render>>
        /\ Accepted' = {} /\ Drawn' = Drawn /\ listener \in Conn /\ listener \in Accepted
    BY <1>0, <1>9 DEF listen_enqueue, client, Accepted, Drawn, TypeOK
  <2>2. Range(readq') = Range(readq) \cup {listener}
    BY <1>0, <1>9, <2>1, AppendSet DEF listen_enqueue, TypeOK
  <2>3. \A q \in Reader : reader'[q] = reader[q] \/ reader'[q].pc = "look"
    <3>1. CASE UNCHANGED reader
      BY <3>1
    <3>2. ASSUME NEW r \in At("wait"), reader' = [reader EXCEPT ![r] = idle]
          PROVE  \A q \in Reader : reader'[q] = reader[q] \/ reader'[q].pc = "look"
      BY <1>m, <3>2, IdleType DEF At
    <3> QED BY <1>9, <3>1, <3>2 DEF listen_enqueue
  <2> QED BY <1>a, <2>1, <2>2, <2>3, AnswerFrame DEF Busy
<1>10. ASSUME NEW r \in Reader, reader_look(r) PROVE AnswerInv'
  <2>1. /\ up /\ UNCHANGED <<fd, half, unread, eof, reply, renderq, listener, render>>
        /\ Accepted' = Accepted /\ Drawn' = Drawn
    BY <1>10 DEF reader_look, client, Accepted, Drawn
  <2>2. CASE readq = <<>>
    <3>1. readq' = readq /\ \A q \in Reader : reader'[q] = reader[q] \/ reader'[q].pc = "wait"
      BY <1>10, <1>m, <2>2, IdleType DEF reader_look
    <3> QED BY <1>a, <2>1, <3>1, AnswerFrame DEF Busy
  <2>3. CASE readq # <<>>
    <3>1. Head(readq) \in Range(readq) /\ Range(readq') \subseteq Range(readq)
      <4>1. readq \in Seq(Conn) /\ readq' = Tail(readq)
        BY <1>0, <1>10, <2>3 DEF reader_look, TypeOK
      <4> QED BY <2>3, <4>1, TailSet
    <3>2. \A q \in Reader : reader'[q] = IF q = r THEN [pc |-> "read", cs |-> Head(readq)]
                                         ELSE reader[q]
      BY <1>10, <1>m, <2>3 DEF reader_look
    <3>3. Lines(Head(readq))
      BY <1>a, <1>r, <2>1, <3>1
    <3> QED BY <1>a, <2>1, <3>1, <3>2, <3>3, AnswerFrame DEF Busy
  <2> QED BY <2>2, <2>3
<1>11. ASSUME NEW r \in Reader,
              reader_spurious(r) \/ reader_timeout(r) \/ reader_drop(r) \/ reader_block(r)
       PROVE  AnswerInv'
  <2>1. /\ up /\ UNCHANGED <<half, unread, eof, reply, readq, renderq, listener, render>>
        /\ Accepted' = Accepted /\ Drawn' = Drawn
    BY <1>11 DEF reader_spurious, reader_timeout, reader_drop, reader_block, client,
                 Accepted, Drawn
  <2>2. \A c \in Conn : fd'[c] = "none" => fd[c] = "none"
    BY <1>0, <1>11 DEF reader_spurious, reader_timeout, reader_drop, reader_block, TypeOK
  <2>3. \A q \in Reader : \/ reader'[q] = reader[q]
                         \/ reader'[q].pc \in {"look", "drop"}
                         \/ /\ reader'[q].pc = "block" /\ reader[q].pc = "read"
                            /\ reader'[q].cs = reader[q].cs
    <3>1. \/ reader' = [reader EXCEPT ![r] = idle]
          \/ reader' = [reader EXCEPT ![r] = goto(@, "drop")]
          \/ reader' = [reader EXCEPT ![r] = goto(@, "block")] /\ reader[r].pc = "read"
      BY <1>11 DEF reader_spurious, reader_timeout, reader_drop, reader_block
    <3>2. \A l : goto(reader[r], l).pc = l /\ goto(reader[r], l).cs = reader[r].cs
      BY <1>0 DEF goto, TypeOK
    <3> QED BY <1>0, <3>1, <3>2, IdleType DEF TypeOK
  <2> QED BY <1>a, <2>1, <2>2, <2>3, AnswerFrame DEF Busy
<1>12. ASSUME NEW r \in Reader, reader_data(r) PROVE AnswerInv'
  <2> DEFINE c == reader[r].cs
  <2>1. /\ c \in Conn /\ up /\ unread[c] > 0 /\ reader[r].pc \in Busy
        /\ UNCHANGED <<fd, half, eof, reply, up, readq, renderq, listener, render>>
        /\ Accepted' = Accepted /\ Drawn' = Drawn /\ fd[c] # "none"
    <3>1. c \in Conn /\ up /\ reader[r].pc \in Busy
      BY <1>0, <1>12 DEF reader_data, TypeOK, HasSession, Busy
    <3>2. fd[c] = "open"
      BY <1>n, <3>1 DEF OwnerInv, OneOwner, Held, Reading
    <3> QED BY <1>12, <3>1, <3>2 DEF reader_data, Accepted, Drawn
  <2>2. PICK k \in 1 .. unread[c], ok \in BOOLEAN :
          /\ unread' = [unread EXCEPT ![c] = @ - k]
          /\ reader' = [reader EXCEPT ![r] = goto(@, IF ok /\ k % 2 = 0 THEN "read" ELSE "drop")]
    BY <1>12 DEF reader_data
  <2>3. \A d \in Conn : d # c => unread'[d] = unread[d]
    BY <1>0, <2>2 DEF TypeOK
  <2>4. \A q \in Reader : q # r => reader'[q] = reader[q]
    BY <1>m, <2>2
  <2>5. \A d \in Conn : Complete(d) => d # c /\ Complete(d)'
    BY <2>1, <2>3 DEF Complete
  <2>6. \A d \in Conn : d # c /\ Lines(d) => Lines(d)'
    BY <2>1, <2>3 DEF Lines
  <2>7. /\ c \notin Range(readq) \cup Accepted
        /\ \A q \in Reader : q # r /\ reader[q].pc \in Busy => reader[q].cs # c
    BY <1>n, <2>1 DEF OwnerInv, OneOwner, NotTwice, Reading
  <2>8. ASSUME reader'[r].pc \in Busy
        PROVE  reader'[r].cs = c /\ unread'[c] % 2 = half'[c]
    <3>1. reader'[r] = goto(reader[r], IF ok /\ k % 2 = 0 THEN "read" ELSE "drop")
      BY <1>0, <2>2 DEF TypeOK
    <3>2. k % 2 = 0 /\ reader'[r].cs = c
      BY <1>0, <2>8, <3>1 DEF goto, TypeOK, Busy
    <3>3. unread[c] % 2 = half[c]
      BY <1>a, <2>1 DEF Lines
    <3>4. unread[c] \in Nat /\ k \in 1 .. unread[c] /\ unread'[c] = unread[c] - k
      BY <1>0, <2>1, <2>2 DEF TypeOK
    <3>5. (unread[c] - k) % 2 = unread[c] % 2
      <4> HIDE DEF c
      <4> QED BY <3>2, <3>4
    <3> QED BY <2>1, <3>2, <3>3, <3>4, <3>5
  <2>9. reader'[r].pc # "enqueue"
    BY <1>0, <2>2 DEF goto, TypeOK
  <2>11. ASSUME NEW q \in Reader
         PROVE  /\ (reader[q].pc \in Busy => Lines(reader[q].cs))'
                /\ (reader[q].pc = "enqueue" => Complete(reader[q].cs))'
    <3>1. CASE q = r
      BY <2>8, <2>9, <3>1 DEF Lines
    <3>2. CASE q # r
      <4> DEFINE d == reader[q].cs
      <4>1. reader'[q] = reader[q]
        BY <2>4, <3>2
      <4>2. /\ reader[q].pc \in Busy => d \in Conn /\ d # c /\ Lines(d)
            /\ reader[q].pc = "enqueue" => d \in Conn /\ Complete(d)
        BY <1>a, <1>c, <2>1, <2>5, <2>7, <3>2 DEF Busy
      <4>3. /\ reader[q].pc \in Busy => unread'[d] % 2 = half'[d]
            /\ reader[q].pc = "enqueue" => eof'[d] /\ unread'[d] = 0 /\ half'[d] = 0
        BY <2>1, <2>3, <2>5, <4>2 DEF Lines, Complete
      <4> QED BY <4>1, <4>3 DEF Lines, Complete
    <3> QED BY <3>1, <3>2
  <2>12. \A d \in Conn : fd'[d] = "none" => Lines(d)'
    BY <2>1, <2>6 DEF AnswerInv
  <2>13. /\ \A d \in Range(readq) \cup Accepted : Lines(d)'
         /\ \A d \in Range(renderq) \cup Drawn : Complete(d)'
    BY <1>a, <1>r, <2>1, <2>5, <2>6, <2>7, <1>c
  <2>14. AnswerWhole'
    BY <2>1, <2>5 DEF AnswerInv, AnswerWhole, Complete
  <2> HIDE DEF c
  <2> QED BY <2>1, <2>11, <2>12, <2>13, <2>14 DEF AnswerInv
<1>13. ASSUME NEW r \in Reader, reader_eof(r) PROVE AnswerInv'
  <2> DEFINE c == reader[r].cs
  <2>1. /\ up /\ UNCHANGED <<fd, half, unread, eof, reply, readq, renderq, listener, render>>
        /\ Accepted' = Accepted /\ Drawn' = Drawn
    BY <1>13 DEF reader_eof, client, Accepted, Drawn
  <2>2. \A q \in Reader : reader'[q] = IF q = r THEN goto(reader[r], "enqueue") ELSE reader[q]
    BY <1>0, <1>13 DEF reader_eof, TypeOK
  <2>3. goto(reader[r], "enqueue").cs = c /\ goto(reader[r], "enqueue").pc = "enqueue"
    BY <1>0 DEF goto, TypeOK
  <2>4. Complete(c)
    <3>1. /\ c \in Conn /\ eof[c] /\ unread[c] = 0 /\ Lines(c)
      BY <1>0, <1>a, <1>13 DEF reader_eof, TypeOK, HasSession, Busy
    <3>2. half[c] = 0
      BY <3>1 DEF Lines
    <3> QED BY <3>1, <3>2 DEF Complete
  <2> QED BY <1>a, <2>1, <2>2, <2>3, <2>4, AnswerFrame DEF Busy
<1>14. ASSUME NEW r \in Reader, reader_error(r) PROVE AnswerInv'
  BY <1>2, <1>14 DEF reader_error
<1>15. ASSUME NEW r \in Reader, reader_enqueue(r) PROVE AnswerInv'
  <2> DEFINE c == reader[r].cs
  <2>1. /\ up /\ UNCHANGED <<fd, half, unread, eof, reply, readq, listener>>
        /\ Accepted' = Accepted /\ Drawn' \subseteq Drawn
        /\ c \in Conn /\ Complete(c)
    BY <1>0, <1>a, <1>15, IdleType
    DEF reader_enqueue, client, Accepted, Drawn, TypeOK, HasSession
  <2>2. Range(renderq') = Range(renderq) \cup {c}
    BY <1>0, <1>15, <2>1, AppendSet DEF reader_enqueue, TypeOK
  <2>3. \A q \in Reader : reader'[q] = reader[q] \/ reader'[q].pc = "look"
    BY <1>15, <1>m, IdleType DEF reader_enqueue
  <2> HIDE DEF c
  <2> QED BY <1>a, <2>1, <2>2, <2>3, AnswerFrame DEF Busy
<1>16. CASE render_look
  <2>1. /\ up /\ UNCHANGED <<fd, half, unread, eof, reply, readq, listener, reader>>
        /\ Accepted' = Accepted
    BY <1>16 DEF render_look, client, Accepted
  <2>2. Range(renderq') \cup Drawn' \subseteq Range(renderq) \cup Drawn
    <3>1. CASE renderq = <<>>
      BY <1>0, <1>16, <3>1 DEF render_look, goto, Drawn, TypeOK
    <3>2. CASE renderq # <<>>
      <4>1. /\ renderq \in Seq(Conn) /\ renderq' = Tail(renderq)
            /\ render' = [pc |-> "exists", cs |-> Head(renderq)]
        BY <1>0, <1>16, <3>2 DEF render_look, TypeOK
      <4>2. Head(renderq) \in Range(renderq) /\ Range(renderq') \subseteq Range(renderq)
        BY <3>2, <4>1, TailSet
      <4> QED BY <4>1, <4>2 DEF Drawn
    <3> QED BY <3>1, <3>2
  <2> QED BY <1>a, <2>1, <2>2, AnswerFrame
<1>g. ASSUME NEW l, render' = goto(render, l) PROVE render'.cs = render.cs
  BY <1>0, <1>g DEF goto, TypeOK
<1>17. CASE render_info \/ render_timedout
  BY <1>17, <1>s, IdleType DEF render_info, render_timedout, client
<1>18. CASE render_exists
  BY <1>18, <1>s, <1>g DEF render_exists, client
<1>19. CASE render_clone
  BY <1>2, <1>19, <1>s, <1>g DEF render_clone, client
<1>20. CASE render_copy
  BY <1>2, <1>20, <1>s, <1>g DEF render_copy, client
<1>21. CASE render_load
  BY <1>21, <1>s, <1>g DEF render_load, client
<1>22. ASSUME NEW v, NEW l, up, render.pc \in {"write", "snap"}, render' = goto(render, l),
              reply' = [reply EXCEPT ![render.cs] = v],
              UNCHANGED <<fd, client, sized, up, starts, readq, renderq, listener, reader>>
       PROVE  AnswerInv'
  <2>1. \A c \in Conn : reply'[c] # "none" => reply[c] # "none" \/ c \in Drawn
    BY <1>0, <1>n, <1>22 DEF TypeOK, Drawn
  <2> QED BY <1>22, <1>s, <1>g, <2>1 DEF client
<1>23. CASE render_write
  BY <1>2, <1>22, <1>23 DEF render_write
<1>24. CASE render_snap
  BY <1>2, <1>22, <1>24 DEF render_snap
<1>25. CASE render_close
  <2>1. /\ up /\ UNCHANGED <<half, unread, eof, reply, readq, renderq, listener, reader>>
        /\ Accepted' = Accepted /\ Drawn' = {}
        /\ \A c \in Conn : fd'[c] = "none" => fd[c] = "none"
    BY <1>0, <1>25, IdleType DEF render_close, client, Accepted, Drawn, TypeOK
  <2> QED BY <1>a, <2>1, AnswerFrame
<1> QED
  BY <1>1, <1>3, <1>4, <1>5, <1>6, <1>7, <1>8, <1>9, <1>10, <1>11, <1>12, <1>13, <1>14,
     <1>15, <1>16, <1>17, <1>18, <1>19, <1>20, <1>21, <1>23, <1>24, <1>25
  DEF Next, ReaderStep, RenderStep

-----------------------------------------------------------------------------
(* The parts together are inductive.                                       *)

ServerInv == TypeInv /\ OwnerInv /\ WakeInv /\ CloneInv /\ AnswerInv

LEMMA InvStep == ServerInv /\ [Next]_vars => ServerInv' /\ Frozen
BY TypeStep, OwnerStep, WakeStep, CloneStep, AnswerStep DEF ServerInv

(* Every state the server reaches satisfies the invariant above, for any   *)
(* number of connections, reader threads and session ids.                  *)
THEOREM Invariant == Spec => []ServerInv
<1>1. Init => ServerInv
  BY TypeInit, OwnerInit, WakeInit, CloneInit, AnswerInit DEF ServerInv
<1>2. ServerInv /\ [Next]_vars => ServerInv'
  BY InvStep
<1> QED BY <1>1, <1>2, PTL DEF Spec

(* A session has one owner until it is freed (the two queues of server.c), *)
(* and no thread works on a NULL session.                                  *)
THEOREM SessionsSafe == Spec => [](OneOwner /\ HasSession)
<1>1. ServerInv => OneOwner /\ HasSession
  BY DEF ServerInv, TypeInv, OwnerInv
<1> QED BY <1>1, Invariant, PTL

(* No request is left in a queue beside a sleeping thread, nor does the    *)
(* GLUT thread sleep on a request (pthread_cond_signal, server_idleh).     *)
THEOREM NobodySleepsOnWork == Spec => [](NoLostWakeup /\ RenderAwake)
<1>1. ServerInv => NoLostWakeup /\ RenderAwake
  BY DEF ServerInv, WakeInv
<1> QED BY <1>1, Invariant, PTL

(* A picture never shows a clone that is missing or still being copied; a  *)
(* clone that is not whole was cut by a read() of 0 before the end of the  *)
(* data or left by a server that died since (dsc_clone, dsc_load).         *)
THEOREM PicturesOfClones == Spec => []PictureOfClone
<1>1. ServerInv => PictureOfClone
  BY DEF ServerInv, CloneInv
<1> QED BY <1>1, Invariant, PTL

(* No answer is given to part of a request, however read() cuts it.        *)
THEOREM AnswersWhole == Spec => []AnswerWhole
<1>1. ServerInv => AnswerWhole
  BY DEF ServerInv, AnswerInv
<1> QED BY <1>1, Invariant, PTL

(* The data of a session never changes once its copy has ended in any way, *)
(* over restarts too (dsc_exists before dsc_clone).                        *)
THEOREM CloneStays == Spec => SessionFrozen
<1>1. ServerInv /\ [Next]_vars => [Frozen]_vars
  BY InvStep
<1>2. Spec => [][Frozen]_vars
  BY <1>1, Invariant, PTL DEF Spec
<1> QED BY <1>2 DEF SessionFrozen, Frozen

=============================================================================
