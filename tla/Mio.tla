-------------------------------- MODULE Mio --------------------------------
(***************************************************************************)
(* The in-memory network connection of lib/util/mio: a Conn is two byte    *)
(* buffers (ReadWriteCloser), "out" read at the outward end and "in" read  *)
(* at the inward end, each with its mutex and condition variable.  Every   *)
(* method is one critical section, except Read, which gives the mutex up   *)
(* while it waits, and Conn.Close, which closes one buffer after the       *)
(* other.  Any number of goroutines may use either end.                    *)
(*                                                                         *)
(* Time is abstract: a deadline lies ahead until it passes.  The timer of  *)
(* a read deadline broadcasts when the deadline passes.                    *)
(***************************************************************************)
EXTENDS Naturals, Sequences

CONSTANTS Inward, Outward,   \* the goroutines at the two ends
          MaxBytes,          \* bytes written in each direction
          MaxDeadlines       \* deadlines set in a behaviour

Goroutines == Inward \cup Outward
Dirs == {"out", "in"}

VARIABLES buf,             \* ReadWriteCloser.buf
          closed,          \* ReadWriteCloser.closed
          timer,           \* readDeadlineTimer: "off" or "armed"
          readDeadline,    \* ReadWriteCloser.readDeadline
          writeDeadline,   \* ReadWriteCloser.writeDeadline
          pc,              \* where each goroutine is
          eof,             \* the goroutines whose last Read returned io.EOF
          written, taken,  \* the bytes Write accepted, the bytes Read returned
          deadlines        \* number of deadlines set

vars == <<buf, closed, timer, readDeadline, writeDeadline, pc, eof,
          written, taken, deadlines>>

ReadsFrom(g) == IF g \in Inward THEN "in" ELSE "out"
WritesTo(g) == IF g \in Inward THEN "out" ELSE "in"

Init ==
  /\ buf = [d \in Dirs |-> <<>>]
  /\ closed = [d \in Dirs |-> FALSE]
  /\ timer = [d \in Dirs |-> "off"]
  /\ readDeadline = [d \in Dirs |-> "none"]
  /\ writeDeadline = [d \in Dirs |-> "none"]
  /\ pc = [g \in Goroutines |-> "idle"]
  /\ eof = {}
  /\ written = [d \in Dirs |-> <<>>]
  /\ taken = [d \in Dirs |-> <<>>]
  /\ deadlines = 0

-----------------------------------------------------------------------------

\* sync.Cond.Broadcast of buffer d.
Broadcast(d, at) ==
  [g \in Goroutines |->
     IF ReadsFrom(g) = d /\ at[g] = "asleep" THEN "awake" ELSE at[g]]

\* copy(T.buf, T.buf[n:]); T.buf = T.buf[:len(T.buf)-n].
DropFront(b, n) == SubSeq(b, n + 1, Len(b))

\* Read returns io.EOF: nothing left in the buffer, and it is closed.
Exhausted(d) == buf[d] = <<>> /\ closed[d]

\* Read enters with a buffer of size bytes, or resumes after a broadcast.
Read(g, size) ==
  LET d == ReadsFrom(g)
      n == IF size < Len(buf[d]) THEN size ELSE Len(buf[d]) IN
  /\ pc[g] \in {"idle", "awake"}
  /\ g \notin eof
  /\ \/ /\ buf[d] # <<>>
        /\ taken' = [taken EXCEPT ![d] = @ \o SubSeq(buf[d], 1, n)]
        /\ buf' = [buf EXCEPT ![d] = DropFront(@, n)]
        /\ pc' = [pc EXCEPT ![g] = "idle"]
        /\ UNCHANGED eof
     \/ /\ Exhausted(d)
        /\ eof' = eof \cup {g}
        /\ pc' = [pc EXCEPT ![g] = "idle"]
        /\ UNCHANGED <<buf, taken>>
     \/ /\ buf[d] = <<>>
        /\ ~closed[d]
        /\ pc' = [pc EXCEPT ![g] = IF readDeadline[d] = "past"
                                   THEN "idle" ELSE "asleep"]
        /\ UNCHANGED <<buf, taken, eof>>
  /\ UNCHANGED <<closed, timer, readDeadline, writeDeadline,
                 written, deadlines>>

\* Write: refused by a closed buffer and after the write deadline; the
\* refusals change nothing.
Write(g) ==
  LET d == WritesTo(g)
      b == Len(written[d]) + 1 IN
  /\ pc[g] = "idle"
  /\ Len(written[d]) < MaxBytes
  /\ ~closed[d]
  /\ writeDeadline[d] # "past"
  /\ buf' = [buf EXCEPT ![d] = Append(@, b)]
  /\ written' = [written EXCEPT ![d] = Append(@, b)]
  /\ pc' = Broadcast(d, pc)
  /\ UNCHANGED <<closed, timer, readDeadline, writeDeadline, eof,
                 taken, deadlines>>

\* Mutant: Close does not wake the readers.
ShutQuietly(d, at) ==
  /\ ~closed[d]
  /\ closed' = [closed EXCEPT ![d] = TRUE]
  /\ timer' = [timer EXCEPT ![d] = "off"]
  /\ pc' = at

\* ReadWriteCloser.Close of an open buffer.
Shut(d, at) ==
  /\ ~closed[d]
  /\ closed' = [closed EXCEPT ![d] = TRUE]
  /\ timer' = [timer EXCEPT ![d] = "off"]
  /\ pc' = Broadcast(d, at)

\* Conn.Close, first half.  When out is closed already the caller gets
\* net.ErrClosed and in is left alone.
CloseOut(g) ==
  /\ pc[g] = "idle"
  /\ Shut("out", [pc EXCEPT ![g] = "closing"])
  /\ UNCHANGED <<buf, readDeadline, writeDeadline, eof, written,
                 taken, deadlines>>

\* Mutant: Conn.Close stops after the first buffer.
CloseNoMore(g) ==
  /\ pc[g] = "closing"
  /\ pc' = [pc EXCEPT ![g] = "idle"]
  /\ UNCHANGED <<buf, closed, timer, readDeadline, writeDeadline, eof,
                 written, taken, deadlines>>

\* Conn.Close, second half.
CloseIn(g) ==
  /\ pc[g] = "closing"
  /\ Shut("in", [pc EXCEPT ![g] = "idle"])
  /\ UNCHANGED <<buf, readDeadline, writeDeadline, eof, written, taken,
                 deadlines>>

\* SetReadDeadline, refused by a closed buffer.  It starts, resets or stops
\* the timer; it does not assign readDeadline.
SetReadDeadline(g, t) ==
  LET d == ReadsFrom(g) IN
  /\ pc[g] = "idle"
  /\ deadlines < MaxDeadlines
  /\ deadlines' = deadlines + 1
  /\ ~closed[d]
  /\ timer' = [timer EXCEPT ![d] = IF t = "none" THEN "off" ELSE "armed"]
  /\ UNCHANGED <<buf, closed, readDeadline, writeDeadline, pc, eof,
                 written, taken>>

\* SetWriteDeadline.
SetWriteDeadline(g, t) ==
  /\ pc[g] = "idle"
  /\ deadlines < MaxDeadlines
  /\ deadlines' = deadlines + 1
  /\ writeDeadline' = [writeDeadline EXCEPT ![WritesTo(g)] = t]
  /\ UNCHANGED <<buf, closed, timer, readDeadline, pc, eof,
                 written, taken>>

\* The write deadline of d passes.
Passes(d) ==
  /\ writeDeadline[d] = "ahead"
  /\ writeDeadline' = [writeDeadline EXCEPT ![d] = "past"]
  /\ UNCHANGED <<buf, closed, timer, readDeadline, pc, eof,
                 written, taken, deadlines>>

\* The timer of d fires: readDeadlineExceeded.
Fires(d) ==
  /\ timer[d] = "armed"
  /\ timer' = [timer EXCEPT ![d] = "off"]
  /\ pc' = Broadcast(d, pc)
  /\ UNCHANGED <<buf, closed, readDeadline, writeDeadline, eof, written,
                 taken, deadlines>>

Next ==
  \/ \E g \in Goroutines :
       \/ \E size \in 1..2 : Read(g, size)
       \/ Write(g)
       \/ CloseOut(g)
       \/ CloseIn(g)
       \/ \E t \in {"none", "ahead"} :
            SetReadDeadline(g, t) \/ SetWriteDeadline(g, t)
  \/ \E d \in Dirs : Passes(d) \/ Fires(d)

\* A goroutine inside Read or Close is run by the scheduler, and timers fire.
Fairness ==
  /\ \A g \in Goroutines :
       /\ WF_vars(pc[g] = "awake" /\ \E size \in 1..2 : Read(g, size))
       /\ WF_vars(CloseIn(g))
  /\ \A d \in Dirs : WF_vars(Fires(d))

Spec == Init /\ [][Next]_vars /\ Fairness

-----------------------------------------------------------------------------

\* The bytes Read has returned, followed by those in the buffer, are the bytes
\* Write accepted, in their order: none is lost, repeated or reordered,
\* whatever the sizes of the reads and however many goroutines read.
InOrder == \A d \in Dirs : taken[d] \o buf[d] = written[d]

\* A Read that returns io.EOF has left nothing behind: the buffer is closed and
\* all that was ever accepted has been read, so a Close right after a Write
\* loses nothing (the Google discoverer closes its end before the query has
\* read the answer).
EndAfterAll ==
  \A g \in eof : closed[ReadsFrom(g)] /\ taken[ReadsFrom(g)] = written[ReadsFrom(g)]

\* No wake-up is lost: a Read sleeps only while there is nothing to read and
\* the buffer is open.
NoLostWakeup ==
  \A g \in Goroutines :
    pc[g] = "asleep" => buf[ReadsFrom(g)] = <<>> /\ ~closed[ReadsFrom(g)]

\* Together: the bytes come through in order, their end after all of them, and a
\* goroutine that waits for them is woken.
Delivered == InOrder /\ EndAfterAll /\ NoLostWakeup

\* Whichever ends close the connection, and in whatever order, both directions
\* are eventually closed and no Read is left waiting.
ClosesBoth ==
  (\E d \in Dirs : closed[d])
    ~> (\A d \in Dirs : closed[d]) /\ (\A g \in Goroutines : pc[g] = "idle")
=============================================================================
