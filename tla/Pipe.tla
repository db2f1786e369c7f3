-------------------------------- MODULE Pipe --------------------------------
(***************************************************************************)
(* The path of one forwarded connection: a user's socket, the pipe of the  *)
(* proxy (share/cio/pipe.go) that copies between it and an SSH channel,    *)
(* and the pipe of the far handler between the channel and the target.     *)
(*                                                                         *)
(*   user <-- socket --> near <-- channel --> far <-- socket --> target    *)
(*                                                                         *)
(* Each pipe has two goroutines, one for each direction; the first of them *)
(* that ends closes both what it reads and what it writes.  Data is        *)
(* counted in chunks: passed[d][i] is how many chunks of direction d have  *)
(* come past point i,                                                      *)
(*   1  written by the source's program     4  read by the second copy     *)
(*   2  read by the first copy              5  written to the sink's socket *)
(*   3  written to the channel              6  received by the sink        *)
(*                                                                         *)
(* Sockets and SSH channels are the Go libraries'.  What has arrived on a  *)
(* channel can still be read after it is closed; a socket cannot be read   *)
(* after it is closed.  The closing of a standard input does nothing.      *)
(***************************************************************************)
EXTENDS Naturals

CONSTANTS
    Chunks,     \* [Dir -> how many chunks a source writes, at most]
    Window      \* chunks under way on a channel or in a socket, at most

Side == {"near", "far"}
Dir == {"out", "in"}
Point == 1..6

ASSUME ChunksAssumption == Chunks \in [Dir -> Nat]
ASSUME WindowAssumption == Window \in Nat \ {0}

VARIABLES
    stdio,      \* the user is the standard input and output of the client
    passed,     \* [Dir -> [Point -> chunks]]
    fin,        \* the sides whose user or target has ended its writing
    gone,       \* the sides whose user or target has closed its socket
    shut,       \* the sides that have closed their socket
    closing,    \* the sides that can no longer write to the channel
    seen,       \* the sides that know the channel is closed
    lost,       \* the connection under the channel is gone
    copying     \* the copies that run, a subset of Side \X Dir

pipeVars == <<stdio, passed, fin, gone, shut, closing, seen, lost, copying>>

Source(d) == IF d = "out" THEN "near" ELSE "far"
Sink(d) == IF d = "out" THEN "far" ELSE "near"
Back(d) == IF d = "out" THEN "in" ELSE "out"
Other(x) == IF x = "near" THEN "far" ELSE "near"

Nothing == [i \in Point |-> 0]

PipeInit ==
    /\ stdio \in BOOLEAN
    /\ passed = [d \in Dir |-> Nothing]
    /\ fin = {} /\ gone = {} /\ shut = {}
    /\ closing = {} /\ seen = {} /\ lost = FALSE
    /\ copying = {}

Pass(d, i) == passed' = [passed EXCEPT ![d][i] = @ + 1]

(* Some of what is under way at point i never gets there.                  *)
Cut(d, i) ==
    \E k \in passed[d][i+1]..passed[d][i] : passed' = [passed EXCEPT ![d][i] = k]

-----------------------------------------------------------------------------
(* The point from which the copy of direction d on side x reads: a socket  *)
(* on the side of the source, the channel on the side of the sink.         *)
From(x, d) == IF x = Source(d) THEN 1 ELSE 3

Holds(x, d) == passed[d][From(x, d) + 1] > passed[d][From(x, d) + 2]

Waiting(x, d) == passed[d][From(x, d)] > passed[d][From(x, d) + 1]

(* A side copies from a socket until that is closed.                       *)
Readable(x, d) == From(x, d) = 1 => x \notin shut

(* The read fails or comes to the end: the socket was closed here, was     *)
(* reset because it was written to after its owner had gone, or is at its  *)
(* end; the channel is closed and all that arrived on it has been read.    *)
ReadEnds(x, d) ==
    IF From(x, d) = 1
    THEN \/ x \in shut
         \/ x \in gone /\ passed[Back(d)][5] > passed[Back(d)][6]
         \/ x \in fin /\ ~Waiting(x, d)
    ELSE x \in seen /\ ~Waiting(x, d)

Writable(x, d) ==
    /\ passed[d][From(x, d) + 2] - passed[d][From(x, d) + 3] < Window
    /\ IF From(x, d) = 1 THEN x \notin closing /\ ~lost ELSE x \notin shut

WriteFails(x, d) ==
    IF From(x, d) = 1 THEN x \in closing ELSE x \in shut \/ x \in gone

(* src.Close and dst.Close.  Standard input and output stay open.          *)

(* Mutant: only the user's or target's socket is closed.                   *)
CloseBoth_OneEnd(x) ==
    /\ shut' = IF stdio /\ x = "near" THEN shut ELSE shut \cup {x}
    /\ UNCHANGED closing

CloseBoth(x) ==
    /\ shut' = IF stdio /\ x = "near" THEN shut ELSE shut \cup {x}
    /\ closing' = closing \cup {x}

StartPipe(x) == copying' = copying \cup {<<x, d>> : d \in Dir}

PipeReturned(x) == \A d \in Dir : <<x, d>> \notin copying

Read(x, d) ==
    /\ <<x, d>> \in copying
    /\ ~Holds(x, d) /\ Waiting(x, d) /\ Readable(x, d)
    /\ Pass(d, From(x, d) + 1)
    /\ UNCHANGED <<stdio, fin, gone, shut, closing, seen, lost, copying>>

Write(x, d) ==
    /\ <<x, d>> \in copying
    /\ Holds(x, d) /\ Writable(x, d)
    /\ Pass(d, From(x, d) + 2)
    /\ UNCHANGED <<stdio, fin, gone, shut, closing, seen, lost, copying>>

(* io.Copy returns; the first of the two copies closes both ends.          *)
CopyEnds(x, d) ==
    /\ <<x, d>> \in copying
    /\ IF Holds(x, d) THEN WriteFails(x, d) ELSE ReadEnds(x, d)
    /\ copying' = copying \ {<<x, d>>}
    /\ IF <<x, Back(d)>> \in copying
       THEN CloseBoth(x)
       ELSE UNCHANGED <<shut, closing>>
    /\ UNCHANGED <<stdio, passed, fin, gone, seen, lost>>

Copy == \E x \in Side, d \in Dir : Read(x, d) \/ Write(x, d) \/ CopyEnds(x, d)

-----------------------------------------------------------------------------
(* The SSH library answers the close of a channel with a close.            *)
SeeClose(x) ==
    /\ Other(x) \in closing /\ ~lost
    /\ x \notin seen
    /\ seen' = seen \cup {x}
    /\ closing' = closing \cup {x}
    /\ UNCHANGED <<stdio, passed, fin, gone, shut, lost, copying>>

(* Each end finds out for itself that the connection is gone.              *)
SeeLoss(x) ==
    /\ lost /\ x \notin seen
    /\ seen' = seen \cup {x}
    /\ closing' = closing \cup {x}
    /\ UNCHANGED <<stdio, passed, fin, gone, shut, lost, copying>>

(* What was under way on the channel is lost with its connection.          *)
LoseChannel ==
    /\ lost' = TRUE
    /\ \E o \in passed["out"][4]..passed["out"][3],
          i \in passed["in"][4]..passed["in"][3] :
             passed' = [passed EXCEPT !["out"][3] = o, !["in"][3] = i]
    /\ UNCHANGED <<stdio, fin, gone, shut, closing, seen, copying>>

-----------------------------------------------------------------------------
(* The programs at the two ends: x is the side whose socket they use.      *)
Produce(x) ==
    /\ x \notin fin
    /\ \E d \in Dir : Source(d) = x /\ passed[d][1] < Chunks[d] /\ Pass(d, 1)
    /\ UNCHANGED <<stdio, fin, gone, shut, closing, seen, lost, copying>>

(* It ends its writing and goes on reading, or closes its socket.          *)
Finish(x) ==
    /\ x \notin fin
    /\ fin' = fin \cup {x}
    /\ UNCHANGED <<stdio, passed, gone, shut, closing, seen, lost, copying>>

Quit(x) ==
    /\ x \notin gone /\ ~(stdio /\ x = "near")
    /\ fin' = fin \cup {x}
    /\ gone' = gone \cup {x}
    /\ UNCHANGED <<stdio, passed, shut, closing, seen, lost, copying>>

Receive(x) ==
    /\ x \notin gone
    /\ \E d \in Dir : Sink(d) = x /\ passed[d][5] > passed[d][6] /\ Pass(d, 6)
    /\ UNCHANGED <<stdio, fin, gone, shut, closing, seen, lost, copying>>

(* A socket closed with data unread, or written to after that, is reset:   *)
(* its owner may not get all that was sent to it.                          *)
Reset(x) ==
    /\ x \in shut /\ x \notin gone
    /\ \E d \in Dir :
         /\ Sink(d) = x /\ passed[d][5] > passed[d][6]
         /\ passed[Back(d)][1] > passed[Back(d)][2]
         /\ Cut(d, 5)
    /\ UNCHANGED <<stdio, fin, gone, shut, closing, seen, lost, copying>>

-----------------------------------------------------------------------------
PipeTypeOK ==
    /\ stdio \in BOOLEAN /\ lost \in BOOLEAN
    /\ passed \in [Dir -> [Point -> Nat]]
    /\ \A d \in Dir : /\ passed[d][1] <= Chunks[d]
                      /\ \A i \in 1..5 : passed[d][i] >= passed[d][i+1]
    /\ fin \subseteq Side /\ gone \subseteq fin /\ shut \subseteq Side
    /\ closing \subseteq Side /\ seen \subseteq closing
    /\ copying \subseteq Side \X Dir
=============================================================================
