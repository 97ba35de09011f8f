---------------------------- MODULE HelperStream ----------------------------
(***************************************************************************)
(* The cbcopy_helper processes of one destination segment while they       *)
(* stream: the receiver, which writes to the standard output that COPY     *)
(* FROM PROGRAM reads, and the senders whose standard input COPY TO        *)
(* PROGRAM writes.                                                         *)
(*                                                                         *)
(* Under push the receiver listens (OneTimeServer for one sender,          *)
(* ConcurrentServer for several) and the senders are OneTimeClients; under *)
(* pull the senders are OneTimeServers and the receiver dials them         *)
(* (OneTimeClient or ConcurrentClient).  A stream is a sequence of blocks, *)
(* each what one Read of the record reader or one chunk of RedirectStream  *)
(* yields; os.Stdout.Write puts a block on the pipe in more than one       *)
(* system call, here two.  Any process can be killed, any dial or write    *)
(* can fail, and a listener's accept deadline can strike.                  *)
(***************************************************************************)
EXTENDS Naturals, FiniteSets, Sequences

CONSTANTS
    MaxSenders,     \* the largest number of senders
    Blocks,         \* blocks in the stream of a sender
    Attempts,       \* dial attempts of open() and connect(); 4 in the code
    MaxFaults       \* bound on the kills and failing system calls

ASSUME StreamAssumption ==
    /\ MaxSenders \in Nat \ {0} /\ Blocks \in Nat
    /\ Attempts \in Nat \ {0} /\ MaxFaults \in Nat

VARIABLES
    shape,      \* direction, number of senders and compression of this copy
    step,       \* process -> where its main goroutine is
    result,     \* process -> "running" or how it ended
    listener,   \* process -> its listening socket
    late,       \* the processes whose accept deadline has passed
    tries,      \* sender -> failed dials of its connection
    conn,       \* sender -> its connection: "none", "syn" (in the backlog), "up"
    sent,       \* sender -> blocks it has put on the connection, those its compressor
                \* still holds not included
    ending,     \* sender -> the end of its stream: "open", "eof" or "cut"
    thread,     \* sender -> the receiver's goroutine for its connection
    got,        \* sender -> blocks of it completely written out
    rerr,       \* the receiver's err field is set
    logged,     \* the receiver has called gplog.Error
    holder,     \* the goroutine that holds wmu, 0 for none
    out,        \* the halves of blocks on the receiver's standard output
    faults      \* kills, failing system calls and deadlines that struck a listener
                \* some client of which was missing

procs == <<step, result, listener, late>>
net == <<tries, conn, sent, ending>>
recv == <<thread, got, rerr, logged, holder, out>>
vars == <<shape, procs, net, recv, faults>>

Receiver == 0
AllSenders == 1 .. MaxSenders
Senders == 1 .. shape.n
Procs == {Receiver} \cup Senders
Push == shape.push
One == shape.n = 1

Running(p) == result[p] = "running"
ReceiverUp == Running(Receiver)

\* Something outside the helpers' control goes wrong.
Fault == faults < MaxFaults /\ faults' = faults + 1

----------------------------------------------------------------------------
(* The end of a process. *)

\* Run returns r, or the signal handler calls os.Exit: the sockets close, and
\* the stream of a sender that has not ended it is cut.
EndOfProcess(p, r) ==
    /\ result' = [result EXCEPT ![p] = r]
    /\ listener' = [listener EXCEPT ![p] = "closed"]

Cut(p) ==
    ending' = [s \in AllSenders |->
                  IF s = p /\ ending[s] = "open" THEN "cut" ELSE ending[s]]

\* What main passes to os.Exit.  Stop reads the code of gplog before main logs
\* the error Run returned, and a recovered panic makes Run return nil.
ExitStatus(p) ==
    CASE result[p] = "killed"                                 -> 2
      [] result[p] = "err" /\ p = Receiver /\ logged          -> 1
      [] OTHER                                                -> 0

\* cbcopy starts the diallers when it has read all the port files.
PortsKnown ==
    \A p \in IF Push THEN {Receiver} ELSE Senders : step[p] \notin {"listen", "file"}

Kill(p) ==
    /\ Running(p) /\ ~(step[p] \in {"dial", "run"} /\ ~PortsKnown)
    /\ EndOfProcess(p, "killed") /\ Cut(p)
    /\ Fault
    /\ UNCHANGED <<shape, step, late, tries, conn, sent, recv>>

----------------------------------------------------------------------------
(* Listening, handleListen up to Serve. *)

Start(p) ==
    /\ Running(p) /\ step[p] = "listen"
    /\ \/ /\ step' = [step EXCEPT ![p] = "file"]
          /\ listener' = [listener EXCEPT ![p] = "open"]
          /\ UNCHANGED <<result, ending, faults>>
       \/ /\ EndOfProcess(p, "err") /\ Cut(p)
          /\ Fault
          /\ UNCHANGED step
    /\ UNCHANGED <<shape, late, tries, conn, sent, recv>>

\* The servers other than ConcurrentServer accept in the main goroutine.
WriteFile(p) ==
    /\ Running(p) /\ step[p] = "file"
    /\ \/ /\ step' = [step EXCEPT ![p] = IF p = Receiver /\ ~One THEN "wait" ELSE "accept"]
          /\ UNCHANGED <<result, listener, ending, faults>>
       \/ /\ EndOfProcess(p, "err") /\ Cut(p)
          /\ Fault
          /\ UNCHANGED step
    /\ UNCHANGED <<shape, late, tries, conn, sent, recv>>

\* The connections a listening process waits for.
Expected(p) == IF Push THEN Senders ELSE {p}

\* 600 seconds after Start.  That is a fault of the environment as long as one
\* of the expected connections is missing.
Deadline(p) ==
    /\ Running(p) /\ listener[p] = "open" /\ p \notin late
    /\ late' = late \cup {p}
    /\ faults' = IF \E s \in Expected(p) : conn[s] # "up" THEN faults + 1 ELSE faults
    /\ UNCHANGED <<shape, step, result, listener, net, recv>>

\* OneTimeServer.Serve up to the stream.  After a failed Accept it goes on
\* and dereferences the connection it does not have.
ServeOneTime(p) ==
    /\ Running(p) /\ step[p] = "accept"
    /\ \/ /\ p \in late
          /\ EndOfProcess(p, "panic") /\ Cut(p)
          /\ UNCHANGED <<step, conn, thread>>
       \/ /\ p \notin late
          /\ \E s \in Expected(p) :
                /\ conn[s] = "syn"
                /\ conn' = [conn EXCEPT ![s] = "up"]
                /\ thread' = IF Push THEN [thread EXCEPT ![s] = "open"] ELSE thread
          /\ listener' = [listener EXCEPT ![p] = "closed"]
          /\ step' = [step EXCEPT ![p] = "stream"]
          /\ UNCHANGED <<result, ending>>
    /\ UNCHANGED <<shape, late, tries, sent, got, rerr, logged, holder, out, faults>>

Accepted == {s \in Senders : thread[s] # "none"}

\* An Accept of ServerBase.serve that succeeds; the last one closes the listener.
AcceptNext(s) ==
    /\ conn[s] = "syn"
    /\ conn' = [conn EXCEPT ![s] = "up"]
    /\ thread' = [thread EXCEPT ![s] = "open"]
    /\ UNCHANGED <<rerr, logged>>

\* (Variant: the error is not kept.)
AcceptErrorLost ==
    /\ Receiver \in late
    /\ logged' = TRUE
    /\ UNCHANGED <<conn, thread, rerr>>
AcceptFails ==
    /\ Receiver \in late
    /\ rerr' = TRUE /\ logged' = TRUE
    /\ UNCHANGED <<conn, thread>>

\* (Variant: the loop accepts until it fails, as before issue #44.)
ServeForever ==
    /\ ReceiverUp /\ listener[Receiver] = "open" /\ step[Receiver] \in {"wait", "poll"}
    /\ \/ /\ Receiver \notin late /\ \E s \in Senders : AcceptNext(s)
          /\ UNCHANGED listener
       \/ /\ AcceptFails
          /\ listener' = [listener EXCEPT ![Receiver] = "abandoned"]
    /\ UNCHANGED <<shape, step, result, late, tries, sent, ending, got, holder, out, faults>>

\* The goroutine of ServerBase.serve.
Serve ==
    /\ ReceiverUp /\ listener[Receiver] = "open" /\ step[Receiver] \in {"wait", "poll"}
    /\ \/ /\ Receiver \notin late /\ \E s \in Senders : AcceptNext(s)
          /\ listener' = IF Cardinality(Accepted) + 1 = shape.n
                         THEN [listener EXCEPT ![Receiver] = "closed"] ELSE listener
       \/ /\ AcceptFails
          /\ listener' = [listener EXCEPT ![Receiver] = "abandoned"]
    /\ UNCHANGED <<shape, step, result, late, tries, sent, ending, got, holder, out, faults>>

----------------------------------------------------------------------------
(* Dialling, open() of OneTimeClient and connect() of ConcurrentClient.    *)

Dialable(p) == Running(p) /\ listener[p] \in {"open", "abandoned"}

\* ... and does not when one of the listeners ends before it wrote its file.
NeverStarted(p) ==
    /\ ~PortsKnown /\ step[p] \in {"dial", "run"}
    /\ \E q \in Procs : ~Running(q) /\ step[q] \in {"listen", "file"}

\* A sender dials the receiver.
DialPush(s) ==
    /\ Push /\ PortsKnown /\ Running(s) /\ step[s] = "dial"
    /\ \/ /\ Dialable(Receiver)
          /\ conn' = [conn EXCEPT ![s] = "syn"]
          /\ step' = [step EXCEPT ![s] = "stream"]
          /\ UNCHANGED <<result, listener, ending, tries, faults>>
       \/ /\ tries' = [tries EXCEPT ![s] = @ + 1]
          /\ IF Dialable(Receiver) THEN Fault ELSE UNCHANGED faults
          /\ IF tries[s] + 1 < Attempts
             THEN UNCHANGED <<result, listener, ending>>
             ELSE EndOfProcess(s, "err") /\ Cut(s)
          /\ UNCHANGED <<step, conn>>
    /\ UNCHANGED <<shape, late, sent, recv>>

\* A goroutine of the receiver, its only one for OneTimeClient, dials a sender.
DialPull(s) ==
    /\ ~Push /\ PortsKnown /\ ReceiverUp /\ thread[s] = "dial"
    /\ \/ /\ Dialable(s)
          /\ conn' = [conn EXCEPT ![s] = "syn"]
          /\ thread' = [thread EXCEPT ![s] = "open"]
          /\ UNCHANGED <<tries, rerr, faults>>
       \/ /\ tries' = [tries EXCEPT ![s] = @ + 1]
          /\ IF Dialable(s) THEN Fault ELSE UNCHANGED faults
          /\ IF tries[s] + 1 < Attempts
             THEN UNCHANGED <<thread, rerr>>
             ELSE thread' = [thread EXCEPT ![s] = "ended"] /\ rerr' = TRUE
          /\ UNCHANGED conn
    /\ UNCHANGED <<shape, procs, sent, ending, got, logged, holder, out>>

----------------------------------------------------------------------------
(* Sending, RedirectStream from the standard input to the connection.      *)

Send(s) ==
    /\ Running(s) /\ step[s] = "stream" /\ sent[s] < Blocks
    /\ \/ /\ sent' = [sent EXCEPT ![s] = @ + 1]
          /\ UNCHANGED <<result, listener, ending, faults>>
       \/ /\ EndOfProcess(s, "err") /\ Cut(s)
          /\ Fault
          /\ UNCHANGED sent
    /\ UNCHANGED <<shape, step, late, tries, conn, recv>>

\* The deferred Close writes what the compressor holds and its trailer; when it
\* fails, both are lost and so is its error.
FinishSend(s) ==
    /\ Running(s) /\ step[s] = "stream"
    /\ EndOfProcess(s, "nil")
    /\ \/ /\ sent[s] = Blocks
          /\ ending' = [ending EXCEPT ![s] = "eof"]
          /\ UNCHANGED faults
       \/ /\ Cut(s) /\ Fault
    /\ UNCHANGED <<shape, step, late, tries, conn, sent, recv>>

----------------------------------------------------------------------------
(* Receiving, a goroutine per connection.                                  *)

\* The end of the goroutine: first setError, later numFinished or wg.Done.
EndThread(s, failed) ==
    /\ thread' = [thread EXCEPT ![s] = "ended"]
    /\ rerr' = (rerr \/ failed)
    /\ holder' = IF holder = s THEN 0 ELSE holder

\* NewCompressReader.  Of the formats gzip reads a header at once, and fails
\* when the stream is cut before it; OneTimeServer keeps that error to itself.
\* The header of a stream that was cut before its first block may have come.
OpenReader(s) ==
    /\ ReceiverUp /\ thread[s] = "open"
    /\ \/ /\ shape.comp # "gzip" \/ sent[s] > 0 \/ ending[s] # "open"
          /\ thread' = [thread EXCEPT ![s] = "read"] /\ UNCHANGED <<rerr, holder>>
       \/ /\ shape.comp = "gzip" /\ sent[s] = 0 /\ ending[s] = "cut"
          /\ EndThread(s, ~(Push /\ One))
    /\ UNCHANGED <<shape, procs, net, got, logged, out, faults>>

\* The next block is there.
ReadBlock(s) ==
    /\ ReceiverUp /\ thread[s] = "read" /\ got[s] < sent[s]
    /\ thread' = [thread EXCEPT ![s] = "write"]
    /\ UNCHANGED <<shape, procs, net, got, rerr, logged, holder, out, faults>>

\* The stream ends, at the latest when all that was sent is read.  A stream
\* that was cut looks complete when it is not compressed (or is snappy), and
\* under zstd, whose decoder returns io.EOF when there is not one byte, when it
\* was cut before anything was sent.
ReadEnd(s) ==
    /\ ReceiverUp /\ thread[s] = "read"
    /\ \/ got[s] = sent[s] /\ ending[s] = "eof" /\ EndThread(s, FALSE)
       \/ /\ got[s] = sent[s] /\ ending[s] = "cut"
          /\ shape.comp = "none" \/ (shape.comp = "zstd" /\ sent[s] = 0)
          /\ EndThread(s, FALSE)
       \/ ending[s] = "cut" /\ EndThread(s, TRUE)
    /\ UNCHANGED <<shape, procs, net, got, logged, out, faults>>

\* write(): the block goes out in two halves, under wmu.
\* (Variant: wmu is not taken.)
WriteUnlocked(s) ==
    /\ ReceiverUp /\ thread[s] = "write"
    /\ thread' = [thread EXCEPT ![s] = "writing"]
    /\ out' = Append(out, <<s, got[s] + 1, 1>>)
    /\ UNCHANGED <<shape, procs, net, got, rerr, logged, holder, faults>>
Write(s) ==
    /\ ReceiverUp /\ thread[s] = "write" /\ holder = 0
    /\ holder' = s
    /\ thread' = [thread EXCEPT ![s] = "writing"]
    /\ out' = Append(out, <<s, got[s] + 1, 1>>)
    /\ UNCHANGED <<shape, procs, net, got, rerr, logged, faults>>

WriteDone(s) ==
    /\ ReceiverUp /\ thread[s] = "writing"
    /\ out' = Append(out, <<s, got[s] + 1, 2>>)
    /\ got' = [got EXCEPT ![s] = @ + 1]
    /\ holder' = 0
    /\ thread' = [thread EXCEPT ![s] = "read"]
    /\ UNCHANGED <<shape, procs, net, rerr, logged, faults>>

\* COPY FROM has gone away.
WriteFails(s) ==
    /\ ReceiverUp
    /\ thread[s] = "writing" \/ (thread[s] = "write" /\ holder = 0)
    /\ EndThread(s, TRUE)
    /\ Fault
    /\ UNCHANGED <<shape, procs, net, got, logged, out>>

\* increase() of the deferred function, or wg.Done.
Increase(s) ==
    /\ ReceiverUp /\ thread[s] = "ended"
    /\ thread' = [thread EXCEPT ![s] = "done"]
    /\ UNCHANGED <<shape, procs, net, got, rerr, logged, holder, out, faults>>

AllDone == \A s \in Senders : thread[s] = "done"

\* The clients and OneTimeServer end with their connections.
Return ==
    /\ ReceiverUp /\ (One \/ ~Push) /\ AllDone
    /\ EndOfProcess(Receiver, IF rerr THEN "err" ELSE "nil")
    /\ UNCHANGED <<shape, step, late, net, recv, faults>>

\* WaitForFinished of ConcurrentServer reads err, then numFinished, and
\* handleListen returns what err is then.
WaitErr ==
    /\ ReceiverUp /\ step[Receiver] = "wait"
    /\ IF rerr
       THEN EndOfProcess(Receiver, "err") /\ UNCHANGED step
       ELSE step' = [step EXCEPT ![Receiver] = "poll"] /\ UNCHANGED <<result, listener>>
    /\ UNCHANGED <<shape, late, net, recv, faults>>

\* (Variant: handleListen returns the err that WaitForFinished has read.)
WaitDoneStale ==
    /\ ReceiverUp /\ step[Receiver] = "poll"
    /\ IF AllDone
       THEN EndOfProcess(Receiver, "nil") /\ UNCHANGED step
       ELSE step' = [step EXCEPT ![Receiver] = "wait"] /\ UNCHANGED <<result, listener>>
    /\ UNCHANGED <<shape, late, net, recv, faults>>
WaitDone ==
    /\ ReceiverUp /\ step[Receiver] = "poll"
    /\ IF AllDone
       THEN EndOfProcess(Receiver, IF rerr THEN "err" ELSE "nil") /\ UNCHANGED step
       ELSE step' = [step EXCEPT ![Receiver] = "wait"] /\ UNCHANGED <<result, listener>>
    /\ UNCHANGED <<shape, late, net, recv, faults>>

----------------------------------------------------------------------------

\* createServerImpl and createClientImpl choose by the number of senders.
Init ==
    /\ shape \in [push : BOOLEAN, n : AllSenders, comp : {"none", "gzip", "zstd"}]
    /\ step = [p \in Procs |->
                  IF p = Receiver THEN IF Push THEN "listen" ELSE "run"
                                  ELSE IF Push THEN "dial" ELSE "listen"]
    /\ result = [p \in Procs |-> "running"]
    /\ listener = [p \in Procs |-> "none"]
    /\ late = {}
    /\ tries = [s \in AllSenders |-> 0]
    /\ conn = [s \in AllSenders |-> "none"]
    /\ sent = [s \in AllSenders |-> 0]
    /\ ending = [s \in AllSenders |-> "open"]
    /\ thread = [s \in AllSenders |-> IF Push THEN "none" ELSE "dial"]
    /\ got = [s \in AllSenders |-> 0]
    /\ rerr = FALSE /\ logged = FALSE /\ holder = 0 /\ out = <<>> /\ faults = 0

AllEnded == \A p \in Procs : ~Running(p) \/ NeverStarted(p)
Done == AllEnded /\ UNCHANGED vars

MainSteps(p) == Start(p) \/ WriteFile(p) \/ ServeOneTime(p)
SenderSteps(s) == DialPush(s) \/ Send(s) \/ FinishSend(s)
ThreadSteps(s) ==
    \/ DialPull(s) \/ OpenReader(s) \/ ReadBlock(s) \/ ReadEnd(s)
    \/ Write(s) \/ WriteDone(s) \/ Increase(s)

Next ==
    \/ \E p \in Procs : MainSteps(p) \/ Deadline(p) \/ Kill(p)
    \/ \E s \in Senders : SenderSteps(s) \/ ThreadSteps(s) \/ WriteFails(s)
    \/ Serve \/ Return \/ WaitErr \/ WaitDone
    \/ Done

\* The kernel runs every process and the Go runtime every goroutine, and the
\* clock of the accept deadline does not stand still.
Fairness ==
    /\ \A p \in 0 .. MaxSenders : WF_vars(p \in Procs /\ (MainSteps(p) \/ Deadline(p)))
    /\ \A s \in AllSenders : WF_vars(s \in Senders /\ SenderSteps(s))
    /\ \A s \in AllSenders : WF_vars(s \in Senders /\ ThreadSteps(s))
    /\ WF_vars(Serve) /\ WF_vars(Return) /\ WF_vars(WaitErr \/ WaitDone)

Spec == Init /\ [][Next]_vars /\ Fairness

----------------------------------------------------------------------------

\* The goroutines share one standard output, yet no block is torn apart by
\* another and the blocks of each source come in its order: COPY FROM reads
\* whole records, whatever the interleaving of the connections (wmu).
StreamsIntact ==
    /\ \A i \in DOMAIN out :
          out[i][3] = 1 /\ i < Len(out) =>
              \/ out[i + 1] = <<out[i][1], out[i][2], 2>>
              \/ thread[out[i][1]] \in {"ended", "done"}
    /\ \A i, j \in DOMAIN out :
          i < j /\ out[i][1] = out[j][1] => out[i][2] <= out[j][2]

\* A receiver that returns without an error has written every block that came,
\* and that is every block of every sender but for three kinds of stream that
\* were cut off: one that is not compressed (or is snappy) may look complete
\* wherever it was cut, one of zstd, the default, when it was cut before its
\* first byte, and OneTimeServer drops the error of a gzip stream that was cut
\* before its first byte.  Past its first byte a gzip or zstd stream that was
\* cut is always an error.
NilIsComplete ==
    result[Receiver] = "nil" =>
        \A s \in Senders :
            /\ got[s] = sent[s]
            /\ \/ ending[s] = "eof" /\ sent[s] = Blocks
               \/ ending[s] = "cut" /\ shape.comp = "none"
               \/ ending[s] = "cut" /\ sent[s] = 0 /\ shape.comp = "zstd"
               \/ ending[s] = "cut" /\ sent[s] = 0 /\ shape.comp = "gzip" /\ Push /\ One

\* No helper fails, panics or exits with a non-zero status unless a process was
\* killed, a system call failed, or the accept deadline struck while a client
\* was missing: however long a transfer takes after that, the deadline no
\* longer bounds it (issue #44, the listener is closed after the last Accept).
FailsOnlyOnFault ==
    (\E p \in Procs : result[p] \in {"err", "panic"} \/ ExitStatus(p) # 0) => faults > 0

\* Every helper ends: a listener nobody dials meets its deadline, a dialler
\* gives up, and the polling of WaitForFinished sees the last goroutine.
HelpersEnd == <>AllEnded
=============================================================================
