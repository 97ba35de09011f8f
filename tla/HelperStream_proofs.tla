------------------------ MODULE HelperStream_proofs -------------------------
(***************************************************************************)
(* Proofs about HelperStream, for any number of senders, blocks, dial      *)
(* attempts and faults.                                                    *)
(***************************************************************************)
EXTENDS HelperStream, TLAPS

\* Every leaf that names no prover is for Zenon.
USE Zenon

----------------------------------------------------------------------------
(* Types. *)

\* The processes.
ProcType ==
    /\ shape \in [push : BOOLEAN, n : AllSenders, comp : {"none", "gzip", "zstd"}]
    /\ step \in [Procs -> {"listen", "file", "accept", "wait", "poll", "stream", "dial", "run"}]
    /\ result \in [Procs -> {"running", "nil", "err", "panic", "killed"}]
    /\ listener \in [Procs -> {"none", "open", "closed", "abandoned"}]

\* The connections.
NetType ==
    /\ conn \in [AllSenders -> {"none", "syn", "up"}]
    /\ sent \in [AllSenders -> Nat]
    /\ ending \in [AllSenders -> {"open", "eof", "cut"}]
    /\ faults \in Nat

\* The receiver.
RecvType ==
    /\ thread \in [AllSenders -> {"none", "dial", "open", "read", "write", "writing",
                                  "ended", "done"}]
    /\ got \in [AllSenders -> Nat]
    /\ rerr \in BOOLEAN
    /\ holder \in {0} \cup Senders
    /\ out \in Seq(Senders \X Nat \X {1, 2})

----------------------------------------------------------------------------
(* The streams. *)

\* The stream of s has been received as far as the receiver can tell.
Accounted(s) ==
    /\ got[s] = sent[s]
    /\ \/ ending[s] = "eof" /\ sent[s] = Blocks
       \/ ending[s] = "cut" /\ shape.comp = "none"
       \/ ending[s] = "cut" /\ sent[s] = 0 /\ shape.comp = "zstd"
       \/ ending[s] = "cut" /\ sent[s] = 0 /\ shape.comp = "gzip" /\ Push /\ One

\* A sender ends its stream when it ends itself, the receiver does not overtake it,
\* and a goroutine of the receiver that ends has set err or accounts for its stream.
FlowOf(s) ==
    /\ ending[s] = "open" <=> Running(s)
    /\ ending[s] = "eof" => sent[s] = Blocks
    /\ got[s] <= sent[s]
    /\ thread[s] \in {"write", "writing"} => got[s] < sent[s]
    /\ thread[s] \in {"ended", "done"} => rerr \/ Accounted(s)
FlowInv == \A s \in Senders : FlowOf(s)

\* The receiver returns nil only after all its goroutines, and without err.
NilInv == result[Receiver] = "nil" => AllDone /\ ~rerr

\* wmu: the goroutine in the middle of a block holds it, and the first half of its
\* block is the last thing on the standard output.
HolderOf(s) ==
    /\ thread[s] = "writing" <=> holder = s
    /\ thread[s] = "writing" => Len(out) > 0 /\ out[Len(out)] = <<s, got[s] + 1, 1>>
HolderInv == \A s \in Senders : HolderOf(s)

\* No half is left alone but at the end or by a goroutine that has failed, and no
\* block comes before its turn.
HalvesInv ==
    /\ \A i \in DOMAIN out : out[i][3] = 1 =>
          \/ i < Len(out) /\ out[i + 1] = <<out[i][1], out[i][2], 2>>
          \/ i = Len(out) /\ thread[out[i][1]] = "writing"
          \/ thread[out[i][1]] \in {"ended", "done"}
    /\ \A i \in DOMAIN out : out[i][2] <= got[out[i][1]] + 1
    /\ \A i, j \in DOMAIN out : i < j /\ out[i][1] = out[j][1] => out[i][2] <= out[j][2]

----------------------------------------------------------------------------
(* The wiring, and a run without faults. *)

\* How far a sender and its connection are.
WireOf(s) ==
    /\ result[s] = "nil" => step[s] = "stream"
    /\ Push => /\ step[s] \in {"dial", "stream"} /\ thread[s] # "dial"
               /\ thread[s] = "none" <=> conn[s] # "up"
               /\ step[s] = "dial" => conn[s] = "none"
    /\ ~Push => /\ step[s] \in {"listen", "file", "accept", "stream"}
                /\ thread[s] = "dial" => conn[s] = "none"
                /\ step[s] = "stream" <=> conn[s] = "up"
WireInv == \A s \in Senders : WireOf(s)

\* How far the receiver is.
MainInv ==
    /\ Push => /\ step[Receiver] \in {"listen", "file", "accept", "wait", "poll", "stream"}
               /\ step[Receiver] \in {"accept", "stream"} => One
               /\ step[Receiver] \in {"wait", "poll"} => ~One
               /\ step[Receiver] \in {"listen", "file", "accept"}
                     => \A s \in Senders : thread[s] = "none"
               /\ step[Receiver] = "stream" => \A s \in Senders : thread[s] # "none"
    /\ ~Push => step[Receiver] = "run"

\* ConcurrentServer stops listening when it has all its clients.
ServeInv ==
    Push /\ step[Receiver] \in {"wait", "poll"} /\ listener[Receiver] = "open"
        => \E s \in Senders : thread[s] = "none"

\* Without a fault no process has failed, a process that waits for a connection
\* listens, and a deadline that has passed has found every client connected.
CleanOf(p) ==
    /\ result[p] \in {"running", "nil"}
    /\ p \in Senders => ending[p] # "cut"
    /\ Running(p) /\ step[p] \in {"file", "accept"} => listener[p] = "open"
    /\ p \in late => \A s \in Expected(p) \cap Senders : conn[s] = "up"

\* ... nor has a goroutine of the receiver, and ConcurrentServer listens as long as a
\* client is missing.
CleanReceiver ==
    /\ ~rerr
    /\ Push /\ ReceiverUp /\ step[Receiver] \in {"wait", "poll"}
          => listener[Receiver] = "open" \/ \A s \in Senders : thread[s] # "none"

CleanProcs == \A p \in Procs : CleanOf(p)
CleanInv == faults = 0 => CleanProcs /\ CleanReceiver

----------------------------------------------------------------------------
(* The shape of a copy. *)

\* No step changes the direction, the number of senders or the compression.
LEMMA ShapeStays == [Next]_vars => shape' = shape
BY DEF Next, vars, Done, MainSteps, SenderSteps, ThreadSteps, Start, WriteFile, ServeOneTime,
       Deadline, Kill, DialPush, Send, FinishSend, DialPull, OpenReader, ReadBlock, ReadEnd,
       Write, WriteDone, Increase, WriteFails, Serve, Return, WaitErr, WaitDone

\* ... and so no step changes who takes part.
LEMMA ShapeFixes ==
    ASSUME shape' = shape
    PROVE  UNCHANGED <<shape, Senders, Procs, Push, One>>
BY DEF Senders, Procs, Push, One

\* The receiver is none of the senders.
LEMMA SendersType ==
    ASSUME ProcType
    PROVE  /\ Senders \subseteq AllSenders /\ Receiver \in Procs /\ Receiver \notin Senders
           /\ Senders \subseteq Procs /\ \A p \in Procs : p # Receiver => p \in Senders
BY SMTT(30), StreamAssumption DEF ProcType, Senders, AllSenders, Procs, Receiver

\* The steps of a goroutine of the receiver that has a connection.
Goroutine(s) ==
    \/ OpenReader(s) \/ ReadBlock(s) \/ ReadEnd(s) \/ Write(s) \/ WriteDone(s)
    \/ Increase(s) \/ WriteFails(s)

\* Such a goroutine leaves the processes and the network alone, and is neither one that
\* has yet to be accepted nor one that dials.
LEMMA GoroutineFrame ==
    ASSUME RecvType, NEW s, s \in AllSenders, Goroutine(s)
    PROVE  /\ UNCHANGED <<step, result, listener, late, tries, conn, sent, ending>>
           /\ ReceiverUp
           /\ \A u \in AllSenders : thread'[u] = "none" <=> thread[u] = "none"
           /\ \A u \in AllSenders : thread'[u] = "dial" <=> thread[u] = "dial"
<1> USE DEF RecvType, procs, net
<1>1. UNCHANGED <<step, result, listener, late, tries, conn, sent, ending>> /\ ReceiverUp
  BY DEF Goroutine, OpenReader, ReadBlock, ReadEnd, Write, WriteDone, Increase, WriteFails
<1>2. thread[s] # "none" /\ thread[s] # "dial"
  BY DEF Goroutine, OpenReader, ReadBlock, ReadEnd, Write, WriteDone, Increase, WriteFails
<1>3. \E x \in {"read", "write", "writing", "ended", "done"} :
          thread' = [thread EXCEPT ![s] = x]
  BY DEF Goroutine, OpenReader, ReadBlock, ReadEnd, Write, WriteDone, Increase, WriteFails,
         EndThread
<1> QED
  BY <1>1, <1>2, <1>3

\* The steps of the processes that neither make nor accept a connection for the receiver.
Outside ==
    \/ \E p \in Procs : Start(p) \/ WriteFile(p) \/ Deadline(p) \/ Kill(p)
    \/ \E s \in Senders : DialPush(s) \/ Send(s) \/ FinishSend(s)
    \/ Return \/ WaitErr \/ WaitDone \/ UNCHANGED vars

\* They leave its goroutines and its standard output alone.
LEMMA OutsideFrame == Outside => UNCHANGED <<thread, got, rerr, logged, holder, out>>
BY DEF Outside, Start, WriteFile, Deadline, Kill, DialPush, Send, FinishSend, Return, WaitErr,
       WaitDone, vars, recv

\* Every step is one of these, or makes or accepts a connection.
LEMMA StepKinds ==
    ASSUME [Next]_vars
    PROVE  \/ Outside \/ Serve
           \/ \E p \in Procs : ServeOneTime(p)
           \/ \E s \in Senders : DialPull(s) \/ Goroutine(s)
BY DEF Outside, Goroutine, Next, MainSteps, SenderSteps, ThreadSteps, Done

\* Every step preserves the types of the processes.
LEMMA ProcTypeNext ==
    ASSUME ProcType, [Next]_vars
    PROVE  ProcType'
<1> USE DEF ProcType, procs, net, recv
<1>a. UNCHANGED <<shape, Senders, Procs, Push, One>>
  BY ShapeStays, ShapeFixes
<1>b. Senders \subseteq AllSenders /\ Receiver \in Procs /\ Receiver \notin Senders
      /\ Senders \subseteq Procs /\ \A p \in Procs : p # Receiver => p \in Senders
  BY SendersType
<1>1. ASSUME NEW p \in Procs, Start(p)  PROVE ProcType'
  BY <1>a, <1>b, <1>1 DEF Start, EndOfProcess
<1>2. ASSUME NEW p \in Procs, WriteFile(p)  PROVE ProcType'
  BY <1>a, <1>b, <1>2 DEF WriteFile, EndOfProcess
<1>3. ASSUME NEW p \in Procs, ServeOneTime(p)  PROVE ProcType'
  BY <1>a, <1>b, <1>3 DEF ServeOneTime, EndOfProcess, Expected
<1>4. ASSUME NEW p \in Procs, Deadline(p)  PROVE ProcType'
  BY <1>a, <1>b, <1>4 DEF Deadline
<1>5. ASSUME NEW p \in Procs, Kill(p)  PROVE ProcType'
  BY <1>a, <1>b, <1>5 DEF Kill, EndOfProcess
<1>6. ASSUME NEW s \in Senders, DialPush(s)  PROVE ProcType'
  BY SMTT(30), <1>a, <1>b, <1>6 DEF DialPush, EndOfProcess
<1>7. ASSUME NEW s \in Senders, Send(s)  PROVE ProcType'
  BY SMTT(30), <1>a, <1>b, <1>7 DEF Send, EndOfProcess
<1>8. ASSUME NEW s \in Senders, FinishSend(s)  PROVE ProcType'
  BY <1>a, <1>b, <1>8 DEF FinishSend, EndOfProcess
<1>9. ASSUME NEW s \in Senders, DialPull(s)  PROVE ProcType'
  BY <1>a, <1>b, <1>9 DEF DialPull
<1>10. CASE Serve
  BY <1>a, <1>b, <1>10 DEF Serve
<1>11. CASE Return
  BY <1>a, <1>b, <1>11 DEF Return, EndOfProcess
<1>12. CASE WaitErr
  BY <1>a, <1>b, <1>12 DEF WaitErr, EndOfProcess
<1>13. CASE WaitDone
  BY <1>a, <1>b, <1>13 DEF WaitDone, EndOfProcess
<1>14. CASE UNCHANGED vars
  BY <1>a, <1>b, <1>14 DEF vars
<1>15. ASSUME NEW s \in Senders, Goroutine(s)  PROVE ProcType'
  BY <1>a, <1>15 DEF Goroutine, OpenReader, ReadBlock, ReadEnd, Write, WriteDone, Increase, WriteFails
<1> HIDE DEF ProcType
<1> QED
  BY <1>1, <1>2, <1>3, <1>4, <1>5, <1>6, <1>7, <1>8, <1>9, <1>10, <1>11, <1>12, <1>13,
     <1>14, <1>15, StepKinds DEF Outside

\* Every step preserves the types of the connections.
LEMMA NetTypeNext ==
    ASSUME ProcType, NetType, [Next]_vars
    PROVE  NetType'
<1> USE DEF NetType, procs, net, recv
<1>a. UNCHANGED <<shape, Senders, Procs, Push, One>>
  BY ShapeStays, ShapeFixes
<1>b. Senders \subseteq AllSenders /\ Receiver \in Procs /\ Receiver \notin Senders
      /\ Senders \subseteq Procs /\ \A p \in Procs : p # Receiver => p \in Senders
  BY SendersType
<1>1. ASSUME NEW p \in Procs, Start(p)  PROVE NetType'
  BY SMTT(30), <1>a, <1>b, <1>1 DEF Start, Cut, Fault
<1>2. ASSUME NEW p \in Procs, WriteFile(p)  PROVE NetType'
  BY SMTT(30), <1>a, <1>b, <1>2 DEF WriteFile, Cut, Fault
<1>3. ASSUME NEW p \in Procs, ServeOneTime(p)  PROVE NetType'
  BY <1>a, <1>b, <1>3 DEF ServeOneTime, Cut, Expected
<1>4. ASSUME NEW p \in Procs, Deadline(p)  PROVE NetType'
  BY SMTT(30), <1>a, <1>b, <1>4 DEF Deadline
<1>5. ASSUME NEW p \in Procs, Kill(p)  PROVE NetType'
  BY SMTT(30), <1>a, <1>b, <1>5 DEF Kill, Cut, Fault
<1>6. ASSUME NEW s \in Senders, DialPush(s)  PROVE NetType'
  BY SMTT(30), <1>a, <1>b, <1>6 DEF DialPush, Cut, Fault
<1>7. ASSUME NEW s \in Senders, Send(s)  PROVE NetType'
  BY SMTT(30), <1>a, <1>b, <1>7 DEF Send, Cut, Fault
<1>8. ASSUME NEW s \in Senders, FinishSend(s)  PROVE NetType'
  BY SMTT(30), <1>a, <1>b, <1>8 DEF FinishSend, Cut, Fault
<1>9. ASSUME NEW s \in Senders, DialPull(s)  PROVE NetType'
  BY SMTT(30), <1>a, <1>b, <1>9 DEF DialPull, Fault
<1>10. CASE Serve
  BY <1>a, <1>b, <1>10 DEF Serve, AcceptNext, AcceptFails
<1>11. CASE Return
  BY <1>a, <1>b, <1>11 DEF Return
<1>12. CASE WaitErr
  BY <1>a, <1>b, <1>12 DEF WaitErr
<1>13. CASE WaitDone
  BY <1>a, <1>b, <1>13 DEF WaitDone
<1>14. CASE UNCHANGED vars
  BY <1>a, <1>b, <1>14 DEF vars
<1>15. ASSUME NEW s \in Senders, Goroutine(s)  PROVE NetType'
  <2>1. UNCHANGED <<tries, conn, sent, ending>> /\ faults' \in {faults, faults + 1}
    BY <1>15 DEF Goroutine, OpenReader, ReadBlock, ReadEnd, Write, WriteDone, Increase, WriteFails,
              Fault
  <2> QED
    BY SMTT(30), <1>a, <2>1
<1> HIDE DEF NetType
<1> QED
  BY <1>1, <1>2, <1>3, <1>4, <1>5, <1>6, <1>7, <1>8, <1>9, <1>10, <1>11, <1>12, <1>13,
     <1>14, <1>15, StepKinds DEF Outside

\* Every step preserves the types of the receiver.
LEMMA RecvTypeNext ==
    ASSUME ProcType, RecvType, [Next]_vars
    PROVE  RecvType'
<1> USE DEF RecvType, procs, net, recv
<1>a. UNCHANGED <<shape, Senders, Procs, Push, One>>
  BY ShapeStays, ShapeFixes
<1>b. Senders \subseteq AllSenders /\ Receiver \in Procs /\ Receiver \notin Senders
      /\ Senders \subseteq Procs /\ \A p \in Procs : p # Receiver => p \in Senders
  BY SendersType
<1>1. ASSUME NEW p \in Procs, ServeOneTime(p)  PROVE RecvType'
  BY <1>a, <1>b, <1>1 DEF ServeOneTime, Expected
<1>2. ASSUME NEW s \in Senders, DialPull(s)  PROVE RecvType'
  BY <1>a, <1>b, <1>2 DEF DialPull
<1>3. ASSUME NEW s \in Senders, OpenReader(s)  PROVE RecvType'
  BY <1>a, <1>b, <1>3 DEF OpenReader, EndThread
<1>4. ASSUME NEW s \in Senders, ReadBlock(s)  PROVE RecvType'
  BY <1>a, <1>b, <1>4 DEF ReadBlock
<1>5. ASSUME NEW s \in Senders, ReadEnd(s)  PROVE RecvType'
  BY <1>a, <1>b, <1>5 DEF ReadEnd, EndThread
<1>6. ASSUME NEW s \in Senders, Write(s)  PROVE RecvType'
  BY SMTT(30), <1>a, <1>b, <1>6 DEF Write
<1>7. ASSUME NEW s \in Senders, WriteDone(s)  PROVE RecvType'
  BY SMTT(30), <1>a, <1>b, <1>7 DEF WriteDone
<1>8. ASSUME NEW s \in Senders, Increase(s)  PROVE RecvType'
  BY <1>a, <1>b, <1>8 DEF Increase
<1>9. ASSUME NEW s \in Senders, WriteFails(s)  PROVE RecvType'
  BY <1>a, <1>b, <1>9 DEF WriteFails, EndThread
<1>10. CASE Serve
  BY <1>a, <1>b, <1>10 DEF Serve, AcceptNext, AcceptFails
<1>11. CASE Outside
  BY <1>a, <1>b, <1>11, OutsideFrame
<1> HIDE DEF RecvType
<1> QED
  BY <1>1, <1>2, <1>3, <1>4, <1>5, <1>6, <1>7, <1>8, <1>9, <1>10, <1>11, StepKinds DEF
     Goroutine

\* Every step preserves FlowInv.
LEMMA FlowNext ==
    ASSUME ProcType, NetType, RecvType, FlowInv, [Next]_vars
    PROVE  FlowInv'
<1> USE DEF FlowOf, Accounted, Running, procs, net, recv
<1>a. UNCHANGED <<shape, Senders, Procs, Push, One>>
  BY ShapeStays, ShapeFixes
<1>b. Senders \subseteq AllSenders /\ Receiver \in Procs /\ Receiver \notin Senders
      /\ Senders \subseteq Procs /\ \A p \in Procs : p # Receiver => p \in Senders
  BY SendersType
<1>1. ASSUME NEW p \in Procs, Start(p)  PROVE FlowInv'
  <2> SUFFICES ASSUME NEW u \in Senders  PROVE FlowOf(u)'
    BY <1>a DEF FlowInv
  <2>1. FlowOf(u) /\ (p \in Senders => FlowOf(p))
    BY DEF FlowInv
  <2> QED
    BY SMTT(30), <1>a, <1>b, <1>1, <2>1 DEF Start, EndOfProcess, Cut, Fault, ProcType,
    NetType, RecvType, ReceiverUp
<1>2. ASSUME NEW p \in Procs, WriteFile(p)  PROVE FlowInv'
  <2> SUFFICES ASSUME NEW u \in Senders  PROVE FlowOf(u)'
    BY <1>a DEF FlowInv
  <2>1. FlowOf(u) /\ (p \in Senders => FlowOf(p))
    BY DEF FlowInv
  <2> QED
    BY SMTT(30), <1>a, <1>b, <1>2, <2>1 DEF WriteFile, EndOfProcess, Cut, Fault, ProcType,
    NetType, RecvType, ReceiverUp
<1>3. ASSUME NEW p \in Procs, ServeOneTime(p)  PROVE FlowInv'
  <2> SUFFICES ASSUME NEW u \in Senders  PROVE FlowOf(u)'
    BY <1>a DEF FlowInv
  <2>1. FlowOf(u) /\ (p \in Senders => FlowOf(p))
    BY DEF FlowInv
  <2> QED
    BY SMTT(30), <1>a, <1>b, <1>3, <2>1 DEF ServeOneTime, EndOfProcess, Cut, Expected,
    ProcType, NetType, RecvType, ReceiverUp
<1>4. ASSUME NEW p \in Procs, Deadline(p)  PROVE FlowInv'
  <2> SUFFICES ASSUME NEW u \in Senders  PROVE FlowOf(u)'
    BY <1>a DEF FlowInv
  <2>1. FlowOf(u) /\ (p \in Senders => FlowOf(p))
    BY DEF FlowInv
  <2> QED
    BY <1>a, <1>b, <1>4, <2>1 DEF Deadline, ProcType, NetType, RecvType, ReceiverUp
<1>5. ASSUME NEW p \in Procs, Kill(p)  PROVE FlowInv'
  <2> SUFFICES ASSUME NEW u \in Senders  PROVE FlowOf(u)'
    BY <1>a DEF FlowInv
  <2>1. FlowOf(u) /\ (p \in Senders => FlowOf(p))
    BY DEF FlowInv
  <2> QED
    BY SMTT(30), <1>a, <1>b, <1>5, <2>1 DEF Kill, EndOfProcess, Cut, Fault, ProcType,
    NetType, RecvType, ReceiverUp
<1>6. ASSUME NEW s \in Senders, DialPush(s)  PROVE FlowInv'
  <2> SUFFICES ASSUME NEW u \in Senders  PROVE FlowOf(u)'
    BY <1>a DEF FlowInv
  <2>1. FlowOf(u) /\ (s \in Senders => FlowOf(s))
    BY DEF FlowInv
  <2> QED
    BY SMTT(30), <1>a, <1>b, <1>6, <2>1 DEF DialPush, EndOfProcess, Cut, Fault, ProcType,
    NetType, RecvType, ReceiverUp
<1>7. ASSUME NEW s \in Senders, Send(s)  PROVE FlowInv'
  <2> SUFFICES ASSUME NEW u \in Senders  PROVE FlowOf(u)'
    BY <1>a DEF FlowInv
  <2>1. FlowOf(u) /\ (s \in Senders => FlowOf(s))
    BY DEF FlowInv
  <2> QED
    BY SMTT(30), <1>a, <1>b, <1>7, <2>1 DEF Send, EndOfProcess, Cut, Fault, ProcType,
    NetType, RecvType, ReceiverUp
<1>8. ASSUME NEW s \in Senders, FinishSend(s)  PROVE FlowInv'
  <2> SUFFICES ASSUME NEW u \in Senders  PROVE FlowOf(u)'
    BY <1>a DEF FlowInv
  <2>1. FlowOf(u) /\ (s \in Senders => FlowOf(s))
    BY DEF FlowInv
  <2> QED
    BY SMTT(30), <1>a, <1>b, <1>8, <2>1 DEF FinishSend, EndOfProcess, Cut, Fault, ProcType,
    NetType, RecvType, ReceiverUp
<1>9. ASSUME NEW s \in Senders, DialPull(s)  PROVE FlowInv'
  <2> SUFFICES ASSUME NEW u \in Senders  PROVE FlowOf(u)'
    BY <1>a DEF FlowInv
  <2>1. FlowOf(u) /\ (s \in Senders => FlowOf(s))
    BY DEF FlowInv
  <2> QED
    BY SMTT(30), <1>a, <1>b, <1>9, <2>1 DEF DialPull, Fault, ProcType, NetType, RecvType,
    ReceiverUp
<1>10. ASSUME NEW s \in Senders, OpenReader(s)  PROVE FlowInv'
  <2> SUFFICES ASSUME NEW u \in Senders  PROVE FlowOf(u)'
    BY <1>a DEF FlowInv
  <2>1. FlowOf(u)
    BY DEF FlowInv
  <2>2. UNCHANGED <<result, ending, sent, got>>
    BY <1>10 DEF OpenReader
  <2>3. \/ thread' = [thread EXCEPT ![s] = "read"] /\ UNCHANGED rerr
        \/ /\ shape.comp = "gzip" /\ sent[s] = 0 /\ ending[s] = "cut"
           /\ EndThread(s, ~(Push /\ One))
    BY <1>10 DEF OpenReader
  <2>4. CASE u # s
    <3>1. thread'[u] = thread[u]
      BY <1>b, <2>3, <2>4 DEF EndThread, RecvType
    <3>2. rerr => rerr'
      BY <2>3 DEF EndThread
    <3> QED
      BY <1>a, <2>1, <2>2, <3>1, <3>2
  <2>5. CASE u = s /\ thread' = [thread EXCEPT ![s] = "read"] /\ UNCHANGED rerr
    BY <1>a, <1>b, <2>1, <2>2, <2>5 DEF RecvType
  <2>6. CASE /\ u = s /\ shape.comp = "gzip" /\ sent[s] = 0 /\ ending[s] = "cut"
             /\ EndThread(s, ~(Push /\ One))
    <3>1. got[s] = sent[s]
      BY SMTT(30), <1>b, <2>1, <2>6 DEF NetType, RecvType
    <3>2. thread'[s] = "ended"
      BY <1>b, <2>6 DEF EndThread, RecvType
    <3>3. rerr' \/ (Push /\ One)
      BY <2>6 DEF EndThread, Push, One
    <3>4. rerr' \/ Accounted(s)'
      BY <1>a, <2>2, <2>6, <3>1, <3>3
    <3> HIDE DEF Accounted
    <3> QED
      BY <1>a, <2>1, <2>2, <2>6, <3>2, <3>4
  <2> QED
    BY <2>3, <2>4, <2>5, <2>6
<1>11. ASSUME NEW s \in Senders, ReadBlock(s)  PROVE FlowInv'
  <2> SUFFICES ASSUME NEW u \in Senders  PROVE FlowOf(u)'
    BY <1>a DEF FlowInv
  <2>1. FlowOf(u) /\ (s \in Senders => FlowOf(s))
    BY DEF FlowInv
  <2> QED
    BY SMTT(30), <1>a, <1>b, <1>11, <2>1 DEF ReadBlock, ProcType, NetType, RecvType,
    ReceiverUp
<1>12. ASSUME NEW s \in Senders, ReadEnd(s)  PROVE FlowInv'
  <2> SUFFICES ASSUME NEW u \in Senders  PROVE FlowOf(u)'
    BY <1>a DEF FlowInv
  <2>1. FlowOf(u) /\ (s \in Senders => FlowOf(s))
    BY DEF FlowInv
  <2>2. UNCHANGED <<result, sent, ending, got>> /\ thread' = [thread EXCEPT ![s] = "ended"]
    BY <1>12 DEF ReadEnd, EndThread
  <2>3. thread[s] = "read" /\ (rerr' \/ Accounted(s)) /\ (rerr => rerr')
    BY <1>12, <2>1 DEF ReadEnd, EndThread
  <2>4. (Accounted(s)' <=> Accounted(s)) /\ (Accounted(u)' <=> Accounted(u))
    BY <1>a, <2>2
  <2> HIDE DEF Accounted
  <2> QED
    BY <1>a, <1>b, <2>1, <2>2, <2>3, <2>4 DEF RecvType
<1>13. ASSUME NEW s \in Senders, Write(s)  PROVE FlowInv'
  <2> SUFFICES ASSUME NEW u \in Senders  PROVE FlowOf(u)'
    BY <1>a DEF FlowInv
  <2>1. FlowOf(u) /\ (s \in Senders => FlowOf(s))
    BY DEF FlowInv
  <2> QED
    BY SMTT(30), <1>a, <1>b, <1>13, <2>1 DEF Write, ProcType, NetType, RecvType, ReceiverUp
<1>14. ASSUME NEW s \in Senders, WriteDone(s)  PROVE FlowInv'
  <2> SUFFICES ASSUME NEW u \in Senders  PROVE FlowOf(u)'
    BY <1>a DEF FlowInv
  <2>1. FlowOf(u) /\ (s \in Senders => FlowOf(s))
    BY DEF FlowInv
  <2> QED
    BY SMTT(30), <1>a, <1>b, <1>14, <2>1 DEF WriteDone, ProcType, NetType, RecvType,
    ReceiverUp
<1>15. ASSUME NEW s \in Senders, Increase(s)  PROVE FlowInv'
  <2> SUFFICES ASSUME NEW u \in Senders  PROVE FlowOf(u)'
    BY <1>a DEF FlowInv
  <2>1. FlowOf(u) /\ (s \in Senders => FlowOf(s))
    BY DEF FlowInv
  <2> QED
    BY <1>a, <1>b, <1>15, <2>1 DEF Increase, ProcType, NetType, RecvType,
    ReceiverUp
<1>16. ASSUME NEW s \in Senders, WriteFails(s)  PROVE FlowInv'
  <2> SUFFICES ASSUME NEW u \in Senders  PROVE FlowOf(u)'
    BY <1>a DEF FlowInv
  <2>1. FlowOf(u) /\ (s \in Senders => FlowOf(s))
    BY DEF FlowInv
  <2> QED
    BY <1>a, <1>b, <1>16, <2>1 DEF WriteFails, EndThread, Fault, ProcType, NetType,
    RecvType, ReceiverUp
<1>17. CASE Serve
  <2> SUFFICES ASSUME NEW u \in Senders  PROVE FlowOf(u)'
    BY <1>a DEF FlowInv
  <2>1. FlowOf(u)
    BY DEF FlowInv
  <2> QED
    BY SMTT(30), <1>a, <1>b, <1>17, <2>1 DEF Serve, AcceptNext, AcceptFails, ProcType,
    NetType, RecvType, ReceiverUp
<1>18. CASE Return
  <2> SUFFICES ASSUME NEW u \in Senders  PROVE FlowOf(u)'
    BY <1>a DEF FlowInv
  <2>1. FlowOf(u)
    BY DEF FlowInv
  <2> QED
    BY SMTT(30), <1>a, <1>b, <1>18, <2>1 DEF Return, EndOfProcess, ProcType, NetType,
    RecvType, ReceiverUp
<1>19. CASE WaitErr
  <2> SUFFICES ASSUME NEW u \in Senders  PROVE FlowOf(u)'
    BY <1>a DEF FlowInv
  <2>1. FlowOf(u)
    BY DEF FlowInv
  <2> QED
    BY SMTT(30), <1>a, <1>b, <1>19, <2>1 DEF WaitErr, EndOfProcess, ProcType, NetType,
    RecvType, ReceiverUp
<1>20. CASE WaitDone
  <2> SUFFICES ASSUME NEW u \in Senders  PROVE FlowOf(u)'
    BY <1>a DEF FlowInv
  <2>1. FlowOf(u)
    BY DEF FlowInv
  <2> QED
    BY SMTT(30), <1>a, <1>b, <1>20, <2>1 DEF WaitDone, EndOfProcess, ProcType, NetType,
    RecvType, ReceiverUp
<1>21. CASE UNCHANGED vars
  <2> SUFFICES ASSUME NEW u \in Senders  PROVE FlowOf(u)'
    BY <1>a DEF FlowInv
  <2>1. FlowOf(u)
    BY DEF FlowInv
  <2> QED
    BY <1>a, <1>b, <1>21, <2>1 DEF vars
<1> HIDE DEF FlowInv
<1> QED
  BY <1>1, <1>2, <1>3, <1>4, <1>5, <1>6, <1>7, <1>8, <1>9, <1>10, <1>11, <1>12,
  <1>13, <1>14, <1>15, <1>16, <1>17, <1>18, <1>19, <1>20, <1>21 DEF Next,
  MainSteps, SenderSteps, ThreadSteps, Done

\* Every step preserves WireInv.
LEMMA WireNext ==
    ASSUME ProcType, NetType, RecvType, WireInv, MainInv, [Next]_vars
    PROVE  WireInv'
<1>a. UNCHANGED <<shape, Senders, Procs, Push, One>>
  BY ShapeStays, ShapeFixes
<1>b. Senders \subseteq AllSenders /\ Receiver \in Procs /\ Receiver \notin Senders
      /\ Senders \subseteq Procs /\ \A p \in Procs : p # Receiver => p \in Senders
  BY SendersType
<1> SUFFICES ASSUME NEW u \in Senders  PROVE WireOf(u)'
  BY <1>a DEF WireInv
<1>c. WireOf(u)
  BY DEF WireInv
<1>d. u \in Procs /\ u \in AllSenders /\ u # Receiver
  BY <1>b
<1>e. ASSUME step'[u] = step[u], conn'[u] = conn[u],
             thread'[u] = "none" <=> thread[u] = "none",
             thread'[u] = "dial" <=> thread[u] = "dial",
             result'[u] = "nil" => result[u] = "nil" \/ step[u] = "stream"
      PROVE  WireOf(u)'
  BY <1>a, <1>c, <1>e DEF WireOf
<1>f. DOMAIN step = Procs /\ DOMAIN result = Procs /\ DOMAIN conn = AllSenders
      /\ DOMAIN thread = AllSenders
  BY DEF ProcType, NetType, RecvType
<1>1. ASSUME NEW p \in Procs, Start(p)  PROVE WireOf(u)'
  <2>1. UNCHANGED <<conn, thread>> /\ step[p] = "listen"
    BY <1>1 DEF Start, recv
  <2>2. \/ step' = [step EXCEPT ![p] = "file"] /\ result' = result
        \/ step' = step /\ result' = [result EXCEPT ![p] = "err"]
    BY <1>1 DEF Start, EndOfProcess
  <2>3. CASE p = u
    BY <1>a, <1>c, <1>d, <1>f, <2>1, <2>2, <2>3 DEF WireOf
  <2>4. CASE p # u
    BY <1>d, <1>e, <1>f, <2>1, <2>2, <2>4
  <2> QED
    BY <2>3, <2>4
<1>2. ASSUME NEW p \in Procs, WriteFile(p)  PROVE WireOf(u)'
  <2>1. UNCHANGED <<conn, thread>> /\ step[p] = "file"
    BY <1>2 DEF WriteFile, recv
  <2>2. \/ step' = [step EXCEPT ![p] = IF p = Receiver /\ ~One THEN "wait" ELSE "accept"]
           /\ result' = result
        \/ step' = step /\ result' = [result EXCEPT ![p] = "err"]
    BY <1>2 DEF WriteFile, EndOfProcess
  <2>3. CASE p = u
    BY <1>a, <1>c, <1>d, <1>f, <2>1, <2>2, <2>3 DEF WireOf
  <2>4. CASE p # u
    BY <1>d, <1>e, <1>f, <2>1, <2>2, <2>4
  <2> QED
    BY <2>3, <2>4
<1>3. ASSUME NEW p \in Procs, ServeOneTime(p)  PROVE WireOf(u)'
  <2>1. CASE UNCHANGED <<step, conn, thread>> /\ result' = [result EXCEPT ![p] = "panic"]
    BY <1>d, <1>e, <1>f, <2>1
  <2>2. ASSUME NEW c \in Expected(p), conn[c] = "syn", conn' = [conn EXCEPT ![c] = "up"],
               thread' = IF Push THEN [thread EXCEPT ![c] = "open"] ELSE thread,
               step' = [step EXCEPT ![p] = "stream"], result' = result
        PROVE  WireOf(u)'
    <3>1. step[p] = "accept"
      BY <1>3 DEF ServeOneTime
    <3>2. CASE Push
      <4>1. p # u
        BY <1>c, <3>1, <3>2 DEF WireOf
      <4>2. c \in AllSenders
        BY <1>b, <2>2, <3>2 DEF Expected
      <4>3. CASE c = u
        BY <1>a, <1>c, <1>d, <1>f, <2>2, <3>2, <4>1, <4>3 DEF WireOf
      <4>4. CASE c # u
        BY <1>d, <1>e, <1>f, <2>2, <3>2, <4>1, <4>4
      <4> QED
        BY <4>3, <4>4
    <3>3. CASE ~Push
      <4>1. c = p
        BY <2>2, <3>3 DEF Expected
      <4>2. CASE p = u
        BY <1>a, <1>c, <1>d, <1>f, <2>2, <3>3, <4>1, <4>2 DEF WireOf
      <4>3. CASE p # u
        BY <1>d, <1>e, <1>f, <2>2, <3>3, <4>1, <4>3
      <4> QED
        BY <4>2, <4>3
    <3> QED
      BY <3>2, <3>3
  <2> QED
    BY <1>3, <2>1, <2>2 DEF ServeOneTime, EndOfProcess
<1>4. ASSUME NEW p \in Procs, Deadline(p) \/ Kill(p)  PROVE WireOf(u)'
  <2>1. UNCHANGED <<step, conn, thread>>
    BY <1>4 DEF Deadline, Kill, net, recv
  <2>2. result' = result \/ result' = [result EXCEPT ![p] = "killed"]
    BY <1>4 DEF Deadline, Kill, EndOfProcess
  <2> QED
    BY <1>d, <1>e, <1>f, <2>1, <2>2
<1>5. ASSUME NEW s \in Senders, DialPush(s)  PROVE WireOf(u)'
  <2>1. Push /\ thread' = thread /\ step[s] = "dial"
    BY <1>5 DEF DialPush, recv
  <2>2. \/ conn' = [conn EXCEPT ![s] = "syn"] /\ step' = [step EXCEPT ![s] = "stream"]
           /\ result' = result
        \/ UNCHANGED <<step, conn>> /\ result' \in {result, [result EXCEPT ![s] = "err"]}
    BY <1>5 DEF DialPush, EndOfProcess
  <2>3. CASE s = u
    BY <1>a, <1>c, <1>d, <1>f, <2>1, <2>2, <2>3 DEF WireOf
  <2>4. CASE s # u
    BY <1>d, <1>e, <1>f, <2>1, <2>2, <2>4
  <2> QED
    BY <2>3, <2>4
<1>6. ASSUME NEW s \in Senders, Send(s) \/ FinishSend(s)  PROVE WireOf(u)'
  <2>1. UNCHANGED <<step, conn, thread>> /\ step[s] = "stream"
    BY <1>6 DEF Send, FinishSend, recv
  <2>2. result' = result \/ \E r \in {"err", "nil"} : result' = [result EXCEPT ![s] = r]
    BY <1>6 DEF Send, FinishSend, EndOfProcess
  <2> QED
    BY <1>d, <1>e, <1>f, <2>1, <2>2
<1>7. ASSUME NEW s \in Senders, DialPull(s)  PROVE WireOf(u)'
  <2>1. ~Push /\ UNCHANGED <<step, result>> /\ thread[s] = "dial"
    BY <1>7 DEF DialPull, procs
  <2>2. \/ conn' = [conn EXCEPT ![s] = "syn"] /\ thread' = [thread EXCEPT ![s] = "open"]
        \/ conn' = conn /\ thread' \in {thread, [thread EXCEPT ![s] = "ended"]}
    BY <1>7 DEF DialPull
  <2>3. CASE s = u
    BY <1>a, <1>c, <1>d, <1>f, <2>1, <2>2, <2>3 DEF WireOf
  <2>4. CASE s # u
    BY <1>d, <1>e, <1>f, <2>1, <2>2, <2>4
  <2> QED
    BY <2>3, <2>4
<1>8. ASSUME NEW s \in Senders, Goroutine(s)  PROVE WireOf(u)'
  BY <1>b, <1>d, <1>e, <1>8, GoroutineFrame
<1>9. CASE Serve
  <2>1. Push /\ UNCHANGED <<step, result>>
    BY <1>9 DEF Serve, MainInv
  <2>2. CASE UNCHANGED <<conn, thread>>
    BY <1>e, <2>1, <2>2
  <2>3. ASSUME NEW c \in Senders, AcceptNext(c)  PROVE WireOf(u)'
    <3>1. /\ conn[c] = "syn" /\ conn' = [conn EXCEPT ![c] = "up"]
          /\ thread' = [thread EXCEPT ![c] = "open"]
      BY <2>3 DEF AcceptNext
    <3>2. CASE c = u
      BY <1>a, <1>c, <1>d, <1>f, <2>1, <3>1, <3>2 DEF WireOf
    <3>3. CASE c # u
      BY <1>d, <1>e, <1>f, <2>1, <3>1, <3>3
    <3> QED
      BY <3>2, <3>3
  <2> QED
    BY <1>9, <2>2, <2>3 DEF Serve, AcceptFails
<1>10. CASE Return \/ WaitErr \/ WaitDone \/ UNCHANGED vars
  <2>1. UNCHANGED <<conn, thread>>
    BY <1>10 DEF Return, WaitErr, WaitDone, vars, net, recv
  <2>2. step' = step \/ \E x \in {"wait", "poll"} : step' = [step EXCEPT ![Receiver] = x]
    BY <1>10 DEF Return, WaitErr, WaitDone, vars, procs
  <2>3. result' = result \/ \E r \in {"err", "nil"} : result' = [result EXCEPT ![Receiver] = r]
    BY <1>10 DEF Return, WaitErr, WaitDone, EndOfProcess, vars, procs
  <2> QED
    BY <1>d, <1>e, <1>f, <2>1, <2>2, <2>3
<1> QED
  BY <1>1, <1>2, <1>3, <1>4, <1>5, <1>6, <1>7, <1>8, <1>9, <1>10, StepKinds DEF Outside

\* Every step preserves MainInv.
LEMMA MainNext ==
    ASSUME ProcType, NetType, RecvType, WireInv, MainInv, [Next]_vars
    PROVE  MainInv'
<1> USE DEF MainInv, ProcType, RecvType, ReceiverUp, procs, net, recv
<1>a. UNCHANGED <<shape, Senders, Procs, Push, One>>
  BY ShapeStays, ShapeFixes
<1>b. Senders \subseteq AllSenders /\ Receiver \in Procs /\ Receiver \notin Senders
      /\ Senders \subseteq Procs /\ \A p \in Procs : p # Receiver => p \in Senders
  BY SendersType
<1>1. ASSUME NEW p \in Procs, Start(p)  PROVE MainInv'
  BY SMTT(30), <1>a, <1>b, <1>1 DEF Start
<1>2. ASSUME NEW p \in Procs, WriteFile(p)  PROVE MainInv'
  BY SMTT(30), <1>a, <1>b, <1>2 DEF WriteFile
<1>3. ASSUME NEW p \in Procs, ServeOneTime(p)  PROVE MainInv'
  <2>1. CASE p # Receiver
    <3>1. ~Push
      BY <1>b, <1>3, <2>1 DEF ServeOneTime, WireInv, WireOf
    <3> QED
      BY <1>a, <1>b, <1>3, <2>1, <3>1 DEF ServeOneTime
  <2>2. CASE p = Receiver
    <3>1. Push /\ One /\ \A u, v \in Senders : u = v
      BY SMTT(30), <1>3, <2>2 DEF ServeOneTime, One, Senders
    <3>2. CASE step' = step /\ thread' = thread
      BY <1>a, <3>2
    <3>3. CASE step'[Receiver] = "stream" /\ \A u \in Senders : thread'[u] # "none"
      BY <1>a, <3>1, <3>3
    <3>4. ASSUME NEW c \in Senders, thread' = [thread EXCEPT ![c] = "open"]
          PROVE  \A u \in Senders : thread'[u] # "none"
      BY SMTT(30), <1>b, <3>1, <3>4
    <3>5. \/ step' = step /\ thread' = thread
          \/ /\ step' = [step EXCEPT ![Receiver] = "stream"]
             /\ \E c \in Senders : thread' = [thread EXCEPT ![c] = "open"]
      BY <1>3, <2>2, <3>1 DEF ServeOneTime, Expected
    <3> QED
      BY SMTT(30), <1>b, <3>2, <3>3, <3>4, <3>5
  <2> QED
    BY <2>1, <2>2
<1>4. ASSUME NEW p \in Procs, Deadline(p)  PROVE MainInv'
  BY <1>a, <1>b, <1>4 DEF Deadline
<1>5. ASSUME NEW p \in Procs, Kill(p)  PROVE MainInv'
  BY <1>a, <1>b, <1>5 DEF Kill
<1>6. ASSUME NEW s \in Senders, DialPush(s)  PROVE MainInv'
  BY <1>a, <1>b, <1>6 DEF DialPush
<1>7. ASSUME NEW s \in Senders, Send(s)  PROVE MainInv'
  BY <1>a, <1>b, <1>7 DEF Send
<1>8. ASSUME NEW s \in Senders, FinishSend(s)  PROVE MainInv'
  BY <1>a, <1>b, <1>8 DEF FinishSend
<1>9. ASSUME NEW s \in Senders, DialPull(s)  PROVE MainInv'
  BY <1>a, <1>b, <1>9 DEF DialPull
<1>10. CASE Serve
  BY <1>a, <1>b, <1>10 DEF Serve, AcceptNext, AcceptFails
<1>11. CASE Return
  BY <1>a, <1>b, <1>11 DEF Return
<1>12. CASE WaitErr
  BY SMTT(30), <1>a, <1>b, <1>12 DEF WaitErr
<1>13. CASE WaitDone
  BY SMTT(30), <1>a, <1>b, <1>13 DEF WaitDone
<1>14. CASE UNCHANGED vars
  BY <1>a, <1>b, <1>14 DEF vars
<1>15. ASSUME NEW s \in Senders, Goroutine(s)  PROVE MainInv'
  BY <1>a, <1>b, <1>15, GoroutineFrame
<1> HIDE DEF MainInv
<1> QED
  BY <1>1, <1>2, <1>3, <1>4, <1>5, <1>6, <1>7, <1>8, <1>9, <1>10, <1>11, <1>12, <1>13,
     <1>14, <1>15, StepKinds DEF Outside

\* Every step preserves NilInv.
LEMMA NilNext ==
    ASSUME ProcType, NetType, RecvType, WireInv, NilInv, [Next]_vars
    PROVE  NilInv'
<1> USE DEF NilInv, AllDone, ReceiverUp, Running, ProcType, RecvType, procs, net,
recv
<1>a. UNCHANGED <<shape, Senders, Procs, Push, One>>
  BY ShapeStays, ShapeFixes
<1>b. Senders \subseteq AllSenders /\ Receiver \in Procs /\ Receiver \notin Senders
      /\ Senders \subseteq Procs /\ \A p \in Procs : p # Receiver => p \in Senders
  BY SendersType
<1>1. ASSUME NEW p \in Procs, Start(p)  PROVE NilInv'
  BY SMTT(30), <1>a, <1>b, <1>1 DEF Start, EndOfProcess
<1>2. ASSUME NEW p \in Procs, WriteFile(p)  PROVE NilInv'
  BY SMTT(30), <1>a, <1>b, <1>2 DEF WriteFile, EndOfProcess
<1>3. ASSUME NEW p \in Procs, ServeOneTime(p)  PROVE NilInv'
  <2>1. CASE p = Receiver
    BY <1>a, <1>b, <1>3, <2>1 DEF ServeOneTime, EndOfProcess
  <2>2. CASE p # Receiver
    <3>1. ~Push
      BY <1>b, <1>3, <2>2 DEF ServeOneTime, WireInv, WireOf
    <3> QED
      BY SMTT(30), <1>a, <1>b, <1>3, <2>2, <3>1 DEF ServeOneTime, EndOfProcess
  <2> QED
    BY <2>1, <2>2
<1>4. ASSUME NEW p \in Procs, Deadline(p)  PROVE NilInv'
  BY <1>a, <1>b, <1>4 DEF Deadline
<1>5. ASSUME NEW p \in Procs, Kill(p)  PROVE NilInv'
  BY <1>a, <1>b, <1>5 DEF Kill, EndOfProcess
<1>6. ASSUME NEW s \in Senders, DialPush(s)  PROVE NilInv'
  BY <1>a, <1>b, <1>6 DEF DialPush, EndOfProcess
<1>7. ASSUME NEW s \in Senders, Send(s)  PROVE NilInv'
  BY <1>a, <1>b, <1>7 DEF Send, EndOfProcess
<1>8. ASSUME NEW s \in Senders, FinishSend(s)  PROVE NilInv'
  BY <1>a, <1>b, <1>8 DEF FinishSend, EndOfProcess
<1>9. ASSUME NEW s \in Senders, DialPull(s)  PROVE NilInv'
  BY <1>a, <1>b, <1>9 DEF DialPull
<1>10. CASE Serve
  BY <1>a, <1>b, <1>10 DEF Serve, AcceptNext, AcceptFails
<1>11. CASE Return
  BY <1>a, <1>b, <1>11 DEF Return, EndOfProcess
<1>12. CASE WaitErr
  BY <1>a, <1>b, <1>12 DEF WaitErr, EndOfProcess
<1>13. CASE WaitDone
  BY SMTT(30), <1>a, <1>b, <1>13 DEF WaitDone, EndOfProcess
<1>14. CASE UNCHANGED vars
  BY <1>a, <1>b, <1>14 DEF vars
<1>15. ASSUME NEW s \in Senders, Goroutine(s)  PROVE NilInv'
  BY <1>a, <1>b, <1>15, GoroutineFrame
<1> HIDE DEF NilInv
<1> QED
  BY <1>1, <1>2, <1>3, <1>4, <1>5, <1>6, <1>7, <1>8, <1>9, <1>10, <1>11, <1>12, <1>13,
     <1>14, <1>15, StepKinds DEF Outside

\* Every step preserves HolderInv.
LEMMA HolderNext ==
    ASSUME ProcType, NetType, RecvType, WireInv, MainInv, HolderInv, [Next]_vars
    PROVE  HolderInv'
<1> USE DEF HolderOf, ProcType, RecvType, procs, net, recv
<1>a. UNCHANGED <<shape, Senders, Procs, Push, One>>
  BY ShapeStays, ShapeFixes
<1>b. Senders \subseteq AllSenders /\ Receiver \in Procs /\ Receiver \notin Senders
      /\ Senders \subseteq Procs /\ \A p \in Procs : p # Receiver => p \in Senders
  BY SendersType
<1>1. ASSUME NEW p \in Procs, ServeOneTime(p)  PROVE HolderInv'
  <2> SUFFICES ASSUME NEW u \in Senders  PROVE HolderOf(u)'
    BY <1>a DEF HolderInv
  <2>1. HolderOf(u)
    BY DEF HolderInv
  <2>2. UNCHANGED <<got, holder, out>>
    BY <1>1 DEF ServeOneTime
  <2>3. ASSUME NEW c \in Senders, conn[c] = "syn", Push, thread' = [thread EXCEPT ![c] = "open"]
        PROVE  HolderOf(u)'
    <3>1. thread[c] = "none"
      BY <2>3 DEF WireInv, WireOf
    <3>2. thread'[u] = "writing" <=> thread[u] = "writing"
      BY <1>b, <2>3, <3>1
    <3> QED
      BY <2>1, <2>2, <3>2
  <2>4. CASE thread' = thread
    BY <2>1, <2>2, <2>4
  <2> QED
    BY <1>1, <2>3, <2>4 DEF ServeOneTime, Expected
<1>2. ASSUME NEW s \in Senders, DialPull(s)  PROVE HolderInv'
  <2> SUFFICES ASSUME NEW u \in Senders  PROVE HolderOf(u)'
    BY <1>a DEF HolderInv
  <2>1. HolderOf(u) /\ (s \in Senders => HolderOf(s))
    BY DEF HolderInv
  <2> QED
    BY <1>a, <1>b, <1>2, <2>1 DEF DialPull
<1>3. ASSUME NEW s \in Senders, OpenReader(s)  PROVE HolderInv'
  <2> SUFFICES ASSUME NEW u \in Senders  PROVE HolderOf(u)'
    BY <1>a DEF HolderInv
  <2>1. HolderOf(u) /\ (s \in Senders => HolderOf(s))
    BY DEF HolderInv
  <2> QED
    BY SMTT(30), <1>a, <1>b, <1>3, <2>1 DEF OpenReader, EndThread
<1>4. ASSUME NEW s \in Senders, ReadBlock(s)  PROVE HolderInv'
  <2> SUFFICES ASSUME NEW u \in Senders  PROVE HolderOf(u)'
    BY <1>a DEF HolderInv
  <2>1. HolderOf(u) /\ (s \in Senders => HolderOf(s))
    BY DEF HolderInv
  <2> QED
    BY <1>a, <1>b, <1>4, <2>1 DEF ReadBlock
<1>5. ASSUME NEW s \in Senders, ReadEnd(s)  PROVE HolderInv'
  <2> SUFFICES ASSUME NEW u \in Senders  PROVE HolderOf(u)'
    BY <1>a DEF HolderInv
  <2>1. HolderOf(u) /\ (s \in Senders => HolderOf(s))
    BY DEF HolderInv
  <2> QED
    BY <1>a, <1>b, <1>5, <2>1 DEF ReadEnd, EndThread
<1>6. ASSUME NEW s \in Senders, Write(s)  PROVE HolderInv'
  <2> SUFFICES ASSUME NEW u \in Senders  PROVE HolderOf(u)'
    BY <1>a DEF HolderInv
  <2>1. HolderOf(u)
    BY DEF HolderInv
  <2>2. /\ out' = Append(out, <<s, got[s] + 1, 1>>) /\ thread' = [thread EXCEPT ![s] = "writing"]
        /\ holder' = s /\ holder = 0 /\ got' = got
    BY <1>6 DEF Write
  <2>3. Len(out') = Len(out) + 1 /\ out'[Len(out) + 1] = <<s, got[s] + 1, 1>> /\ Len(out) \in Nat
    BY SMTT(30), <2>2
  <2>4. s # 0 /\ u # 0
    BY <1>b DEF Receiver
  <2>5. CASE u = s
    <3>1. thread'[u] = "writing" /\ holder' = u
      BY <1>b, <2>2, <2>5
    <3>2. Len(out') > 0 /\ out'[Len(out')] = <<u, got'[u] + 1, 1>>
      BY SMTT(30), <2>2, <2>3, <2>5
    <3> QED
      BY <3>1, <3>2
  <2>6. CASE u # s
    <3>1. thread'[u] # "writing" /\ holder' # u
      BY <1>b, <2>1, <2>2, <2>4, <2>6
    <3> QED
      BY <3>1
  <2> QED
    BY <2>5, <2>6
<1>7. ASSUME NEW s \in Senders, WriteDone(s)  PROVE HolderInv'
  <2> SUFFICES ASSUME NEW u \in Senders  PROVE HolderOf(u)'
    BY <1>a DEF HolderInv
  <2>1. HolderOf(u)
    BY DEF HolderInv
  <2>2. thread[s] = "writing" /\ thread' = [thread EXCEPT ![s] = "read"] /\ holder' = 0
    BY <1>7 DEF WriteDone
  <2>3. holder = s
    BY <2>2 DEF HolderInv
  <2>4. u # 0
    BY <1>b DEF Receiver
  <2> QED
    BY <1>b, <2>1, <2>2, <2>3, <2>4
<1>8. ASSUME NEW s \in Senders, Increase(s)  PROVE HolderInv'
  <2> SUFFICES ASSUME NEW u \in Senders  PROVE HolderOf(u)'
    BY <1>a DEF HolderInv
  <2>1. HolderOf(u) /\ (s \in Senders => HolderOf(s))
    BY DEF HolderInv
  <2> QED
    BY <1>a, <1>b, <1>8, <2>1 DEF Increase
<1>9. ASSUME NEW s \in Senders, WriteFails(s)  PROVE HolderInv'
  <2> SUFFICES ASSUME NEW u \in Senders  PROVE HolderOf(u)'
    BY <1>a DEF HolderInv
  <2>1. HolderOf(u)
    BY DEF HolderInv
  <2>2. UNCHANGED <<out, got>> /\ thread' = [thread EXCEPT ![s] = "ended"]
        /\ holder' = IF holder = s THEN 0 ELSE holder
    BY <1>9 DEF WriteFails, EndThread
  <2>3. u # 0
    BY <1>b DEF Receiver
  <2> QED
    BY <1>b, <2>1, <2>2, <2>3
<1>10. CASE Serve
  <2> SUFFICES ASSUME NEW u \in Senders  PROVE HolderOf(u)'
    BY <1>a DEF HolderInv
  <2>1. HolderOf(u)
    BY DEF HolderInv
  <2>2. UNCHANGED <<got, holder, out>> /\ Push
    BY <1>10 DEF Serve, MainInv
  <2>3. ASSUME NEW c \in Senders, AcceptNext(c)  PROVE HolderOf(u)'
    <3>1. thread[c] = "none"
      BY <2>2, <2>3 DEF AcceptNext, WireInv, WireOf
    <3>2. thread'[u] = "writing" <=> thread[u] = "writing"
      BY <1>b, <2>3, <3>1 DEF AcceptNext
    <3> QED
      BY <2>1, <2>2, <3>2
  <2>4. CASE thread' = thread
    BY <2>1, <2>2, <2>4
  <2> QED
    BY <1>10, <2>3, <2>4 DEF Serve, AcceptFails
<1>11. CASE Outside
  <2>1. UNCHANGED <<thread, got, holder, out>>
    BY <1>11, OutsideFrame
  <2> QED
    BY <1>a, <2>1 DEF HolderInv
<1> HIDE DEF HolderInv
<1> QED
  BY <1>1, <1>2, <1>3, <1>4, <1>5, <1>6, <1>7, <1>8, <1>9, <1>10, <1>11, StepKinds DEF
     Goroutine

----------------------------------------------------------------------------
(* The standard output. *)

\* A goroutine neither goes back from its end nor leaves a block alone.
GoesOn(s) ==
    /\ thread[s] \in {"ended", "done"} => thread'[s] \in {"ended", "done"}
    /\ thread[s] = "writing" => thread'[s] \in {"writing", "ended", "done"}
GoOn == UNCHANGED <<out, got>> /\ \A s \in Senders : GoesOn(s)


\* Every step but those of write() only moves goroutines on.
LEMMA OthersGoOn ==
    ASSUME ProcType, RecvType, WireInv, MainInv, [Next]_vars, \A s \in Senders :
    ~Write(s) /\ ~WriteDone(s)
    PROVE  GoOn
<1> USE DEF GoOn, GoesOn, RecvType, ReceiverUp, procs, net, recv
<1>a. UNCHANGED <<shape, Senders, Procs, Push, One>>
  BY ShapeStays, ShapeFixes
<1>b. Senders \subseteq AllSenders /\ Receiver \in Procs /\ Receiver \notin Senders
      /\ Senders \subseteq Procs /\ \A p \in Procs : p # Receiver => p \in Senders
  BY SendersType
<1>1. ASSUME NEW p \in Procs, ServeOneTime(p)  PROVE GoOn
  <2>1. UNCHANGED <<out, got>>
    BY <1>1 DEF ServeOneTime
  <2>2. \A c \in Senders : Push /\ conn[c] = "syn" => thread[c] = "none"
    BY DEF WireInv, WireOf
  <2> QED
    BY <1>b, <1>1, <2>1, <2>2 DEF ServeOneTime, Expected
<1>2. ASSUME NEW s \in Senders, DialPull(s)  PROVE GoOn
  BY <1>a, <1>b, <1>2 DEF DialPull
<1>3. ASSUME NEW s \in Senders, OpenReader(s)  PROVE GoOn
  BY <1>a, <1>b, <1>3 DEF OpenReader, EndThread
<1>4. ASSUME NEW s \in Senders, ReadBlock(s)  PROVE GoOn
  BY <1>a, <1>b, <1>4 DEF ReadBlock
<1>5. ASSUME NEW s \in Senders, ReadEnd(s)  PROVE GoOn
  BY <1>a, <1>b, <1>5 DEF ReadEnd, EndThread
<1>6. ASSUME NEW s \in Senders, Increase(s)  PROVE GoOn
  BY <1>a, <1>b, <1>6 DEF Increase
<1>7. ASSUME NEW s \in Senders, WriteFails(s)  PROVE GoOn
  BY <1>a, <1>b, <1>7 DEF WriteFails, EndThread
<1>8. CASE Serve
  <2>1. UNCHANGED <<out, got>>
    BY <1>8 DEF Serve
  <2>2. \A c \in Senders : conn[c] = "syn" => thread[c] = "none"
    BY <1>8 DEF Serve, WireInv, WireOf, MainInv
  <2> QED
    BY <1>b, <1>8, <2>1, <2>2 DEF Serve, AcceptNext, AcceptFails
<1>9. CASE Outside
  BY <1>a, <1>b, <1>9, OutsideFrame
<1> QED
  BY <1>1, <1>2, <1>3, <1>4, <1>5, <1>6, <1>7, <1>8, <1>9, StepKinds DEF Goroutine

\* Every step preserves HalvesInv.
LEMMA HalvesNext ==
    ASSUME ProcType, NetType, RecvType, WireInv, MainInv, HolderInv, HalvesInv, [Next]_vars
    PROVE  HalvesInv'
<1>a. Senders' = Senders /\ Senders \subseteq AllSenders /\ Len(out) \in Nat
      /\ DOMAIN out = 1 .. Len(out)
  BY SMTT(30), ShapeStays, ShapeFixes, SendersType DEF RecvType
<1>b. \A i \in DOMAIN out : out[i] \in Senders \X Nat \X {1, 2}
  BY SMTT(30) DEF RecvType
<1>c. \A i \in DOMAIN out : out[i][1] \in Senders /\ out[i][2] \in Nat
  BY <1>b
<1>1. CASE GoOn
  BY <1>a, <1>c, <1>1 DEF GoOn, GoesOn, HalvesInv
<1>2. ASSUME NEW s \in Senders, Write(s)  PROVE HalvesInv'
  <2>1. /\ thread[s] = "write" /\ thread' = [thread EXCEPT ![s] = "writing"]
        /\ holder = 0 /\ got' = got /\ out' = Append(out, <<s, got[s] + 1, 1>>)
    BY <1>2 DEF Write, recv
  <2>2. \A u \in Senders : thread[u] # "writing"
    BY <2>1, SendersType DEF HolderInv, HolderOf, Receiver
  <2>3. /\ DOMAIN out' = 1 .. Len(out) + 1 /\ Len(out') = Len(out) + 1
        /\ \A i \in 1 .. Len(out) : out'[i] = out[i]
        /\ out'[Len(out) + 1] = <<s, got[s] + 1, 1>>
    BY SMTT(30), <1>a, <2>1
  <2>4. \A u \in Senders : thread[u] \in {"ended", "done"} => thread'[u] = thread[u]
    BY <1>a, <2>1 DEF RecvType
  <2>5. ASSUME NEW i \in DOMAIN out', out'[i][3] = 1
        PROVE  \/ i < Len(out') /\ out'[i + 1] = <<out'[i][1], out'[i][2], 2>>
               \/ i = Len(out') /\ thread'[out'[i][1]] = "writing"
               \/ thread'[out'[i][1]] \in {"ended", "done"}
    <3>1. CASE i = Len(out) + 1
      <4>1. out'[i][1] = s
        BY SMTT(30), <2>3, <3>1
      <4>2. thread'[s] = "writing"
        BY <1>a, <2>1 DEF RecvType
      <4> QED
        BY <2>3, <3>1, <4>1, <4>2
    <3>2. CASE i \in 1 .. Len(out)
      <4>1. out'[i] = out[i] /\ out[i][3] = 1 /\ out[i][1] \in Senders
        BY <1>a, <1>c, <2>3, <2>5, <3>2
      <4>2. \/ i < Len(out) /\ out[i + 1] = <<out[i][1], out[i][2], 2>>
            \/ thread[out[i][1]] \in {"ended", "done"}
        BY <1>a, <2>2, <3>2, <4>1 DEF HalvesInv
      <4>3. CASE i < Len(out) /\ out[i + 1] = <<out[i][1], out[i][2], 2>>
        <5>1. i + 1 \in 1 .. Len(out) /\ i < Len(out')
          BY SMTT(30), <1>a, <2>3, <3>2, <4>3
        <5>2. out'[i + 1] = out[i + 1]
          BY <2>3, <5>1
        <5> QED
          BY <4>1, <4>3, <5>1, <5>2
      <4>4. CASE thread[out[i][1]] \in {"ended", "done"}
        BY <2>4, <4>1, <4>4
      <4> QED
        BY <4>2, <4>3, <4>4
    <3>3. i = Len(out) + 1 \/ i \in 1 .. Len(out)
      BY SMTT(30), <1>a, <2>3
    <3> QED
      BY <3>1, <3>2, <3>3
  <2>6. ASSUME NEW i \in DOMAIN out'
        PROVE  out'[i][1] \in Senders /\ out'[i][2] \in Nat /\ out'[i][2] <= got'[out'[i][1]] + 1
    <3>1. CASE i = Len(out) + 1
      <4>1. got[s] \in Nat
        BY <1>a DEF RecvType
      <4> QED
        BY SMTT(30), <2>1, <2>3, <3>1, <4>1
    <3>2. CASE i \in 1 .. Len(out)
      BY <1>a, <1>c, <2>1, <2>3, <3>2 DEF HalvesInv
    <3>3. i = Len(out) + 1 \/ i \in 1 .. Len(out)
      BY SMTT(30), <1>a, <2>3
    <3> QED
      BY <3>1, <3>2, <3>3
  <2>7. ASSUME NEW i \in DOMAIN out', NEW j \in DOMAIN out', i < j, out'[i][1] = out'[j][1]
        PROVE  out'[i][2] <= out'[j][2]
    <3>1. i \in 1 .. Len(out)
      BY SMTT(30), <1>a, <2>3, <2>7
    <3>2. CASE j = Len(out) + 1
      <4>1. out'[j][1] = s /\ out'[j][2] = got[s] + 1 /\ out'[i] = out[i]
        BY SMTT(30), <2>3, <3>1, <3>2
      <4>2. out[i][2] <= got[out[i][1]] + 1
        BY <1>a, <3>1 DEF HalvesInv
      <4> QED
        BY <2>7, <4>1, <4>2
    <3>3. CASE j \in 1 .. Len(out)
      BY <1>a, <2>3, <2>7, <3>1, <3>3 DEF HalvesInv
    <3>4. j = Len(out) + 1 \/ j \in 1 .. Len(out)
      BY SMTT(30), <1>a, <2>3
    <3> QED
      BY <3>2, <3>3, <3>4
  <2> QED
    BY <2>5, <2>6, <2>7 DEF HalvesInv
<1>3. ASSUME NEW s \in Senders, WriteDone(s)  PROVE HalvesInv'
  <2>1. /\ thread[s] = "writing" /\ thread' = [thread EXCEPT ![s] = "read"]
        /\ got' = [got EXCEPT ![s] = @ + 1] /\ out' = Append(out, <<s, got[s] + 1, 2>>)
    BY <1>3 DEF WriteDone, recv
  <2>2. holder = s /\ Len(out) > 0 /\ out[Len(out)] = <<s, got[s] + 1, 1>>
    BY <2>1 DEF HolderInv, HolderOf
  <2>3. \A u \in Senders : u # s => thread[u] # "writing"
    BY <2>2 DEF HolderInv, HolderOf
  <2>4. /\ DOMAIN out' = 1 .. Len(out) + 1 /\ Len(out') = Len(out) + 1
        /\ \A i \in 1 .. Len(out) : out'[i] = out[i]
        /\ out'[Len(out) + 1] = <<s, got[s] + 1, 2>>
    BY SMTT(30), <1>a, <2>1
  <2>5. \A u \in Senders : thread[u] \in {"ended", "done"} => thread'[u] = thread[u]
    BY <1>a, <2>1 DEF RecvType
  <2>6. ASSUME NEW i \in DOMAIN out', out'[i][3] = 1
        PROVE  \/ i < Len(out') /\ out'[i + 1] = <<out'[i][1], out'[i][2], 2>>
               \/ i = Len(out') /\ thread'[out'[i][1]] = "writing"
               \/ thread'[out'[i][1]] \in {"ended", "done"}
    <3>1. i # Len(out) + 1
      BY SMTT(30), <2>4, <2>6
    <3>2. i \in 1 .. Len(out)
      BY SMTT(30), <1>a, <2>4, <3>1
    <3>3. out'[i] = out[i] /\ out[i][3] = 1 /\ out[i][1] \in Senders
      BY <1>a, <1>c, <2>4, <2>6, <3>2
    <3>4. CASE i = Len(out)
      <4>1. out'[i][1] = s /\ out'[i][2] = got[s] + 1
        BY SMTT(30), <2>2, <3>3, <3>4
      <4>2. i < Len(out') /\ out'[i + 1] = <<s, got[s] + 1, 2>>
        BY SMTT(30), <1>a, <2>4, <3>4
      <4> QED
        BY <4>1, <4>2
    <3>5. CASE i # Len(out)
      <4>1. \/ i < Len(out) /\ out[i + 1] = <<out[i][1], out[i][2], 2>>
            \/ thread[out[i][1]] \in {"ended", "done"}
        BY <1>a, <3>2, <3>3, <3>5 DEF HalvesInv
      <4>2. CASE i < Len(out) /\ out[i + 1] = <<out[i][1], out[i][2], 2>>
        <5>1. i + 1 \in 1 .. Len(out) /\ i < Len(out')
          BY SMTT(30), <1>a, <2>4, <3>2, <4>2
        <5>2. out'[i + 1] = out[i + 1]
          BY <2>4, <5>1
        <5> QED
          BY <3>3, <4>2, <5>1, <5>2
      <4>3. CASE thread[out[i][1]] \in {"ended", "done"}
        BY <2>5, <3>3, <4>3
      <4> QED
        BY <4>1, <4>2, <4>3
    <3> QED
      BY <3>4, <3>5
  <2>7. \A u \in Senders : got'[u] \in Nat /\ got[u] \in Nat /\ got[u] <= got'[u]
    BY SMTT(30), <1>a, <2>1 DEF RecvType
  <2>8. got'[s] = got[s] + 1
    BY <1>a, <2>1 DEF RecvType
  <2>9. ASSUME NEW i \in DOMAIN out'
        PROVE  out'[i][1] \in Senders /\ out'[i][2] \in Nat /\ out'[i][2] <= got'[out'[i][1]] + 1
    <3>1. CASE i = Len(out) + 1
      <4>1. out'[i][1] = s /\ out'[i][2] = got[s] + 1
        BY SMTT(30), <2>4, <3>1
      <4> QED
        BY SMTT(30), <2>7, <2>8, <4>1
    <3>2. CASE i \in 1 .. Len(out)
      <4>1. out'[i] = out[i] /\ out[i][1] \in Senders /\ out[i][2] \in Nat
            /\ out[i][2] <= got[out[i][1]] + 1
        BY <1>a, <1>c, <2>4, <3>2 DEF HalvesInv
      <4> QED
        BY SMTT(30), <2>7, <4>1
    <3>3. i = Len(out) + 1 \/ i \in 1 .. Len(out)
      BY SMTT(30), <1>a, <2>4
    <3> QED
      BY <3>1, <3>2, <3>3
  <2>10. ASSUME NEW i \in DOMAIN out', NEW j \in DOMAIN out', i < j, out'[i][1] = out'[j][1]
         PROVE  out'[i][2] <= out'[j][2]
    <3>1. i \in 1 .. Len(out)
      BY SMTT(30), <1>a, <2>4, <2>10
    <3>2. CASE j = Len(out) + 1
      <4>1. out'[j][1] = s /\ out'[j][2] = got[s] + 1 /\ out'[i] = out[i]
        BY SMTT(30), <2>4, <3>1, <3>2
      <4>2. out[i][2] <= got[out[i][1]] + 1
        BY <1>a, <3>1 DEF HalvesInv
      <4> QED
        BY <2>10, <4>1, <4>2
    <3>3. CASE j \in 1 .. Len(out)
      BY <1>a, <2>4, <2>10, <3>1, <3>3 DEF HalvesInv
    <3>4. j = Len(out) + 1 \/ j \in 1 .. Len(out)
      BY SMTT(30), <1>a, <2>4
    <3> QED
      BY <3>2, <3>3, <3>4
  <2> QED
    BY <2>6, <2>9, <2>10 DEF HalvesInv
<1> QED
  BY <1>1, <1>2, <1>3, OthersGoOn


----------------------------------------------------------------------------
(* Listening. *)

\* ConcurrentServer counts its clients: with one more accepted, the count reaches n
\* exactly when nobody is missing.
CountsClients ==
    \A s \in Senders : thread[s] = "none" =>
        (Cardinality(Accepted) + 1 = shape.n <=> \A u \in Senders : u # s => thread[u] # "none")

\* Every step preserves ServeInv.
LEMMA ServeNext ==
    ASSUME ProcType, NetType, RecvType, WireInv, MainInv, ServeInv, CountsClients,
           [Next]_vars
    PROVE  ServeInv'
<1> USE DEF ServeInv, ProcType, ReceiverUp, procs, recv
<1>a. UNCHANGED <<shape, Senders, Procs, Push, One>>
  BY ShapeStays, ShapeFixes
<1>b. Senders \subseteq AllSenders /\ Receiver \in Procs /\ Receiver \notin Senders
      /\ Senders \subseteq Procs /\ \A p \in Procs : p # Receiver => p \in Senders
  BY SendersType
<1>c. ASSUME UNCHANGED <<step, listener>>,
             \A u \in AllSenders : thread'[u] = "none" <=> thread[u] = "none"
      PROVE  ServeInv'
  BY <1>a, <1>b, <1>c
<1>d. ASSUME UNCHANGED <<step, thread>>, listener'[Receiver] \in {listener[Receiver], "closed"}
      PROVE  ServeInv'
  BY <1>a, <1>d
<1>1. ASSUME NEW p \in Procs, Start(p)  PROVE ServeInv'
  <2>1. CASE p = Receiver
    <3>1. step'[p] \in {"listen", "file"}
      BY <1>1 DEF Start
    <3> QED
      BY <2>1, <3>1
  <2>2. CASE p # Receiver
    <3>1. thread' = thread /\ step'[Receiver] = step[Receiver]
          /\ listener'[Receiver] = listener[Receiver]
      BY <1>b, <1>1, <2>2 DEF Start, EndOfProcess
    <3> QED
      BY <1>a, <3>1
  <2> QED
    BY <2>1, <2>2
<1>2. ASSUME NEW p \in Procs, WriteFile(p)  PROVE ServeInv'
  <2>1. \E s \in Senders : TRUE
    BY SMTT(30), StreamAssumption DEF AllSenders, Senders
  <2>2. CASE p = Receiver /\ Push
    <3>1. (\A s \in Senders : thread[s] = "none") /\ thread' = thread
      BY <1>2, <2>2 DEF WriteFile, MainInv
    <3> QED
      BY <1>a, <2>1, <3>1
  <2>3. CASE p # Receiver
    <3>1. thread' = thread /\ step'[Receiver] = step[Receiver]
          /\ listener'[Receiver] = listener[Receiver]
      BY <1>b, <1>2, <2>3 DEF WriteFile, EndOfProcess
    <3> QED
      BY <1>a, <3>1
  <2>4. CASE ~Push
    BY <1>a, <2>4
  <2> QED
    BY <2>2, <2>3, <2>4
<1>3. ASSUME NEW p \in Procs, ServeOneTime(p)  PROVE ServeInv'
  <2>1. CASE p = Receiver
    BY <1>b, <1>3, <2>1 DEF ServeOneTime, EndOfProcess
  <2>2. CASE p # Receiver
    BY <1>a, <1>b, <1>3, <2>2 DEF ServeOneTime, WireInv, WireOf
  <2> QED
    BY <2>1, <2>2
<1>4. ASSUME NEW p \in Procs, Deadline(p)  PROVE ServeInv'
  BY <1>c, <1>4 DEF Deadline
<1>5. ASSUME NEW p \in Procs, Kill(p)  PROVE ServeInv'
  BY <1>b, <1>d, <1>5 DEF Kill, EndOfProcess
<1>6. ASSUME NEW s \in Senders, DialPush(s)  PROVE ServeInv'
  <2>1. thread' = thread /\ step'[Receiver] = step[Receiver]
        /\ listener'[Receiver] = listener[Receiver]
    BY <1>b, <1>6 DEF DialPush, EndOfProcess
  <2> QED
    BY <1>a, <2>1
<1>7. ASSUME NEW s \in Senders, Send(s) \/ FinishSend(s)  PROVE ServeInv'
  BY <1>b, <1>d, <1>7 DEF Send, FinishSend, EndOfProcess
<1>8. ASSUME NEW s \in Senders, DialPull(s)  PROVE ServeInv'
  BY <1>a, <1>b, <1>8 DEF DialPull, MainInv
<1>9. ASSUME NEW s \in Senders, Goroutine(s)  PROVE ServeInv'
  BY <1>b, <1>c, <1>9, GoroutineFrame
<1>10. CASE Serve
  <2>1. Push
    BY <1>10 DEF Serve, MainInv
  <2>2. ASSUME NEW s \in Senders, AcceptNext(s),
               listener' = IF Cardinality(Accepted) + 1 = shape.n
                           THEN [listener EXCEPT ![Receiver] = "closed"] ELSE listener
        PROVE  ServeInv'
    <3>1. thread[s] = "none"
      BY <2>1, <2>2 DEF AcceptNext, WireInv, WireOf
    <3>2. CASE \A u \in Senders : u # s => thread[u] # "none"
      <4>1. listener'[Receiver] = "closed"
        BY <1>b, <2>2, <3>1, <3>2 DEF CountsClients
      <4> QED
        BY <4>1
    <3>3. ASSUME NEW u \in Senders, u # s, thread[u] = "none"  PROVE ServeInv'
      <4>1. thread'[u] = "none"
        BY <1>b, <2>2, <3>3 DEF AcceptNext, RecvType
      <4> QED
        BY <1>a, <4>1
    <3> QED
      BY <3>2, <3>3
  <2>3. CASE listener' = [listener EXCEPT ![Receiver] = "abandoned"]
    BY <1>b, <2>3
  <2> QED
    BY <1>10, <2>2, <2>3 DEF Serve
<1>11. CASE Return
  BY <1>b, <1>d, <1>11 DEF Return, EndOfProcess
<1>12. CASE WaitErr \/ WaitDone
  BY SMTT(30), <1>a, <1>b, <1>12 DEF WaitErr, WaitDone, EndOfProcess
<1>13. CASE UNCHANGED vars
  BY <1>d, <1>13 DEF vars
<1> HIDE DEF ServeInv
<1> QED
  BY <1>1, <1>2, <1>3, <1>4, <1>5, <1>6, <1>7, <1>8, <1>9, <1>10, <1>11, <1>12, <1>13
  DEF Next, MainSteps, SenderSteps, ThreadSteps, Goroutine, Done

\* Without a fault a server still waits for its client when it accepts, a dialler finds
\* a listener, and ConcurrentServer accepts before the deadline.
Unharmed ==
    /\ \A p \in Procs : Running(p) /\ step[p] = "accept" => p \notin late
    /\ \A s \in Senders : Push /\ PortsKnown /\ Running(s) /\ step[s] = "dial"
                             => Dialable(Receiver)
    /\ \A s \in Senders : ~Push /\ PortsKnown /\ thread[s] = "dial" => Dialable(s)
    /\ ReceiverUp /\ listener[Receiver] = "open" /\ step[Receiver] \in {"wait", "poll"}
          => Receiver \notin late

\* A state in which nothing has failed is Unharmed.
LEMMA CleanIsUnharmed ==
    ASSUME ProcType, NetType, RecvType, NilInv, WireInv, MainInv, ServeInv, CleanProcs,
           CleanReceiver
    PROVE  Unharmed
<1>a. Senders \subseteq AllSenders /\ Receiver \in Procs /\ Receiver \notin Senders
      /\ Senders \subseteq Procs /\ \A p \in Procs : p # Receiver => p \in Senders
  BY SendersType
<1>b. \E s \in Senders : TRUE
  BY SMTT(30), StreamAssumption DEF ProcType, AllSenders, Senders
<1>1. ASSUME NEW p \in Procs, Running(p), step[p] = "accept"  PROVE p \notin late
  <2>1. p \in late => \A s \in Expected(p) \cap Senders : conn[s] = "up"
    BY DEF CleanProcs, CleanOf
  <2>2. CASE Push
    <3>1. p = Receiver
      BY <1>a, <1>1, <2>2 DEF WireInv, WireOf
    <3> QED
      BY <1>1, <1>b, <2>1, <2>2, <3>1 DEF MainInv, WireInv, WireOf, Expected
  <2>3. CASE ~Push
    BY <1>1, <1>a, <2>1, <2>3 DEF MainInv, WireInv, WireOf, Expected
  <2> QED
    BY <2>2, <2>3
<1>2. ASSUME NEW s \in Senders, Push, PortsKnown, Running(s), step[s] = "dial"
      PROVE  Dialable(Receiver)
  <2>1. conn[s] = "none" /\ thread[s] = "none"
    BY <1>2 DEF WireInv, WireOf
  <2>2. ReceiverUp
    BY <1>a, <2>1 DEF NilInv, AllDone, CleanProcs, CleanOf, ReceiverUp, Running
  <2>3. step[Receiver] \in {"accept", "wait", "poll"}
    BY <1>2, <2>1 DEF PortsKnown, MainInv
  <2>4. listener[Receiver] = "open"
    BY <1>2, <1>a, <2>1, <2>2, <2>3 DEF CleanProcs, CleanOf, CleanReceiver, ReceiverUp
  <2> QED
    BY <2>2, <2>4 DEF Dialable, ReceiverUp
<1>3. ASSUME NEW s \in Senders, ~Push, PortsKnown, thread[s] = "dial"
      PROVE  Dialable(s)
  <2>1. step[s] = "accept"
    BY <1>3 DEF WireInv, WireOf, PortsKnown
  <2>2. Running(s)
    BY <1>a, <2>1 DEF WireInv, WireOf, CleanProcs, CleanOf, Running
  <2> QED
    BY <1>a, <2>1, <2>2 DEF CleanProcs, CleanOf, Dialable
<1>4. ASSUME ReceiverUp, listener[Receiver] = "open", step[Receiver] \in {"wait", "poll"}
      PROVE  Receiver \notin late
  <2>1. Push
    BY <1>4 DEF MainInv
  <2>2. PICK s \in Senders : thread[s] = "none"
    BY <1>4, <2>1 DEF ServeInv
  <2>3. conn[s] # "up"
    BY <2>1, <2>2 DEF WireInv, WireOf
  <2> QED
    BY <1>a, <2>1, <2>3 DEF CleanProcs, CleanOf, Expected
<1> QED
  BY <1>1, <1>2, <1>3, <1>4 DEF Unharmed

\* A step without a fault harms no process.
LEMMA CleanProcsNext ==
    ASSUME ProcType, NetType, RecvType, FlowInv, NilInv, WireInv, MainInv,
    ServeInv, CleanProcs, CleanReceiver, [Next]_vars, faults' = 0
    PROVE  CleanProcs'
<1> USE DEF CleanOf, Expected, ReceiverUp, Running, procs, net, recv
<1>a. UNCHANGED <<shape, Senders, Procs, Push, One>>
  BY ShapeStays, ShapeFixes
<1>b. Senders \subseteq AllSenders /\ Receiver \in Procs /\ Receiver \notin Senders
      /\ Senders \subseteq Procs /\ \A p \in Procs : p # Receiver => p \in Senders
  BY SendersType
<1>c. Unharmed
  BY CleanIsUnharmed
<1>d. \A u \in Procs : CleanOf(u)
  BY DEF CleanProcs
<1>e. (\A u \in Procs : CleanOf(u)') => CleanProcs'
  BY <1>a DEF CleanProcs
<1>f. ASSUME UNCHANGED <<step, result, listener, late, conn, ending>>  PROVE CleanProcs'
  BY <1>a, <1>d, <1>e, <1>f
<1>g. ~Fault
  BY SMTT(30) DEF Fault, NetType
<1>h. /\ DOMAIN step = Procs /\ DOMAIN listener = Procs /\ DOMAIN result = Procs
      /\ DOMAIN conn = AllSenders /\ DOMAIN ending = AllSenders
  BY DEF ProcType, NetType
<1>1. ASSUME NEW p \in Procs, Start(p)  PROVE CleanProcs'
  <2>1. /\ step' = [step EXCEPT ![p] = "file"] /\ listener' = [listener EXCEPT ![p] = "open"]
        /\ UNCHANGED <<result, ending, late, conn>>
    BY <1>1, <1>g DEF Start
  <2> QED
    BY <1>a, <1>d, <1>e, <1>h, <2>1
<1>2. ASSUME NEW p \in Procs, WriteFile(p)  PROVE CleanProcs'
  <2>1. PICK x \in {"wait", "accept"} : step' = [step EXCEPT ![p] = x]
    BY <1>2, <1>g DEF WriteFile
  <2>2. step[p] = "file" /\ UNCHANGED <<result, listener, ending, late, conn>>
    BY <1>2, <1>g DEF WriteFile
  <2> QED
    BY <1>a, <1>d, <1>e, <1>h, <2>1, <2>2
<1>3. ASSUME NEW p \in Procs, ServeOneTime(p)  PROVE CleanProcs'
  <2>1. p \notin late /\ late' = late /\ UNCHANGED <<result, ending>>
    BY <1>c, <1>3 DEF ServeOneTime, Unharmed
  <2>2. \A s \in Senders : conn[s] = "up" => conn'[s] = "up"
    BY <1>b, <1>h, <1>3 DEF ServeOneTime
  <2>3. step' = [step EXCEPT ![p] = "stream"] /\ listener' = [listener EXCEPT ![p] = "closed"]
    BY <1>3, <2>1 DEF ServeOneTime
  <2> QED
    BY <1>a, <1>d, <1>e, <1>h, <2>1, <2>2, <2>3
<1>4. ASSUME NEW p \in Procs, Deadline(p)  PROVE CleanProcs'
  <2>1. UNCHANGED <<step, result, listener, conn, ending>> /\ late' = late \cup {p}
    BY <1>4 DEF Deadline
  <2>2. \A s \in Expected(p) : conn[s] = "up"
    BY SMTT(30), <1>4 DEF Deadline, NetType
  <2> QED
    BY <1>a, <1>d, <1>e, <2>1, <2>2
<1>5. ASSUME NEW p \in Procs, Kill(p)  PROVE CleanProcs'
  BY <1>5, <1>g DEF Kill
<1>6. ASSUME NEW s \in Senders, DialPush(s)  PROVE CleanProcs'
  <2>1. conn[s] = "none" /\ Push
    BY <1>6 DEF DialPush, WireInv, WireOf
  <2>2. /\ conn' = [conn EXCEPT ![s] = "syn"] /\ step' = [step EXCEPT ![s] = "stream"]
        /\ UNCHANGED <<result, listener, ending, late>>
    BY <1>c, <1>6, <1>g DEF DialPush, Unharmed
  <2> QED
    BY <1>a, <1>b, <1>d, <1>e, <1>h, <2>1, <2>2
<1>7. ASSUME NEW s \in Senders, Send(s)  PROVE CleanProcs'
  BY <1>f, <1>g, <1>7 DEF Send
<1>8. ASSUME NEW s \in Senders, FinishSend(s)  PROVE CleanProcs'
  <2>1. /\ result' = [result EXCEPT ![s] = "nil"] /\ listener' = [listener EXCEPT ![s] = "closed"]
        /\ ending' = [ending EXCEPT ![s] = "eof"] /\ UNCHANGED <<step, late, conn>>
    BY <1>8, <1>g DEF FinishSend, EndOfProcess
  <2> QED
    BY <1>a, <1>b, <1>d, <1>e, <1>h, <2>1
<1>9. ASSUME NEW s \in Senders, DialPull(s)  PROVE CleanProcs'
  <2>1. conn[s] = "none" /\ ~Push
    BY <1>9 DEF DialPull, WireInv, WireOf
  <2>2. conn' = [conn EXCEPT ![s] = "syn"] /\ UNCHANGED <<result, listener, ending, late, step>>
    BY <1>c, <1>9, <1>g DEF DialPull, Unharmed
  <2> QED
    BY <1>a, <1>b, <1>d, <1>e, <1>h, <2>1, <2>2
<1>10. ASSUME NEW s \in Senders, Goroutine(s)  PROVE CleanProcs'
  BY <1>b, <1>f, <1>10, GoroutineFrame
<1>11. CASE Serve
  <2>1. step[Receiver] \in {"wait", "poll"} /\ UNCHANGED <<step, result, late, ending>>
    BY <1>11 DEF Serve
  <2>2. \A s \in Senders : conn[s] = "up" => conn'[s] = "up"
    BY <1>b, <1>h, <1>11 DEF Serve, AcceptNext, AcceptFails
  <2>3. \A u \in Procs : u # Receiver => listener'[u] = listener[u]
    BY <1>b, <1>h, <1>11 DEF Serve
  <2> QED
    BY <1>a, <1>d, <1>e, <2>1, <2>2, <2>3
<1>12. ASSUME EndOfProcess(Receiver, "nil"), UNCHANGED <<step, late, conn, ending>>
       PROVE  CleanProcs'
  BY <1>a, <1>b, <1>d, <1>e, <1>h, <1>12 DEF EndOfProcess
<1>13. ASSUME NEW x \in {"wait", "poll"}, step' = [step EXCEPT ![Receiver] = x],
              UNCHANGED <<result, listener, late, conn, ending>>
       PROVE  CleanProcs'
  BY <1>a, <1>b, <1>d, <1>e, <1>h, <1>13
<1>14. CASE Return
  BY <1>12, <1>14 DEF Return, CleanReceiver
<1>15. CASE WaitErr
  BY <1>13, <1>15 DEF WaitErr, CleanReceiver
<1>16. CASE WaitDone
  BY <1>12, <1>13, <1>16 DEF WaitDone, CleanReceiver
<1>17. CASE UNCHANGED vars
  BY <1>f, <1>17 DEF vars
<1> QED
  BY <1>1, <1>2, <1>3, <1>4, <1>5, <1>6, <1>7, <1>8, <1>9, <1>10, <1>11, <1>14, <1>15,
  <1>16, <1>17 DEF Next, MainSteps, SenderSteps, ThreadSteps, Goroutine, Done

\* A step without a fault does not harm the receiver.
LEMMA CleanReceiverNext ==
    ASSUME ProcType, NetType, RecvType, FlowInv, NilInv, WireInv, MainInv,
    ServeInv, CountsClients, CleanProcs, CleanReceiver, [Next]_vars, faults' = 0
    PROVE  CleanReceiver'
<1> USE DEF CleanReceiver, ReceiverUp, Running, procs, net, recv
<1>a. UNCHANGED <<shape, Senders, Procs, Push, One>>
  BY ShapeStays, ShapeFixes
<1>b. Senders \subseteq AllSenders /\ Receiver \in Procs /\ Receiver \notin Senders
      /\ Senders \subseteq Procs /\ \A p \in Procs : p # Receiver => p \in Senders
  BY SendersType
<1>c. Unharmed
  BY CleanIsUnharmed
<1>d. ASSUME UNCHANGED <<step, result, listener>>, ~rerr',
             \A u \in AllSenders : thread'[u] = "none" => thread[u] = "none"
      PROVE  CleanReceiver'
  BY <1>a, <1>b, <1>d
<1>e. ASSUME UNCHANGED <<thread, rerr>>, UNCHANGED <<step[Receiver], listener[Receiver]>>,
             result'[Receiver] = result[Receiver]
      PROVE  CleanReceiver'
  BY <1>a, <1>e
<1>f. ASSUME UNCHANGED rerr, ~Push \/ result'[Receiver] # "running"
                                   \/ step'[Receiver] \notin {"wait", "poll"}
      PROVE  CleanReceiver'
  BY <1>a, <1>f
<1>g. ~Fault
  BY SMTT(30) DEF Fault, NetType
<1>h. /\ DOMAIN step = Procs /\ DOMAIN listener = Procs /\ DOMAIN result = Procs
      /\ DOMAIN thread = AllSenders
  BY DEF ProcType, RecvType
<1>1. ASSUME NEW p \in Procs, Start(p)  PROVE CleanReceiver'
  <2>1. /\ step' = [step EXCEPT ![p] = "file"] /\ listener' = [listener EXCEPT ![p] = "open"]
        /\ UNCHANGED <<result, thread, rerr>>
    BY <1>1, <1>g DEF Start
  <2> QED
    BY <1>b, <1>e, <1>f, <1>h, <2>1
<1>2. ASSUME NEW p \in Procs, WriteFile(p)  PROVE CleanReceiver'
  <2>1. listener[p] = "open" /\ UNCHANGED <<thread, rerr, listener, result>>
    BY <1>2, <1>g DEF WriteFile, CleanProcs, CleanOf
  <2>2. CASE p = Receiver
    BY <1>a, <2>1, <2>2
  <2>3. CASE p # Receiver
    <3>1. step'[Receiver] = step[Receiver]
      BY <1>b, <1>h, <1>2, <2>3 DEF WriteFile
    <3> QED
      BY <1>e, <2>1, <3>1
  <2> QED
    BY <2>2, <2>3
<1>3. ASSUME NEW p \in Procs, ServeOneTime(p)  PROVE CleanReceiver'
  <2>1. /\ step' = [step EXCEPT ![p] = "stream"] /\ listener' = [listener EXCEPT ![p] = "closed"]
        /\ UNCHANGED <<result, rerr>> /\ (~Push => thread' = thread)
    BY <1>c, <1>3 DEF ServeOneTime, Unharmed
  <2>2. CASE p = Receiver
    BY <1>b, <1>f, <1>h, <2>1, <2>2
  <2>3. CASE p # Receiver
    <3>1. ~Push
      BY <1>b, <1>3, <2>3 DEF ServeOneTime, WireInv, WireOf
    <3> QED
      BY <1>f, <2>1, <3>1
  <2> QED
    BY <2>2, <2>3
<1>4. ASSUME NEW p \in Procs, Deadline(p)  PROVE CleanReceiver'
  BY <1>e, <1>4 DEF Deadline
<1>5. ASSUME NEW p \in Procs, Kill(p)  PROVE CleanReceiver'
  BY <1>5, <1>g DEF Kill
<1>6. ASSUME NEW s \in Senders, DialPush(s)  PROVE CleanReceiver'
  <2>1. step' = [step EXCEPT ![s] = "stream"] /\ UNCHANGED <<result, listener, thread, rerr>>
    BY <1>c, <1>6, <1>g DEF DialPush, Unharmed
  <2> QED
    BY <1>b, <1>e, <1>h, <2>1
<1>7. ASSUME NEW s \in Senders, Send(s)  PROVE CleanReceiver'
  BY <1>e, <1>g, <1>7 DEF Send
<1>8. ASSUME NEW s \in Senders, FinishSend(s)  PROVE CleanReceiver'
  <2>1. /\ result' = [result EXCEPT ![s] = "nil"] /\ listener' = [listener EXCEPT ![s] = "closed"]
        /\ UNCHANGED <<step, thread, rerr>>
    BY <1>8 DEF FinishSend, EndOfProcess
  <2> QED
    BY <1>b, <1>e, <1>h, <2>1
<1>9. ASSUME NEW s \in Senders, DialPull(s)  PROVE CleanReceiver'
  <2>1. ~Push /\ UNCHANGED rerr
    BY <1>c, <1>9, <1>g DEF DialPull, Unharmed
  <2> QED
    BY <1>f, <2>1
<1>10. ASSUME NEW s \in Senders, Goroutine(s)  PROVE CleanReceiver'
  <2>1. ending[s] # "cut"
    BY <1>b DEF CleanProcs, CleanOf
  <2>2. ~rerr'
    BY <1>g, <1>10, <2>1 DEF Goroutine, OpenReader, ReadBlock, ReadEnd, Write, WriteDone,
                             Increase, WriteFails, EndThread
  <2> QED
    BY <1>b, <1>d, <1>10, <2>2, GoroutineFrame
<1>11. CASE Serve
  <2>1. Push
    BY <1>11 DEF Serve, MainInv
  <2>2. PICK s \in Senders : AcceptNext(s)
    BY <1>c, <1>11 DEF Serve, Unharmed, AcceptFails
  <2>3. listener' = IF Cardinality(Accepted) + 1 = shape.n
                    THEN [listener EXCEPT ![Receiver] = "closed"] ELSE listener
    BY <1>c, <1>11 DEF Serve, Unharmed, AcceptFails
  <2>4. thread[s] = "none" /\ thread' = [thread EXCEPT ![s] = "open"] /\ ~rerr'
    BY <2>1, <2>2 DEF AcceptNext, WireInv, WireOf
  <2>5. CASE \A u \in Senders : u # s => thread[u] # "none"
    <3>1. \A u \in Senders : thread'[u] # "none"
      BY <1>b, <1>h, <2>4, <2>5
    <3> QED
      BY <1>a, <2>4, <3>1
  <2>6. CASE ~\A u \in Senders : u # s => thread[u] # "none"
    <3>1. listener'[Receiver] = "open"
      BY <1>11, <2>3, <2>4, <2>6 DEF Serve, CountsClients
    <3> QED
      BY <2>4, <3>1
  <2> QED
    BY <2>5, <2>6
<1>12. CASE Return
  <2>1. UNCHANGED rerr /\ result'[Receiver] = "nil"
    BY <1>b, <1>h, <1>12 DEF Return, EndOfProcess
  <2> QED
    BY <1>f, <2>1
<1>13. CASE WaitErr \/ WaitDone
  <2>1. UNCHANGED <<rerr, thread>>
    BY <1>13 DEF WaitErr, WaitDone
  <2>2. \/ result'[Receiver] = "nil"
        \/ UNCHANGED <<listener, result>> /\ step[Receiver] \in {"wait", "poll"}
    BY <1>b, <1>h, <1>13 DEF WaitErr, WaitDone, EndOfProcess
  <2> QED
    BY <1>a, <2>1, <2>2
<1>14. CASE UNCHANGED vars
  BY <1>e, <1>14 DEF vars
<1> HIDE DEF CleanReceiver
<1> QED
  BY <1>1, <1>2, <1>3, <1>4, <1>5, <1>6, <1>7, <1>8, <1>9, <1>10, <1>11, <1>12, <1>13,
  <1>14 DEF Next, MainSteps, SenderSteps, ThreadSteps, Goroutine, Done

\* Every step preserves CleanInv: faults only grow, and a step after which there is
\* none harms nobody.
LEMMA CleanNext ==
    ASSUME ProcType, NetType, RecvType, FlowInv, NilInv, WireInv, MainInv, ServeInv, CleanInv,
           CountsClients, [Next]_vars
    PROVE  CleanInv'
<1>1. faults' = faults \/ faults' = faults + 1
  BY DEF Next, vars, Done, MainSteps, SenderSteps, ThreadSteps, Start, WriteFile,
         ServeOneTime, Deadline, Kill, DialPush, Send, FinishSend, DialPull, OpenReader,
         ReadBlock, ReadEnd, Write, WriteDone, Increase, WriteFails, Serve, Return, WaitErr,
         WaitDone, Fault
<1>2. faults' = 0 => faults = 0
  BY SMTT(30), <1>1 DEF NetType
<1> QED
  BY <1>2, CleanProcsNext, CleanReceiverNext DEF CleanInv

----------------------------------------------------------------------------
(* The inductive invariant and what follows. *)

\* What holds of the helpers of one destination segment at every moment.
HelperInv ==
    /\ ProcType /\ NetType /\ RecvType
    /\ FlowInv /\ NilInv /\ HolderInv /\ HalvesInv
    /\ WireInv /\ MainInv /\ ServeInv /\ CleanInv

\* The invariant holds when cbcopy starts the helpers.
LEMMA HelperInit == Init => HelperInv
<1> SUFFICES ASSUME Init  PROVE HelperInv
  OBVIOUS
<1> USE StreamAssumption DEF Init
<1>1. ProcType /\ NetType
  BY DEF ProcType, NetType
<1>2. RecvType
  <2>1. thread \in [AllSenders -> {"none", "dial", "open", "read", "write", "writing",
                                  "ended", "done"}]
    OBVIOUS
  <2>2. out \in Seq(Senders \X Nat \X {1, 2})
    BY SMTT(30)
  <2> QED
    BY <2>1, <2>2 DEF RecvType
<1>a. Senders \subseteq AllSenders /\ Receiver \in Procs /\ Receiver \notin Senders
      /\ Senders \subseteq Procs /\ \A p \in Procs : p # Receiver => p \in Senders
  BY <1>1, SendersType
<1>3. FlowInv /\ NilInv
  BY SMTT(30), <1>a DEF FlowInv, FlowOf, NilInv, Running
<1>4. HolderInv /\ HalvesInv
  <2>1. \A s \in Senders : thread[s] # "writing" /\ holder # s
    BY <1>a DEF Receiver
  <2>2. DOMAIN out = {}
    BY SMTT(30)
  <2> QED
    BY <2>1, <2>2 DEF HolderInv, HolderOf, HalvesInv
<1>5. WireInv /\ MainInv /\ ServeInv
  BY <1>a DEF WireInv, WireOf, MainInv, ServeInv, Procs
<1>6. CleanInv
  BY <1>a DEF CleanInv, CleanProcs, CleanOf, CleanReceiver, Procs
<1> QED
  BY <1>1, <1>2, <1>3, <1>4, <1>5, <1>6 DEF HelperInv

INSTANCE FiniteSetTheorems

\* The count of the clients is that of the goroutines that were started for them.
LEMMA AcceptCount == ProcType => CountsClients
<1> SUFFICES ASSUME ProcType, NEW s \in Senders, thread[s] = "none"
             PROVE  Cardinality(Accepted) + 1 = shape.n
                        <=> \A u \in Senders : u # s => thread[u] # "none"
  BY DEF CountsClients
<1>1. shape.n \in Int /\ 1 \in Int /\ ~(1 > shape.n)
  BY SMTT(30), StreamAssumption DEF ProcType, AllSenders
<1>2. IsFiniteSet(Senders) /\ Cardinality(Senders) = shape.n
  <2>1. /\ IsFiniteSet(1 .. shape.n)
        /\ Cardinality(1 .. shape.n) = IF 1 > shape.n THEN 0 ELSE shape.n - 1 + 1
    BY <1>1, FS_Interval
  <2>2. shape.n - 1 + 1 = shape.n
    BY SMTT(30), <1>1
  <2> QED
    BY <1>1, <2>1, <2>2 DEF Senders
<1>3. Accepted \cup {s} \subseteq Senders /\ s \notin Accepted
  BY DEF Accepted
<1>4. IsFiniteSet(Accepted)
  BY <1>2, <1>3, FS_Subset
<1>5. Cardinality(Accepted \cup {s}) = Cardinality(Accepted) + 1
  BY <1>3, <1>4, FS_AddElement
<1>6. Cardinality(Accepted \cup {s}) = Cardinality(Senders) <=> Accepted \cup {s} = Senders
  BY <1>2, <1>3, FS_Subset
<1>7. Accepted \cup {s} = Senders <=> \A u \in Senders : u # s => thread[u] # "none"
  BY DEF Accepted
<1> QED
  BY <1>2, <1>5, <1>6, <1>7

\* Every step of a helper preserves the invariant.
LEMMA HelperNext == HelperInv /\ [Next]_vars => HelperInv'
BY ProcTypeNext, NetTypeNext, RecvTypeNext, FlowNext, NilNext, HolderNext, HalvesNext,
   WireNext, MainNext, ServeNext, CleanNext, AcceptCount
   DEF HelperInv

\* The invariant holds throughout every run of the helpers.
LEMMA HelperInvHolds == Spec => []HelperInv
<1>1. Spec => Init /\ [][Next]_vars
  BY PTL DEF Spec
<1> QED
  BY <1>1, HelperInit, HelperNext, PTL

\* The standard output of the receiver, written by one goroutine per connection, holds
\* whole blocks, and those of a sender in its order, whatever the number of senders and
\* whatever fails.
THEOREM StreamsIntactHolds == Spec => []StreamsIntact
<1>1. ASSUME HelperInv  PROVE StreamsIntact
  <2>1. HalvesInv
    BY <1>1 DEF HelperInv
  <2>2. ASSUME NEW i \in DOMAIN out, out[i][3] = 1, i < Len(out)
        PROVE  \/ out[i + 1] = <<out[i][1], out[i][2], 2>>
               \/ thread[out[i][1]] \in {"ended", "done"}
    <3>1. i # Len(out)
      BY SMTT(30), <1>1, <2>2 DEF HelperInv, RecvType
    <3> QED
      BY <2>1, <2>2, <3>1 DEF HalvesInv
  <2>3. \A i, j \in DOMAIN out : i < j /\ out[i][1] = out[j][1] => out[i][2] <= out[j][2]
    BY <2>1 DEF HalvesInv
  <2> QED
    BY <2>2, <2>3 DEF StreamsIntact
<1> QED
  BY <1>1, HelperInvHolds, PTL

\* A receiver returns nil only when it has written all that its senders sent, cut
\* streams that cannot be told from complete ones excepted.
THEOREM NilIsCompleteHolds == Spec => []NilIsComplete
<1>1. HelperInv => NilIsComplete
  BY DEF HelperInv, NilInv, AllDone, FlowInv, FlowOf, Accounted, NilIsComplete
<1> QED
  BY <1>1, HelperInvHolds, PTL

\* No helper fails, panics or exits with a non-zero status unless a process was killed, a
\* system call failed or a client was missing at the deadline (issue #44).
THEOREM FailsOnlyOnFaultHolds == Spec => []FailsOnlyOnFault
<1>1. HelperInv => FailsOnlyOnFault
  <2> SUFFICES ASSUME HelperInv, faults = 0, NEW p \in Procs
               PROVE  result[p] \notin {"err", "panic"} /\ ExitStatus(p) = 0
    BY SMTT(30) DEF HelperInv, NetType, FailsOnlyOnFault
  <2>1. result[p] \in {"running", "nil"}
    BY DEF HelperInv, CleanInv, CleanProcs, CleanOf
  <2> QED
    BY <2>1 DEF ExitStatus
<1> QED
  BY <1>1, HelperInvHolds, PTL
=============================================================================
