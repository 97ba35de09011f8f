---------------------------- MODULE RecordReader ----------------------------
(***************************************************************************)
(* The readers of internal/reader, which cut the byte stream of a          *)
(* connection into blocks that end with a record.  A helper that receives  *)
(* several streams writes them block by block to one pipe, so a block that *)
(* ended inside a record would mix the records of two segments.            *)
(*                                                                         *)
(* Bytes are "q" (the quote, which is also the escape character of the     *)
(* only reader cbcopy creates), "n" (newline), "r" (carriage return) and   *)
(* "x" (anything else).  The network hands over the stream in chunks of    *)
(* any size, and may fail at any place.                                    *)
(***************************************************************************)
EXTENDS Naturals, Integers, Sequences, FiniteSets, SequencesExt

CONSTANTS
    MaxLen,     \* the length of the streams
    BufSize     \* the size of the buffer; 1 MiB in the code

ASSUME ReaderAssumption == MaxLen \in Nat /\ BufSize \in Nat \ {0}

VARIABLES
    reader,     \* the reader and its end of line, fixed
    stream,     \* the bytes the peer sends, fixed
    pos,        \* how many of them rd has delivered
    buf,        \* the unread bytes buf[r:w]
    pending,    \* b.err: "none", "eof" or "failed"
    raw,        \* rawBuffer, while Read collects a record larger than the buffer
    out,        \* the bytes of the blocks returned so far
    ends,       \* where in the stream those blocks ended, the last one apart
    state       \* "reading", then "eof" or "failed" as the last Read returned

vars == <<reader, stream, pos, buf, pending, raw, out, ends, state>>

Bytes == {"q", "n", "r", "x"}
Escape == "q"
Quote == "q"

----------------------------------------------------------------------------
(* parseRecords: the index of the last byte of the last complete record in *)
(* s, -1 if there is none.  The model counts from 1, so that 0 is "none".  *)

\* One byte of the loops of parseNlOrCr and parseCrNl of CsvReader.
\* (Variant: a quote does not change the state.)
CsvByteUnquoted(eol, st, c) ==
    [st EXCEPT !.i = @ + 1,
               !.prev = c,
               !.last = IF \/ eol = "nl" /\ c = "n"
                           \/ eol = "cr" /\ c = "r"
                           \/ eol = "crnl" /\ c = "n" /\ st.prev = "r"
                        THEN st.i + 1 ELSE @]
CsvByte(eol, st, c) ==
    LET isEol == \/ eol = "nl" /\ c = "n"
                 \/ eol = "cr" /\ c = "r"
                 \/ eol = "crnl" /\ c = "n" /\ st.prev = "r"
    IN  [i |-> st.i + 1,
         prev |-> c,
         inQuote |-> IF st.inQuote THEN st.wasEsc \/ c # Quote ELSE c = Quote,
         wasEsc |-> st.inQuote /\ ~st.wasEsc /\ c # Quote /\ c = Escape,
         last |-> IF ~st.inQuote /\ isEol THEN st.i + 1 ELSE st.last]

CsvStart == [i |-> 0, prev |-> "x", inQuote |-> FALSE, wasEsc |-> FALSE, last |-> 0]

\* The state of the loop after each of the bytes.
CsvStates(eol, s) ==
    LET st[k \in 0 .. Len(s)] == IF k = 0 THEN CsvStart ELSE CsvByte(eol, st[k - 1], s[k])
    IN  st

CsvParse(eol, s) == CsvStates(eol, s)[Len(s)].last

\* The position of the last byte of the last delimiter.
LastOf(delim, s) ==
    LET found == {i \in 1 .. Len(s) - Len(delim) + 1 : SubSeq(s, i, i + Len(delim) - 1) = delim}
    IN  IF found = {} THEN 0 ELSE Max(found) + Len(delim) - 1

TextParse(eol, s) ==
    CASE eol = "nl" -> LastOf(<<"n">>, s)
      [] eol = "cr" -> LastOf(<<"r">>, s)
      [] OTHER      -> LastOf(<<"r", "n">>, s)

\* NewCustomReader translates the three escape strings.
Delimiter(eol) ==
    CASE eol = "nl" -> <<"n">> [] eol = "cr" -> <<"r">> [] OTHER -> <<"r", "n">>
CustomParse(delim, s) == IF Len(s) < Len(delim) THEN 0 ELSE LastOf(delim, s)

ParseRecords(s) ==
    CASE reader.kind = "csv"  -> CsvParse(reader.eol, s)
      [] reader.kind = "text" -> TextParse(reader.eol, s)
      [] OTHER                -> CustomParse(Delimiter(reader.eol), s)

----------------------------------------------------------------------------
(* The loop of readRecord. *)

Searching == state = "reading"
Boundary == ParseRecords(buf)
Full == Len(buf) >= BufSize

\* Read returns block, together with rawBuffer.
Return(block, st) ==
    /\ out' = out \o raw \o block
    /\ raw' = <<>>
    /\ state' = st
    /\ ends' = IF st = "reading" THEN ends \cup {Len(out) + Len(raw) + Len(block)} ELSE ends

\* (Variant: the block is returned without what rawBuffer holds.)
ReturnRecordOnly ==
    /\ Searching /\ Boundary > 0
    /\ buf' = SubSeq(buf, Boundary + 1, Len(buf))
    /\ out' = out \o SubSeq(buf, 1, Boundary)
    /\ raw' = <<>>
    /\ ends' = ends \cup {Len(out) + Boundary}
    /\ UNCHANGED <<reader, stream, pos, pending, state>>
ReturnRecord ==
    /\ Searching /\ Boundary > 0
    /\ buf' = SubSeq(buf, Boundary + 1, Len(buf))
    /\ Return(SubSeq(buf, 1, Boundary), "reading")
    /\ UNCHANGED <<reader, stream, pos, pending>>

\* A pending error comes with the rest of the buffer.
ReturnPending ==
    /\ Searching /\ Boundary = 0 /\ pending # "none"
    /\ Return(buf, pending)
    /\ buf' = <<>> /\ pending' = "none"
    /\ UNCHANGED <<reader, stream, pos>>

\* ErrBufferFull: Read keeps the bytes and calls readRecord again.
BufferFull ==
    /\ Searching /\ Boundary = 0 /\ pending = "none" /\ Full
    /\ raw' = raw \o buf
    /\ buf' = <<>>
    /\ UNCHANGED <<reader, stream, pos, pending, out, ends, state>>

\* fill(): a Read of the connection yields bytes, an error or both; a hundred
\* empty ones in a row are an error of their own.
\* (Variant: the error that Read returns is dropped.)
FillForever ==
    /\ Searching /\ Boundary = 0 /\ pending = "none" /\ ~Full
    /\ \E n \in 0 .. Len(stream) - pos :
          /\ n <= BufSize - Len(buf)
          /\ buf' = buf \o SubSeq(stream, pos + 1, pos + n)
          /\ pos' = pos + n
    /\ UNCHANGED <<reader, stream, pending, raw, out, ends, state>>
Fill ==
    /\ Searching /\ Boundary = 0 /\ pending = "none" /\ ~Full
    /\ \E n \in 0 .. Len(stream) - pos :
          /\ n <= BufSize - Len(buf)
          /\ buf' = buf \o SubSeq(stream, pos + 1, pos + n)
          /\ pos' = pos + n
          /\ \/ n > 0 /\ pending' = "none"
             \/ pos + n = Len(stream) /\ pending' = "eof"
             \/ pending' = "failed"
    /\ UNCHANGED <<reader, stream, raw, out, ends, state>>

\* The helper closes the connection.
Stopped == state # "reading" /\ UNCHANGED vars

----------------------------------------------------------------------------

Init ==
    /\ reader \in [kind : {"csv", "text", "custom"}, eol : {"nl", "cr", "crnl"}]
    /\ stream \in [1 .. MaxLen -> Bytes]
    /\ pos = 0 /\ buf = <<>> /\ pending = "none"
    /\ raw = <<>> /\ out = <<>> /\ ends = {} /\ state = "reading"

Step == ReturnRecord \/ ReturnPending \/ BufferFull \/ Fill
Next == Step \/ Stopped

\* The helper keeps reading, and the peer keeps sending or goes away.
Spec == Init /\ [][Next]_vars /\ WF_vars(Step)

----------------------------------------------------------------------------

\* Whatever the chunks and the failures, the blocks returned, what Read and the
\* buffer hold and what the network still has make up the stream, and after
\* the last Read nothing is kept back.
NothingLost ==
    /\ out \o raw \o buf = SubSeq(stream, 1, pos)
    /\ state # "reading" => out = SubSeq(stream, 1, pos)
    /\ state = "eof" => pos = Len(stream)

\* The ends of the records of the stream, by the rules of the format: an end of
\* line counts for a CSV reader when an even number of quotes precedes it.
RecordEnds ==
    {i \in 1 .. Len(stream) :
        /\ CASE reader.eol = "nl" -> stream[i] = "n"
             [] reader.eol = "cr" -> stream[i] = "r"
             [] OTHER -> i > 1 /\ stream[i - 1] = "r" /\ stream[i] = "n"
        /\ reader.kind = "csv" =>
              Cardinality({j \in 1 .. i : stream[j] = "q"}) % 2 = 0}

\* Every record, and the unfinished one at the end, fits into the buffer.
RecordsFit ==
    \A i \in 0 .. Len(stream) - BufSize :
        i \in RecordEnds \cup {0} => \E j \in RecordEnds : i < j /\ j <= i + BufSize

\* Each block but the last ends where a record of the whole stream ends, so
\* that blocks of several connections can be written in any order: always for
\* the text readers, and for the CSV reader as long as the records fit into
\* the buffer.  The parser starts each search outside of quotes, which is
\* wrong after ErrBufferFull has moved half a quoted field to rawBuffer.
BlocksEndRecords ==
    reader.kind # "csv" \/ RecordsFit => ends \subseteq RecordEnds

\* The loop comes to an end of file or an error, with nothing fill could panic
\* about: it is never called with a full buffer.
ReaderEnds == <>(state # "reading")
=============================================================================
