------------------------------- MODULE Decoder -------------------------------
(***************************************************************************)
(* The incremental decoder of responses (core/src/decoder.cpp) and the two *)
(* loops that drive it: decode_stream() in Python and the closure made by  *)
(* stream_decoder() in JavaScript.  decode_stream() reads an iterator, or  *)
(* a list, which it iterates from the beginning again in its second loop.  *)
(*                                                                         *)
(* A message is a sequence of items: the envelope, the header, the number  *)
(* of bundles, and the bundles.  It comes in chunks that are cut anywhere, *)
(* and may end early.  An item is two units of bytes here, so it can be    *)
(* cut once: unit 2k-1 and unit 2k are the halves of item k.  One item may *)
(* be well formed and not what belongs there.                              *)
(*                                                                         *)
(* Bytes wait in buf until they are parsed.  The array lengths are read    *)
(* from buf by hand, all or nothing; an object is parsed by the library    *)
(* (msgpack), whose next() takes what there is and keeps the beginning of  *)
(* an incomplete object in its own state, ctx.                             *)
(***************************************************************************)
EXTENDS Integers, SequencesExt

CONSTANTS
    Nbundles,    \* header.nbundles, and the bundles in the message
    Declared,    \* the lengths the array of bundles may have
    Attrs,       \* header.attributes
    AttrOf,      \* [1 .. Nbundles -> the attribute of the bundle]
    Wrong,       \* the items that may be wrong; 0 for none
    Drivers,     \* "python" of an iterator, "list", "javascript"
    ReuseAfter,  \* after which outcomes a caller uses the decoder again
    Rounds       \* bound on the messages per decoder

ASSUME MessageAssumption ==
    /\ Nbundles \in Nat \ {0} /\ Declared \subseteq Nat
    /\ AttrOf \in [1 .. Nbundles -> Attrs]
ASSUME DriverAssumption ==
    /\ Drivers \subseteq {"python", "list", "javascript"}
    /\ Wrong \subseteq 0 .. 3 + Nbundles /\ Rounds \in Nat \ {0}
    /\ ReuseAfter \subseteq {"returned", "incomplete", "corrupt"}

Envelope == 1
Header   == 2
Length   == 3
Bundle(k) == 3 + k
Total    == 2 * (3 + Nbundles)
Item(k)  == <<2 * k - 1, 2 * k>>
Units    == 1 .. Total

VARIABLES
    driver,
    declared,  \* the length of the array of bundles in this message
    wrong,     \* the item of it that is of another kind or form, or 0
    end,       \* where the stream ends: Total if it is complete
    at,        \* units of the stream that were read
    dpc,       \* the loop the driver is in, or how it ended
    running,   \* in a call of process()
    phase, left, buf, ctx, writers,   \* the decoder; left is its nbundles
    written,   \* the bundles copied to a writer, in order
    skipped,   \* the bundles that had no writer
    round

stream  == <<driver, declared, wrong, end, round>>
output  == <<written, skipped>>
decoder == <<phase, left, buf, ctx, writers>>
vars    == <<stream, at, dpc, running, decoder, output>>

Outcomes == {"returned", "partial", "incomplete", "corrupt", "unexpected"}
Phases   == {"envelope", "header", "nbundles", "bundles", "done"}

TypeOK ==
    /\ driver \in Drivers /\ declared \in Declared /\ wrong \in Wrong
    /\ end \in 0 .. Total /\ at \in 0 .. end
    /\ dpc \in {"first", "second", "finish", "each", "null"} \cup Outcomes
    /\ running \in BOOLEAN
    /\ phase \in Phases
    /\ left \in 0 .. Nbundles
    /\ buf \in Seq(Units)
    /\ ctx \in Seq(Units) /\ Len(ctx) <= 1
    /\ writers \subseteq Attrs
    /\ written \in Seq(1 .. Nbundles)
    /\ skipped \subseteq 1 .. Nbundles
    /\ round \in 1 .. Rounds

Init ==
    /\ driver \in Drivers /\ declared \in Declared /\ wrong \in Wrong
    /\ end \in 0 .. Total /\ at = 0
    /\ dpc = IF driver = "javascript" THEN "each" ELSE "first"
    /\ running = FALSE
    /\ phase = "envelope" /\ left = 0 /\ buf = <<>> /\ ctx = <<>> /\ writers = {}
    /\ written = <<>> /\ skipped = {}
    /\ round = 1
-----------------------------------------------------------------------------
\* header() gives one, and the driver registers the arrays it makes from it.
HasHeader(ph)   == ph \notin {"envelope", "header"}
RegisterWriters == writers' = Attrs

\* What becomes of a stream whose last call of process() paused in phase ph.
\* decode_stream() raises.  The closure returns null while it has no header, and else the
\* header and the arrays, as it does when all of the message was decoded.
EndedEarly(ph) ==
    IF dpc = "null" /\ HasHeader(ph) THEN "partial" ELSE "incomplete"

\* process() returns paused in phase ph.  A driver that sees a header for the first time
\* allocates arrays and registers them.
Paused(ph) ==
    LET first == HasHeader(ph) /\ writers = {} IN
    /\ running' = FALSE
    /\ IF first THEN RegisterWriters ELSE UNCHANGED writers
    /\ at' = IF first /\ driver = "list" THEN 0 ELSE at
    /\ dpc' = IF dpc = "first" /\ first THEN "second"
              ELSE IF dpc \in {"finish", "null"} THEN EndedEarly(ph) ELSE dpc

\* The length of an array is read from buf, and nothing is taken if it is cut.
ArrayHere(k) == Len(buf) >= 2 /\ SubSeq(buf, 1, 2) = Item(k)
ArrayCut(k)  == Len(buf) < 2 /\ IsPrefix(buf, Item(k))
TakeArray    == buf' = SubSeq(buf, 3, Len(buf)) /\ UNCHANGED ctx

\* unpacker.next() goes on with what it has of an object.
Pending       == ctx \o buf
ObjectHere(k) == Len(Pending) >= 2 /\ SubSeq(Pending, 1, 2) = Item(k)
ObjectCut     == Len(Pending) < 2
TakeObject    == buf' = SubSeq(Pending, 3, Len(Pending)) /\ ctx' = <<>>

\* What is parsed has to be what belongs there: an array of 2, a header with the keys
\* and a function that are known, as many bundles as the header says, and bundles of the
\* function's form.
GoodEnvelope  == ArrayHere(Envelope) /\ wrong # Envelope
GoodHeader    == ObjectHere(Header) /\ wrong # Header
GoodLength    == ArrayHere(Length) /\ wrong # Length /\ declared = Nbundles
GoodBundle(k) == ObjectHere(Bundle(k)) /\ wrong # Bundle(k)

ReadEnvelope ==
    /\ running /\ phase = "envelope" /\ GoodEnvelope
    /\ TakeArray
    /\ phase' = "header"
    /\ UNCHANGED <<stream, at, dpc, running, left, writers, output>>

\* Mutant: process() falls through from the header to the payload.
ReadHeaderThrough ==
    /\ running /\ phase = "header" /\ GoodHeader
    /\ TakeObject
    /\ phase' = "nbundles"
    /\ UNCHANGED <<stream, at, dpc, running, left, writers, output>>

\* process() always pauses behind the header.
ReadHeader ==
    /\ running /\ phase = "header" /\ GoodHeader
    /\ TakeObject
    /\ phase' = "nbundles"
    /\ Paused("nbundles")
    /\ UNCHANGED <<stream, left, output>>

\* Mutant: the length of the array is not compared with the header's.
ReadLengthUnchecked ==
    /\ running /\ phase = "nbundles" /\ ArrayHere(Length) /\ wrong # Length
    /\ TakeArray
    /\ left' = declared
    /\ phase' = "bundles"
    /\ UNCHANGED <<stream, at, dpc, running, writers, output>>

ReadLength ==
    /\ running /\ phase = "nbundles" /\ GoodLength
    /\ TakeArray
    /\ left' = declared
    /\ phase' = "bundles"
    /\ UNCHANGED <<stream, at, dpc, running, writers, output>>

HasWriter(k) == AttrOf[k] \in writers

\* One turn of the loop over the bundles; a bundle without a writer is skipped.
Extract ==
    /\ running /\ phase = "bundles" /\ left > 0
    /\ \E k \in 1 .. Nbundles :
          /\ GoodBundle(k)
          /\ IF HasWriter(k) THEN written' = Append(written, k) /\ UNCHANGED skipped
             ELSE skipped' = skipped \cup {k} /\ UNCHANGED written
    /\ TakeObject
    /\ left' = left - 1
    /\ UNCHANGED <<stream, at, dpc, running, phase, writers>>

\* process() returns done, which decode_stream() does not expect in its first loop.
AllExtracted ==
    /\ running /\ phase = "bundles" /\ left = 0
    /\ phase' = "done"
    /\ running' = FALSE
    /\ dpc' = IF dpc = "first" THEN "unexpected" ELSE "returned"
    /\ UNCHANGED <<stream, at, left, buf, ctx, writers, output>>

CutShort ==
    \/ phase = "envelope" /\ ArrayCut(Envelope)
    \/ phase = "nbundles" /\ ArrayCut(Length)
    \/ phase = "header" /\ ObjectCut
    \/ phase = "bundles" /\ left > 0 /\ ObjectCut

\* Mutant: process() looks for more bytes instead of returning.
SuspendRetries == running /\ CutShort /\ UNCHANGED vars

\* There are not enough bytes: process() returns paused.
Suspend ==
    /\ running /\ CutShort
    /\ IF phase \in {"header", "bundles"}
         THEN ctx' = Pending /\ buf' = <<>>
         ELSE UNCHANGED <<ctx, buf>>
    /\ Paused(phase)
    /\ UNCHANGED <<stream, phase, left, output>>

\* The bytes are not what is expected: process() throws, and the driver lets it through.
Corrupt ==
    /\ running /\ ~CutShort
    /\ \/ phase = "envelope" /\ ~GoodEnvelope
       \/ phase = "header" /\ ~GoodHeader
       \/ phase = "nbundles" /\ ~GoodLength
       \/ phase = "bundles" /\ left > 0 /\ \A k \in 1 .. Nbundles : ~GoodBundle(k)
    /\ running' = FALSE /\ dpc' = "corrupt"
    /\ UNCHANGED <<stream, at, decoder, output>>
-----------------------------------------------------------------------------
\* buffer(): the next units of the stream.
Buffer(n) ==
    /\ buf' = buf \o [i \in 1 .. n |-> at + i]
    /\ at' = at + n

\* The driver reads a chunk and calls buffer_and_process().
Feed ==
    /\ ~running /\ dpc \in {"first", "second", "each"}
    /\ \E n \in 1 .. end - at : Buffer(n)
    /\ running' = TRUE
    /\ UNCHANGED <<stream, dpc, phase, left, ctx, writers, output>>

\* Mutant: the second loop of decode_stream() has no else-branch.
StreamEndsAtOnce ==
    /\ ~running /\ at = end /\ dpc \in {"first", "second", "each"}
    /\ dpc' = IF dpc = "each" THEN "null" ELSE "incomplete"
    /\ running' = (dpc = "each")
    /\ UNCHANGED <<stream, at, decoder, output>>

\* The stream ends.  decode_stream() gives up without a header, and else calls
\* process() once more; a JavaScript caller calls the closure with null.
StreamEnds ==
    /\ ~running /\ at = end /\ dpc \in {"first", "second", "each"}
    /\ dpc' = CASE dpc = "first"  -> "incomplete"
                [] dpc = "second" -> "finish"
                [] dpc = "each"   -> "null"
    /\ running' = (dpc # "first")
    /\ UNCHANGED <<stream, at, decoder, output>>

\* What reset() leaves of a decoder: the parser's half-read object.
Reset ==
    /\ phase' = "envelope" /\ left' = 0 /\ buf' = <<>> /\ writers' = {}
    /\ UNCHANGED ctx

\* decode_stream() with a decoder that was used before, and a new stream.
Reuse ==
    /\ driver # "javascript" /\ dpc \in ReuseAfter /\ round < Rounds
    /\ Reset
    /\ round' = round + 1
    /\ declared' \in Declared /\ wrong' \in Wrong /\ end' \in 0 .. Total /\ at' = 0
    /\ dpc' = "first"
    /\ written' = <<>> /\ skipped' = {}
    /\ UNCHANGED <<driver, running>>

Process == ReadEnvelope \/ ReadHeader \/ ReadLength \/ Extract \/ AllExtracted
               \/ Suspend \/ Corrupt

Next == Process \/ Feed \/ StreamEnds \/ Reuse

Spec == Init /\ [][Next]_vars /\ WF_vars(Process \/ Feed \/ StreamEnds)
-----------------------------------------------------------------------------
\* No payload is touched before the driver could register writers, wherever the chunks
\* are cut, also when the whole message is buffered at once ("it is vital that no
\* payload is touched before the caller has had the opportunity", decoder.cpp 229-234).
WritersInTime == skipped = {}

\* A message that decodes is right in every item and gave every bundle to its writer, in
\* order and once, whatever the chunks, also when a list of them is fed from the start
\* again (process, decoder.cpp 256-283; decode_stream, decoding.py 72-99).
DecodedOnce ==
    dpc = "returned" => /\ declared = Nbundles /\ wrong = 0
                        /\ written = [k \in 1 .. Nbundles |-> k]

\* A complete and right message is decoded: no way of cutting it into chunks makes a
\* driver of an iterator give up, the closure answer before all is decoded, or the
\* decoder throw (decoding.py 72-99; decoding.js 56-99).
CompleteDecodes ==
    end = Total /\ declared = Nbundles /\ wrong = 0 /\ driver # "list" =>
        dpc \notin {"incomplete", "partial", "corrupt", "unexpected"}

\* Every message comes to an outcome and no call is repeated for ever, however the stream
\* was cut and wherever it ends (decode_stream, decoding.py 72-99; stream_decoder,
\* decoding.js 56-99).  That an early end is reported is not part of it: decode_stream()
\* raises, but the closure's last answer is then that of a decoded message ("partial").
Ends == <>(dpc \in Outcomes)
=============================================================================
