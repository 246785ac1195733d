----------------------------- MODULE TaskOutput -----------------------------
(***************************************************************************)
(* The standard output of a try: TaskOutputChunk entities of ChunkSize     *)
(* bytes each, with the gaps that no packet has filled yet.                *)
(*                                                                         *)
(* A packet carries the bytes of the output from an index on.  The model   *)
(* writes index + 1 for the byte a command printed at that index, so that  *)
(* a byte in the wrong place shows, and 0 for the '\x00' that fills a gap. *)
(***************************************************************************)
EXTENDS Naturals, Sequences

CONSTANTS
    ChunkSize,       \* TaskOutput.CHUNK_SIZE
    PutMaxChunks,    \* TaskOutput.PUT_MAX_CHUNKS
    FetchMaxChunks,  \* TaskOutput.FETCH_MAX_CHUNKS
    OutputSize       \* bound: how much the command prints

ASSUME SizesAssumption ==
    /\ ChunkSize \in Nat \ {0} /\ PutMaxChunks \in Nat \ {0}
    /\ FetchMaxChunks \in 1 .. PutMaxChunks
    /\ OutputSize \in Nat \ {0}

VARIABLES
    chunk,          \* TaskOutputChunk.chunk of each entity, empty if absent
    gaps,           \* TaskOutputChunk.gaps, as pairs of offsets in the chunk
    stdout_chunks,  \* TaskRunResult.stdout_chunks
    written         \* history: the indices packets have written

outputVars == <<chunk, gaps, stdout_chunks, written>>

Chunks  == 0 .. PutMaxChunks - 1
Indices == 0 .. OutputSize - 1

Least(a, b) == IF a < b THEN a ELSE b

Blank(n) == [i \in 1 .. n |-> 0]

\* What the command prints from index a to index b - 1.
Printed(a, b) == [i \in 1 .. (b - a) |-> a + i]

InitOutput ==
    /\ chunk = [c \in Chunks |-> <<>>]
    /\ gaps = [c \in Chunks |-> {}]
    /\ stdout_chunks = 0
    /\ written = {}

-----------------------------------------------------------------------------
(* _output_append() *)

\* The part of packet [a, b) that goes to chunk c, as offsets in the chunk.
PartStart(a, c) == IF a <= c * ChunkSize THEN 0 ELSE a - c * ChunkSize
PartEnd(b, c)   == Least(ChunkSize, b - c * ChunkSize)

\* The chunks packet [a, b) is split over.  What is beyond PutMaxChunks is
\* dropped.
PartsOf(a, b) ==
    {c \in Chunks : a < (c + 1) * ChunkSize /\ c * ChunkSize < b}

\* Mutant: a write in the middle of a gap fills all that follows.
StripNoHole(gap, start, end) ==
    LET s == IF start <= gap[1] /\ gap[1] <= end /\ end <= gap[2] THEN end ELSE gap[1]
        e == IF s <= start /\ start <= gap[2] THEN start ELSE gap[2]
    IN  IF start <= s /\ s <= end /\ start <= e /\ e <= end THEN {} ELSE {<<s, e>>}

\* What is left of a gap once [start, end) is written: the write covers its
\* beginning, its end, all of it, or makes a hole in it.
Strip(gap, start, end) ==
    LET s == IF start <= gap[1] /\ gap[1] <= end /\ end <= gap[2] THEN end ELSE gap[1]
        e == IF s <= start /\ start <= gap[2] /\ gap[2] <= end THEN start ELSE gap[2]
    IN  IF start <= s /\ s <= end /\ start <= e /\ e <= end THEN {}
        ELSE IF s < start /\ start < e /\ s <= end /\ end <= e
             THEN {<<s, start>>, <<end, e>>}
             ELSE {<<s, e>>}

\* The gaps of a chunk after a write, the one it makes if it starts past the end
\* of the chunk included.
GapsAfter(old, gs, start, end) ==
    LET opened == IF Len(old) < start THEN {<<Len(old), start>>} ELSE {}
    IN  UNION {Strip(g, start, end) : g \in gs \cup opened}

\* The content of a chunk after a write, blank where it skips bytes.
ContentAfter(old, start, new) ==
    LET padded == IF Len(old) < start THEN old \o Blank(start - Len(old)) ELSE old
    IN  SubSeq(padded, 1, start) \o new
          \o SubSeq(padded, start + Len(new) + 1, Len(padded))

\* stdout_chunks after a packet was split over parts.
ChunkCount(parts) == CHOOSE n \in {stdout_chunks} \cup {c + 1 : c \in parts} :
    stdout_chunks <= n /\ \A c \in parts : c + 1 <= n

\* TaskRunResult.append_output() of packet [a, b), in the transaction of
\* bot_update_task().
AppendOutput(a, b) ==
    LET parts == PartsOf(a, b)
        from(c) == PartStart(a, c)
        to(c) == PartEnd(b, c)
        data(c) == Printed(c * ChunkSize + from(c), c * ChunkSize + to(c))
    IN  /\ chunk' = [c \in Chunks |->
                       IF c \in parts THEN ContentAfter(chunk[c], from(c), data(c))
                       ELSE chunk[c]]
        /\ gaps' = [c \in Chunks |->
                      IF c \in parts THEN GapsAfter(chunk[c], gaps[c], from(c), to(c))
                      ELSE gaps[c]]
        /\ stdout_chunks' = ChunkCount(parts)
        /\ written' = written \cup {i \in a .. (b - 1) : i < PutMaxChunks * ChunkSize}

-----------------------------------------------------------------------------
(* get_output_async() *)

\* The last chunk that is not empty ends the output.
LastPart(n) ==
    LET full == {c \in 0 .. (n - 1) : chunk[c] # <<>>}
    IN  IF full = {} THEN 0 ELSE (CHOOSE c \in full : \A d \in full : d <= c) + 1

\* A chunk that is absent is replaced by blanks.
Part(c) == IF chunk[c] = <<>> THEN Blank(ChunkSize) ELSE chunk[c]

\* TaskOutput.get_output_async(): the chunks, joined.
GetOutput ==
    LET n == LastPart(Least(stdout_chunks, FetchMaxChunks))
        joined[c \in 0 .. n] == IF c = 0 THEN <<>> ELSE joined[c - 1] \o Part(c - 1)
    IN  joined[n]

-----------------------------------------------------------------------------
\* Packets in any order, of any size: what _output_append() is written for.
NextOutput == \E a \in Indices : \E b \in (a + 1) .. OutputSize : AppendOutput(a, b)

SpecOutput == InitOutput /\ [][NextOutput]_outputVars

-----------------------------------------------------------------------------
(* Safety *)

Covered(c) == {i \in 0 .. (ChunkSize - 1) : \E g \in gaps[c] : g[1] <= i /\ i < g[2]}

TypeOKOutput ==
    /\ \A c \in Chunks : /\ chunk[c] \in Seq(0 .. OutputSize)
                         /\ Len(chunk[c]) <= ChunkSize
                         /\ \A g \in gaps[c] : /\ g \in (0 .. ChunkSize) \X (0 .. ChunkSize)
                                               /\ g[1] < g[2] /\ g[2] < Len(chunk[c])
    /\ stdout_chunks \in 0 .. PutMaxChunks
    /\ written \subseteq Indices

\* The gaps of a chunk are exactly the bytes no packet has brought, whatever the
\* order, the overlaps and the repetitions of the packets.
GapsAreWhatIsMissing ==
    \A c \in Chunks :
        /\ Covered(c) = {i \in 0 .. (Len(chunk[c]) - 1) :
                           c * ChunkSize + i \notin written}
        /\ \A i \in 1 .. Len(chunk[c]) :
              chunk[c][i] = IF i - 1 \in Covered(c) THEN 0 ELSE c * ChunkSize + i
        /\ \A g, h \in gaps[c] : g = h \/ g[2] <= h[1] \/ h[2] <= g[1]

=============================================================================
