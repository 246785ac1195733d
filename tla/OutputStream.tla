---------------------------- MODULE OutputStream ----------------------------
(***************************************************************************)
(* The output of a command as task_runner streams it into TaskOutput: one  *)
(* packet at a time, repeated until it is answered, and copies of earlier  *)
(* packets may come late.  A client of the API may also send what it likes *)
(* (not streaming).                                                        *)
(***************************************************************************)
EXTENDS TaskOutput

VARIABLES
    streaming,           \* whether the packets are those of one task_runner
    output_chunk_start,  \* where the packet being posted starts
    packet_end,          \* where it ends; equal when none is being posted
    packets              \* the packets ever posted

streamVars == <<outputVars, streaming, output_chunk_start, packet_end, packets>>

InitStream ==
    /\ InitOutput
    /\ streaming \in BOOLEAN
    /\ output_chunk_start = 0 /\ packet_end = 0 /\ packets = {}

\* run_command() posts what the command has printed so far.  If it gives up, its
\* last update posts the same bytes again.
PostPacket(b) ==
    /\ packet_end = output_chunk_start
    /\ b \in (packet_end + 1) .. OutputSize
    /\ packet_end' = b
    /\ packets' = packets \cup {<<output_chunk_start, b>>}
    /\ UNCHANGED <<outputVars, output_chunk_start>>

\* Mutant: the start is moved before the post, a packet may be given up.
NextStartUnanswered == packets # {} /\ UNCHANGED outputVars

\* The packet being posted was stored.
NextStart == AppendOutput(output_chunk_start, packet_end)

\* The server stored the packet and its HTTP 200 reached the bot.
PacketIsAnswered ==
    /\ output_chunk_start < packet_end
    /\ NextStart
    /\ output_chunk_start' = packet_end
    /\ UNCHANGED <<packet_end, packets>>

\* The server stores a packet and nobody listens to its reply.
PacketIsRepeated ==
    /\ \E p \in packets : AppendOutput(p[1], p[2])
    /\ UNCHANGED <<output_chunk_start, packet_end, packets>>

NextStream ==
    /\ UNCHANGED streaming
    /\ \/ streaming /\ (PacketIsAnswered \/ PacketIsRepeated)
       \/ streaming /\ \E b \in 1 .. OutputSize : PostPacket(b)
       \/ ~streaming /\ NextOutput /\ UNCHANGED <<output_chunk_start, packet_end, packets>>

SpecStream == InitStream /\ [][NextStream]_streamVars

-----------------------------------------------------------------------------
(* Safety *)

TypeOKStream ==
    /\ TypeOKOutput
    /\ streaming \in BOOLEAN
    /\ output_chunk_start \in 0 .. packet_end
    /\ packet_end \in 0 .. OutputSize
    /\ packets \subseteq {p \in (0 .. OutputSize) \X (0 .. OutputSize) : p[1] < p[2]}

\* Whatever is repeated or late, what is read is the beginning of what the
\* command printed: at least what was answered, up to the limit of one fetch.
OutputIsPrefix ==
    LET limit == FetchMaxChunks * ChunkSize
    IN  streaming =>
        /\ \A i \in 1 .. Len(GetOutput) : GetOutput[i] = i
        /\ Len(GetOutput) \in {Least(output_chunk_start, limit), Least(packet_end, limit)}
=============================================================================
