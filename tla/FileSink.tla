------------------------------ MODULE FileSink ------------------------------
(***************************************************************************)
(* The sinks that take a block at a time: files, the standard output and   *)
(* UDP (src/rf_file.c), and SoapySDR devices (src/rf_soapysdr.c).          *)
(* Modulated samples are converted a buffer at a time; an unmodulated      *)
(* block goes to the file in one piece, which may be cut short, or out as  *)
(* datagrams, each of which may fail; a device takes as many samples as it *)
(* likes, or none in time.                                                 *)
(***************************************************************************)
EXTENDS Integers, Sequences

CONSTANTS
    Room,      \* samples in the buffer (1024)
    Payload,   \* octets of a datagram (1400)
    Takes      \* how many samples a device may take at once

ASSUME SinkAssumption ==
    /\ Room \in Nat \ {0} /\ Payload \in Nat \ {0}
    /\ Takes \subseteq Nat \ {0}

VARIABLES
    data_type,     \* or "soapysdr"
    stdout,        \* the output is "-"
    once_printed,
    off,           \* what of the block the sink has dealt with
    written,       \* what the file, the network or the device has got, sample by sample,
                   \* octet by octet or datagram by datagram
    shown,         \* where on the standard output a preview stands: behind so many samples
    failed         \* the sink gave up in this block: a datagram was not sent, the file or the
                   \* device did not take all

sinkVars == <<data_type, stdout, once_printed, off, written, shown, failed>>

IQTypes  == {"uint8", "int8", "uint16", "int16", "int32", "float"}
RawTypes == {"unmod_uint8", "unmod_udp"}

\* A value of a sample in each type; a float counts in units of 1 / 32767.
ToUint8(v)  == (v + 32768) \div 256
ToInt8(v)   == v \div 256
ToUint16(v) == v + 32768
ToInt32(v)  == v * 65536 + v
ToFloat(v)  == v

Convert(type, v) ==
    CASE type = "uint8"  -> ToUint8(v)
      [] type = "int8"   -> ToInt8(v)
      [] type = "uint16" -> ToUint16(v)
      [] type = "int32"  -> ToInt32(v)
      [] type = "float"  -> ToFloat(v)
      [] type = "int16"  -> v

SinkInit ==
    /\ data_type \in IQTypes \cup RawTypes \cup {"soapysdr"}
    /\ stdout \in IF data_type \in {"unmod_udp", "soapysdr"} THEN {FALSE} ELSE BOOLEAN
    /\ once_printed = FALSE
    /\ off = 0 /\ written = <<>> /\ shown = <<>> /\ failed = FALSE

SinkStart ==
    /\ off' = 0 /\ failed' = FALSE
    /\ UNCHANGED <<data_type, stdout, once_printed, written, shown>>

Least(a, b) == IF a < b THEN a ELSE b

\* The first piece is shown on the standard output, with printf, before it is written.
Preview ==
    /\ once_printed' = TRUE
    /\ shown' = IF stdout /\ ~once_printed THEN Append(shown, Len(written)) ELSE shown

\* One round of the loop of the six converting writers.
WriteIQ(iq) ==
    /\ data_type \in IQTypes /\ off < Len(iq)
    /\ LET n == Least(Room, Len(iq) - off)
       IN  /\ written' = written \o [i \in 1..n |->
                             [c \in 1..2 |-> Convert(data_type, iq[off + i][c])]]
           /\ off' = off + n
    /\ Preview /\ UNCHANGED <<data_type, stdout, failed>>

WriteRaw(block) ==
    /\ data_type = "unmod_uint8" /\ off < Len(block) /\ ~failed
    /\ written' = written \o block /\ off' = Len(block)
    /\ Preview /\ UNCHANGED <<data_type, stdout, failed>>

\* fwrite() takes less than the whole block: the rest is dropped.
WriteRawShort(block) ==
    /\ data_type = "unmod_uint8" /\ off < Len(block) /\ ~failed
    /\ \E n \in 0 .. Len(block) - 1 : written' = written \o SubSeq(block, 1, n) /\ off' = n
    /\ failed' = TRUE
    /\ Preview /\ UNCHANGED <<data_type, stdout>>

\* Mutant of SendDatagram: every datagram starts where the block does.
SendDatagramFromStart(block) ==
    /\ data_type = "unmod_udp" /\ off < Len(block) /\ ~failed
    /\ LET chunk == Least(Payload, Len(block) - off)
       IN  /\ written' = Append(written, SubSeq(block, 1, chunk))
           /\ off' = off + chunk
    /\ UNCHANGED <<data_type, stdout, once_printed, shown, failed>>

SendDatagram(block) ==
    /\ data_type = "unmod_udp" /\ off < Len(block) /\ ~failed
    /\ LET chunk == Least(Payload, Len(block) - off)
       IN  /\ written' = Append(written, SubSeq(block, off + 1, off + chunk))
           /\ off' = off + chunk
    /\ UNCHANGED <<data_type, stdout, once_printed, shown, failed>>

\* sendto() fails, for one because the socket does not block: the rest is dropped.
SendFails(block) ==
    /\ data_type = "unmod_udp" /\ off < Len(block) /\ ~failed
    /\ failed' = TRUE
    /\ UNCHANGED <<data_type, stdout, once_printed, off, written, shown>>

\* Mutant of DeviceTakes: iq_data moves by one value per sample instead of two.
DeviceTakesHalfStep(iq) ==
    /\ data_type = "soapysdr" /\ off < Len(iq) /\ ~failed
    /\ \E t \in Takes :
           LET r == Least(t, Len(iq) - off)
           IN  /\ written' = written \o SubSeq(iq, off \div 2 + 1, off \div 2 + r)
               /\ off' = off + r
    /\ UNCHANGED <<data_type, stdout, once_printed, shown, failed>>

\* SoapySDRDevice_writeStream takes r of the samples left.
DeviceTakes(iq) ==
    /\ data_type = "soapysdr" /\ off < Len(iq) /\ ~failed
    /\ \E t \in Takes :
           LET r == Least(t, Len(iq) - off)
           IN  /\ written' = written \o SubSeq(iq, off + 1, off + r)
               /\ off' = off + r
    /\ UNCHANGED <<data_type, stdout, once_printed, shown, failed>>

\* It takes nothing within 100 ms, or fails: the rest of the block is dropped.
DeviceFails(iq) ==
    /\ data_type = "soapysdr" /\ off < Len(iq) /\ ~failed
    /\ failed' = TRUE
    /\ UNCHANGED <<data_type, stdout, once_printed, off, written, shown>>

WriteReturns(length) == off = length \/ failed
=============================================================================
