------------------------------- MODULE Signal -------------------------------
(***************************************************************************)
(* The samples on their way: the datagram the streamer packs and the       *)
(* speaker unpacks, the chain the speaker sends them through, and the      *)
(* argument of a shell command that names their source.  The tone stages   *)
(* of the chain (gains, crossover, equalizer, compressor, limiter) are     *)
(* neutral: at 0 dB or switched off.                                       *)
(***************************************************************************)
EXTENDS Integers, Sequences, SequencesExt

----------------------------------------------------------------------------
(* The wire format.  A number of the header is below 2^31 here.            *)

kHeaderSize == 24
writeBE(v, n) ==
    FoldLeft(LAMBDA s, i : [rest |-> s.rest \div 256, bytes |-> <<s.rest % 256>> \o s.bytes],
             [rest |-> v, bytes |-> <<>>], [i \in 1..n |-> i]).bytes
readBE(buf, at, n) == FoldLeft(LAMBDA v, b : v * 256 + b, 0, SubSeq(buf, at + 1, at + n))

(* The samples are copied as a little-endian machine holds them.           *)
SampleBytes(x) == <<x % 256, (x \div 256) % 256>>
SampleAt(buf, i) ==
    LET x == buf[2 * i - 1] + 256 * buf[2 * i] IN IF x >= 2^15 THEN x - 2^16 ELSE x

packPacket(pkt) ==
    writeBE(pkt.timestamp, 8) \o writeBE(pkt.sequence, 8) \o writeBE(pkt.frame_count, 4)
    \o writeBE(pkt.flags, 4) \o FlattenSeq([i \in DOMAIN pkt.samples |-> SampleBytes(pkt.samples[i])])

kFlagLast == 1
pack(timestamp, sequence, frames, channels, last) ==
    packPacket([timestamp |-> timestamp, sequence |-> sequence,
                frame_count |-> Len(frames) \div channels,
                flags |-> IF last THEN kFlagLast ELSE 0, samples |-> frames])

Discarded == [discarded |-> TRUE]
unpackPacket(buf, channels) ==
    IF Len(buf) < kHeaderSize THEN Discarded
    ELSE LET frame_count == readBE(buf, 16, 4)
             count == frame_count * channels
             payload == SubSeq(buf, kHeaderSize + 1, Len(buf))
         IN  IF Len(payload) < 2 * count THEN Discarded
             ELSE [timestamp |-> readBE(buf, 0, 8), sequence |-> readBE(buf, 8, 8),
                   last |-> readBE(buf, 20, 4) % 2 = 1,
                   samples |-> [i \in 1..count |-> SampleAt(payload, i)]]

----------------------------------------------------------------------------
(* The chain.  A call sets the delay or processes a block; the samples are *)
(* interleaved, and the rate is one frame per millisecond.                 *)

setDelayMs(line, ms, channels) ==
    [line EXCEPT !.buffer = [i \in 1..((IF ms < 0 THEN 0 ELSE ms) * channels) |-> 0], !.pos = 1]
Inverted(x) == IF x = -32768 THEN 32767 ELSE -x

(* To a float in -1..1 with 32768 for 1, and back with 32767, truncated.   *)
Requantized(x) == IF x >= 0 THEN (x * 32767) \div 32768 ELSE -(((-x) * 32767) \div 32768)

processDelay(line, block) ==
    IF line.buffer = <<>> THEN [line EXCEPT !.out = @ \o block]
    ELSE FoldLeft(LAMBDA l, x : [buffer |-> [l.buffer EXCEPT ![l.pos] = x],
                                 pos |-> (l.pos % Len(l.buffer)) + 1,
                                 out |-> Append(l.out, l.buffer[l.pos])],
                  line, block)
processInt16(line, call) ==
    LET block == IF call.invert THEN [i \in DOMAIN call.block |-> Inverted(call.block[i])]
                 ELSE call.block
        after == processDelay([line EXCEPT !.out = <<>>], block)
    IN  IF call.bypass THEN [line EXCEPT !.out = @ \o block]
        ELSE [after EXCEPT !.out = line.out \o [i \in DOMAIN @ |-> Requantized(@[i])]]

played(calls, channels) ==
    FoldLeft(LAMBDA l, c : IF c.op = "delay" THEN setDelayMs(l, c.ms, channels)
                           ELSE processInt16(l, c),
             [buffer |-> <<>>, pos |-> 1, out |-> <<>>], calls).out

(* What it is for: each block comes out late by the delay in force, with   *)
(* silence until the first sample since the delay was set arrives, at most *)
(* one step quieter; a bypassed block comes out at once and untouched but  *)
(* for the polarity, and never enters the delay.                           *)
Polarity(c) == [i \in DOMAIN c.block |-> IF ~c.invert THEN c.block[i]
                                         ELSE IF c.block[i] = -32768 THEN 32767 ELSE -c.block[i]]
Softer(x) == IF x > 0 THEN x - 1 ELSE IF x < 0 THEN x + 1 ELSE 0
HeardBlock(calls, channels, k) ==
    LET sets == {j \in 1..k : calls[j].op = "delay"}
        since == IF sets = {} THEN 0 ELSE CHOOSE j \in sets : \A i \in sets : i <= j
        shift == IF since = 0 \/ calls[since].ms < 0 THEN 0 ELSE calls[since].ms * channels
        Entered(j) == FlattenSeq([i \in 1..(j - since) |->
                          IF calls[since + i].bypass THEN <<>> ELSE Polarity(calls[since + i])])
        before == Len(Entered(k - 1))
    IN  IF calls[k].bypass THEN Polarity(calls[k])
        ELSE [i \in DOMAIN calls[k].block |->
                LET at == before + i - shift IN IF at < 1 THEN 0 ELSE Softer(Entered(k)[at])]
LateBy(calls, channels) ==
    FlattenSeq([k \in DOMAIN calls |-> IF calls[k].op = "delay" THEN <<>> ELSE HeardBlock(calls, channels, k)])

----------------------------------------------------------------------------
(* A path or a device, quoted for the shell, and the shell that reads it.  *)

Apostrophe == "'"
Escape == "\\"
shellQuote(s) ==
    <<Apostrophe>>
    \o FlattenSeq([i \in DOMAIN s |-> IF s[i] = Apostrophe
                                      THEN <<Apostrophe, Escape, Apostrophe, Apostrophe>> ELSE <<s[i]>>])
    \o <<Apostrophe>>

(* External: one word as the shell takes it, or Split where a blank or an  *)
(* open quote ends the word early.                                         *)
ShellWord(s) ==
    LET read == FoldLeft(LAMBDA w, c :
                  CASE w.mode = "quoted" -> IF c = Apostrophe THEN [w EXCEPT !.mode = "plain"]
                                            ELSE [w EXCEPT !.word = Append(@, c)]
                    [] w.mode = "escaped" -> [mode |-> "plain", word |-> Append(w.word, c)]
                    [] w.mode = "plain" -> IF c = Apostrophe THEN [w EXCEPT !.mode = "quoted"]
                                           ELSE IF c = Escape THEN [w EXCEPT !.mode = "escaped"]
                                           ELSE IF c \in {" ", ";"} THEN [w EXCEPT !.mode = "split"]
                                           ELSE [w EXCEPT !.word = Append(@, c)]
                    [] OTHER -> w,
                  [mode |-> "plain", word |-> <<>>], s)
    IN  IF read.mode = "plain" THEN read.word ELSE <<"split">>
=============================================================================
