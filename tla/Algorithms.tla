----------------------------- MODULE Algorithms -----------------------------
(***************************************************************************)
(* The pure algorithms, run on one input at a time: the QR encoder of the  *)
(* setup page, step by step as QrEncoder::encode calls them, the parsers,  *)
(* the configuration files, the acoustic measurement and the way of the    *)
(* samples.  Each result is compared with a reference definition.          *)
(***************************************************************************)
EXTENDS QrEncoder, Parsers, Serialization, Measurement, Signal

CONSTANTS
    TextLengths,  \* lengths of the texts that are encoded
    Strides,      \* their contents: the multiples of each, modulo 256
    Characters,   \* characters of a network name
    NameLength,   \* bound: characters of a network name
    MaxChunks,    \* bound: chunks of a sound file
    MaxOptions,   \* bound: options of a command line
    MaxDelay,     \* bound: samples until a microphone hears the stimulus
    MaxCalls      \* bound: calls of the signal chain

ASSUME AlgorithmsAssumption ==
    /\ TextLengths \union Strides \subseteq 0..255
    /\ NameLength \in Nat
    /\ {MaxChunks, MaxOptions, MaxDelay, MaxCalls} \subseteq Nat

VARIABLES
    job,    \* what is computed, and from which input
    pc,     \* the next step
    words,  \* the codewords
    base,   \* the function modules, Unset where data go
    placed, \* the symbol before masking
    best,   \* masks tried, the one with the lowest penalty, that penalty
    out     \* the result

vars == <<job, pc, words, base, placed, best, out>>

Names == UNION {[1..n -> Characters] : n \in 0..NameLength}
Prefix == <<"a">>
Bssid == <<"b", ":", "b">>
Chunks ==
    {[id |-> "LIST", kind |-> "-", channels |-> 0, cut |-> FALSE],
     [id |-> "data", kind |-> "-", channels |-> 0, cut |-> FALSE]}
    \union {[id |-> "fmt", kind |-> k, channels |-> ch, cut |-> FALSE] :
              k \in {"pcm16", "other"}, ch \in {1, 2}}
    \union {[id |-> "fmt", kind |-> "pcm16", channels |-> 1, cut |-> TRUE]}

TextJobs == {[kind |-> "text", text |-> [i \in 1..n |-> (i * s) % 256]] : n \in TextLengths, s \in Strides}
ScanJobs ==
    {[kind |-> "scan", aps |-> <<[ssid |-> x, bssid |-> Bssid, secured |-> s],
                                 [ssid |-> y, bssid |-> Bssid, secured |-> ~s]>>] :
       x \in Names, y \in {<<>>, <<"a">>}, s \in BOOLEAN}
WifiJobs == {[kind |-> "wifi", ssid |-> x, pass |-> y] : x \in Names \ {<<>>}, y \in {<<>>, <<"a">>, <<";", Backslash>>}}
FileJobs ==
    {[kind |-> "file", chunks |-> f] :
       f \in {g \in UNION {[1..n -> Chunks] : n \in 0..MaxChunks} :
                \A i \in DOMAIN g : g[i].cut => i = Len(g)}}

Upto(n, S) == UNION {[1..k -> S] : k \in 0..n}
TokenJobs == {[kind |-> "token", token |-> t] : t \in Upto(3, {"a", "+", "/", "="})}
Lines == {[interface |-> i, columns |-> c] : i \in BOOLEAN, c \in {<<0, 5>>, <<0, 5, -5>>, <<0, 5, 6, -7>>, <<0, 0, -9>>}}
SignalJobs == {[kind |-> "signal", lines |-> <<l, l>> \o f] : l \in Lines, f \in Upto(2, Lines)} \union
              {[kind |-> "signal", lines |-> f] : f \in Upto(1, Lines)}
DeviceJobs == {[kind |-> "devices", names |-> f] : f \in Upto(2, Upto(2, {"a", Quote}) \ {<<>>})}
TargetJobs == {[kind |-> "targets", ips |-> f] : f \in Upto(3, {<<"a">>, <<"a", "b">>})}
Options ==
    {[name |-> o, value |-> "value"] : o \in Valued}
    \union {[name |-> "--serve", value |-> v] : v \in {"", "9000"}}
CommandLineJobs == {[kind |-> "command line", options |-> f] : f \in Upto(MaxOptions, Options)}

(* A configuration with one field set, and an edit of the file.            *)
Keys(c) == IF c = "speaker" THEN SpeakerKeys ELSE StreamerKeys
FieldsOf(c) == IF c = "speaker" THEN SpeakerFields ELSE StreamerFields
Set(c, s, f) ==
    LET fields == FieldsOf(c)
        record == [g \in fields[s] |-> IF g = f THEN "set" ELSE Default]
    IN  [Empty(fields) EXCEPT ![s] = IF s \in Lists THEN <<record, [g \in fields[s] |-> "set"]>> ELSE record]
Edits(c) ==
    {[kind |-> "none", section |-> "", key |-> ""]}
    \union {[kind |-> "section", section |-> s, key |-> ""] : s \in DOMAIN Keys(c)}
    \union UNION {{[kind |-> "key", section |-> s, key |-> f] : f \in Keys(c)[s]} : s \in DOMAIN Keys(c)}
    \union (IF c = "streamer" THEN {[kind |-> "scalar", section |-> "dsp", key |-> ""]} ELSE {})
ConfigJobs ==
    UNION {UNION {{[kind |-> "config", program |-> c, config |-> Set(c, s, f), edit |-> e] :
                     f \in FieldsOf(c)[s], e \in Edits(c)} : s \in DOMAIN FieldsOf(c)} :
           c \in {"speaker", "streamer"}}

Stimuli == {<<1, -1>>, <<1, 1, -2>>, <<-1, 2, -1>>, <<1, -2, 2, -1>>}
Delays == {Silence} \union 0..MaxDelay
MeasureJobs ==
    {[kind |-> "measure", stimulus |-> s, delays |-> <<d, e>>, offset |-> o, budget |-> b, asked |-> a] :
       s \in Stimuli, d \in Delays, e \in Delays, o \in {0, 3}, b \in 0..3, a \in {<<>>, <<1, 2>>, <<0>>}}
Recorded(j) ==
    LET frames == Len(j.stimulus) + MaxDelay + 2
    IN  Interleaved(Heard(j.delays[1], j.offset, j.stimulus, frames),
                    Heard(j.delays[2], j.offset, j.stimulus, frames))
ExpectedReadings(j) ==
    LET asked == IF j.asked = <<>> THEN <<0, 1>> ELSE j.asked
    IN  [i \in DOMAIN asked |-> IF asked[i] > 1 THEN Note("no channel")
                                ELSE Expected(j.delays[asked[i] + 1], j.budget)]

(* A datagram loses its last bytes, or comes with bytes nobody announced.  *)
PacketJobs ==
    {[kind |-> "packet", timestamp |-> 2^30 + 1, sequence |-> q, frames |-> f, last |-> l, cut |-> c, more |-> m] :
       q \in {0, 255, 256, 2^24 + 2}, f \in {<<>>, <<-32768, 32767>>, <<1, -1, 258, -300>>},
       l \in BOOLEAN, c \in {0, 1, 2, 9, 25}, m \in {0, 2}}
Datagram(j) ==
    LET whole == pack(j.timestamp, j.sequence, j.frames, 2, j.last) \o [i \in 1..j.more |-> 7]
    IN  SubSeq(whole, 1, Len(whole) - j.cut)
PacketMeaning(j) ==
    IF j.cut > j.more THEN Discarded
    ELSE [timestamp |-> j.timestamp, sequence |-> j.sequence, last |-> j.last, samples |-> j.frames]
Calls ==
    {[op |-> "delay", ms |-> d] : d \in {-1, 0, 1, 2}}
    \union {[op |-> "block", block |-> b, invert |-> i, bypass |-> p] :
              b \in {<<-32768, 5>>, <<-7, 0, 32767, 9>>}, i \in BOOLEAN, p \in BOOLEAN}
ChainJobs == {[kind |-> "chain", calls |-> f, channels |-> c] : f \in Upto(MaxCalls, Calls), c \in {1, 2}}
QuoteJobs == {[kind |-> "quote", word |-> w] : w \in Upto(4, {"a", " ", Apostrophe, Escape})}

ParseJobs ==
    ScanJobs \union WifiJobs \union FileJobs \union TokenJobs \union SignalJobs \union DeviceJobs
    \union TargetJobs \union CommandLineJobs \union ConfigJobs \union MeasureJobs
    \union PacketJobs \union ChainJobs \union QuoteJobs

Init ==
    /\ job \in TextJobs \union ParseJobs
    /\ pc = IF job.kind = "text" THEN "codewords" ELSE "parse"
    /\ words = <<>> /\ base = <<>> /\ placed = <<>>
    /\ best = [tried |-> 0, mask |-> 0, penalty |-> 2^30]
    /\ out = <<>>

Version == chooseVersion(Len(job.text))

(* encode, as far as the text fits a symbol.                               *)
EncodeWords ==
    /\ pc = "codewords"
    /\ IF Version = TooLong THEN pc' = "too long" /\ UNCHANGED words
       ELSE /\ words' = buildCodewords(dataCodewords(job.text, Version), Version)
            /\ pc' = "modules"
    /\ UNCHANGED <<job, base, placed, best, out>>
PlaceModules ==
    /\ pc = "modules"
    /\ base' = functionModules(Version)
    /\ pc' = "data"
    /\ UNCHANGED <<job, words, placed, best, out>>
PlaceData ==
    /\ pc = "data"
    /\ placed' = placeData(base, Free(base), BitsOf(words))
    /\ pc' = "mask"
    /\ UNCHANGED <<job, words, base, best, out>>
TryMask ==
    /\ pc = "mask"
    /\ LET m == best.tried
           g == masked(base, placed, m)
           p == penalty(g)
       IN  /\ best' = IF p < best.penalty
                      THEN [tried |-> m + 1, mask |-> m, penalty |-> p]
                      ELSE [best EXCEPT !.tried = m + 1]
           /\ out' = IF p < best.penalty THEN g ELSE out
    /\ pc' = IF best.tried = 7 THEN "done" ELSE "mask"
    /\ UNCHANGED <<job, words, base, placed>>

Parse ==
    /\ pc = "parse"
    /\ out' = CASE job.kind = "scan" -> scanAccessPoints(Printed(job.aps), Prefix)
                [] job.kind = "wifi" -> wifiPayload(job.ssid, job.pass)
                [] job.kind = "file" -> openWav(job.chunks)
                [] job.kind = "token" -> percentEncode(job.token)
                [] job.kind = "signal" -> readRssiDbm(job.lines)
                [] job.kind = "devices" -> listCaptureDevices(PipeWireLines(job.names))
                [] job.kind = "targets" -> parseTargets(CommaList(job.ips))
                [] job.kind = "command line" -> parseArgs(Typed(job.options), Unasked)
                [] job.kind = "config" ->
                     from_json(FieldsOf(job.program), Keys(job.program),
                               Edited(to_json(Keys(job.program), job.config), job.edit))
                [] job.kind = "measure" ->
                     measure(Recorded(job), 2, job.stimulus, job.asked, job.budget)
                [] job.kind = "packet" -> unpackPacket(Datagram(job), 2)
                [] job.kind = "chain" -> played(job.calls, job.channels)
                [] job.kind = "quote" -> shellQuote(job.word)
    /\ pc' = "done"
    /\ UNCHANGED <<job, words, base, placed, best>>

Done == pc \in {"done", "too long"} /\ UNCHANGED vars

Next == EncodeWords \/ PlaceModules \/ PlaceData \/ TryMask \/ Parse \/ Done
Spec == Init /\ [][Next]_vars

----------------------------------------------------------------------------
(* A reader that follows the standard gets the text back from the symbol,  *)
(* and every block is a codeword of its error correcting code, for texts   *)
(* of up to 106 bytes (versions 1 to 6); a text that fits no version is    *)
(* reported.                                                               *)
SymbolReadsBack ==
    /\ pc = "done" /\ job.kind = "text" /\ Version <= 6 => ReadSymbol(out) = job.text
    /\ pc = "too long" => Len(job.text) > 213

(* QrEncoder.h:9,17: "byte mode, ECC level M, versions 1-10", "Encode      *)
(* `text` (UTF-8, up to ~150 bytes)".                                      *)
EveryVersionReadsBack ==
    pc = "done" /\ job.kind = "text" => ReadSymbol(out) = job.text

(* What was written for another program, or by one, is understood: a scan  *)
(* finds the networks with the prefix and their names, a phone the name    *)
(* and the password of the setup code, a browser the token, the shell one  *)
(* word; of the listings, the level of the interface and the names of the  *)
(* devices are read.                                                       *)
TextsUnderstood ==
    CASE job.kind = "scan" -> out = Nearby(job.aps, Prefix)
      [] job.kind = "wifi" -> ReadByPhone(out) = [ssid |-> job.ssid, pass |-> job.pass]
      [] job.kind = "token" -> QueryDecode(out) = job.token
      [] job.kind = "quote" -> ShellWord(out) = job.word
      [] job.kind = "signal" -> out = FirstLevel(job.lines)
      [] job.kind = "devices" -> out = job.names
      [] OTHER -> TRUE

(* The options are read in any order, the last one counts, and the source  *)
(* they ask for is played; --play together with --stream is set apart (see *)
(* FilePlayedToTarget).                                                    *)
OptionsObeyed ==
    CASE job.kind = "targets" -> out = job.ips
      [] job.kind = "command line" ->
           /\ \A o \in Valued : out[o] = LastValue(job.options, o)
           /\ out["port"] = LastValue(SelectSeq(job.options, LAMBDA p : p.value # ""), "--serve")
           /\ \/ Given(job.options, "--play") /\ Given(job.options, "--stream")
              \/ plan(out) = Plays(job.options)
      [] OTHER -> TRUE

(* A configuration that was saved is read back, with defaults where the    *)
(* file was edited; the speaker's display name is set apart (see           *)
(* ConfigReadsBack).                                                       *)
SettingsReadBack ==
    job.kind = "config" => Nameless(out) = Nameless(Survives(job.config, job.edit))

(* Samples keep their meaning: a sound file is read in its format or       *)
(* refused, the speaker unpacks what the streamer packed and discards a    *)
(* datagram that was cut short, a sample is heard as late as the delay in  *)
(* force asks and never with the wrong sign, and a microphone's reading is *)
(* the time the sound took, whatever its offset and the echo.              *)
SamplesKept ==
    CASE job.kind = "file" -> out = WavMeaning(job.chunks)
      [] job.kind = "packet" -> out = PacketMeaning(job)
      [] job.kind = "chain" -> out = LateBy(job.calls, job.channels)
      [] job.kind = "measure" ->
           /\ out.mics = ExpectedReadings(job)
           /\ out.ok = \E i \in DOMAIN out.mics : out.mics[i].note = ""
      [] OTHER -> TRUE

(* Each algorithm agrees with its reference definition on the bounded      *)
(* inputs, with the two exceptions named above.                            *)
AgreesWithReference ==
    pc = "done" => TextsUnderstood /\ OptionsObeyed /\ SettingsReadBack /\ SamplesKept

(* SpeakerConfig.h:14: the "user-facing display name (how it shows to the  *)
(* streamer); set in setup" is a field of the persisted configuration, and *)
(* ConfigManager.h:42: update() will "atomically persist" it.              *)
ConfigReadsBack ==
    pc = "done" /\ job.kind = "config" => out = Survives(job.config, job.edit)

(* StreamerMain.cpp:250: "--play needs a target (--stream <ip> or --tone   *)
(* <ip>)".                                                                 *)
FilePlayedToTarget ==
    pc = "done" /\ job.kind = "command line" => plan(out) = Plays(job.options)
=============================================================================
