------------------------------- MODULE Parsers -------------------------------
(***************************************************************************)
(* Text and file formats the two programs read and write, each as the code *)
(* does it and, beside it, as the format means it.  A string is a sequence *)
(* of characters where its characters matter and a value elsewhere.        *)
(***************************************************************************)
EXTENDS Integers, Sequences, FiniteSets, SequencesExt, FiniteSetsExt

Backslash == "\\"
Backslashed(s, special) ==
    FoldLeft(LAMBDA o, c : o \o (IF c \in special THEN <<Backslash, c>> ELSE <<c>>), <<>>, s)

----------------------------------------------------------------------------
(* nmcli -t: the scan of the streamer for speakers in setup mode.          *)

RECURSIVE Split(_, _, _, _)
Split(line, sep, cur, out) ==
    IF line = <<>> THEN Append(out, cur)
    ELSE IF Head(line) = Backslash /\ Len(line) > 1
    THEN Split(SubSeq(line, 3, Len(line)), sep, Append(cur, line[2]), out)
    ELSE IF Head(line) = sep THEN Split(Tail(line), sep, <<>>, Append(out, cur))
    ELSE Split(Tail(line), sep, Append(cur, Head(line)), out)
splitTerseRaw(line) ==
    LET colons == {i \in DOMAIN line : line[i] = ":"}
        cuts == SetToSortSeq(colons \union {0, Len(line) + 1}, <)
    IN  [i \in 1..(Len(cuts) - 1) |-> SubSeq(line, cuts[i] + 1, cuts[i + 1] - 1)]
splitTerse(line) == Split(line, ":", <<>>, <<>>)

(* Rows with all their fields and a network name that has the prefix.      *)
scanAccessPoints(lines, prefix) ==
    LET rows == SelectSeq([i \in DOMAIN lines |-> splitTerse(lines[i])],
                          LAMBDA f : Len(f) >= 4 /\ f[1] # <<>> /\ IsPrefix(prefix, f[1]))
    IN  [i \in DOMAIN rows |-> [ssid |-> rows[i][1], bssid |-> rows[i][2], secured |-> rows[i][4] # <<>>]]

(* External: what nmcli prints for a list of networks.                     *)
Terse(ap) ==
    Backslashed(ap.ssid, {":", Backslash}) \o <<":">>
    \o Backslashed(ap.bssid, {":", Backslash}) \o <<":", "5", ":">>
    \o (IF ap.secured THEN <<"w">> ELSE <<>>)
Printed(aps) == [i \in DOMAIN aps |-> Terse(aps[i])]
Nearby(aps, prefix) == SelectSeq(aps, LAMBDA ap : ap.ssid # <<>> /\ IsPrefix(prefix, ap.ssid))

----------------------------------------------------------------------------
(* The payload of the setup code: the speaker writes it, a phone reads it. *)

WifiSpecial == {Backslash, ";", ",", ":", "\""}
wifiPayload(ssid, pass) ==
    IF pass = <<>> THEN Backslashed(ssid, WifiSpecial) \o <<";", ";">>
    ELSE Backslashed(ssid, WifiSpecial) \o <<";">> \o Backslashed(pass, WifiSpecial) \o <<";", ";">>
ReadByPhone(payload) ==
    LET fields == SelectSeq(Split(payload, ";", <<>>, <<>>), LAMBDA f : f # <<>>)
    IN  [ssid |-> fields[1], pass |-> IF Len(fields) > 1 THEN fields[2] ELSE <<>>]

----------------------------------------------------------------------------
(* WavFileSource::open: a walk over the chunks up to the samples.  A fmt   *)
(* chunk is "pcm16" with its channels, or one of the kinds that are        *)
(* refused; the last chunk of a file may be cut short.                     *)

RECURSIVE walkChunks(_, _)
walkChunks(chunks, channels) ==
    IF chunks = <<>> THEN "no data"
    ELSE LET c == Head(chunks) IN
         CASE c.id = "fmt" -> IF c.cut THEN "no data"
                              ELSE IF c.kind # "pcm16" THEN "refused"
                              ELSE walkChunks(Tail(chunks), c.channels)
           [] c.id = "data" -> IF channels = 0 THEN "early data" ELSE channels
           [] OTHER -> walkChunks(Tail(chunks), channels)
openWav(chunks) == walkChunks(chunks, 0)

(* The samples are those of the first data chunk, in the format of the     *)
(* last fmt chunk before it; one refused fmt chunk before it is enough.    *)
WavMeaning(chunks) ==
    LET first(S) == IF S = {} THEN Len(chunks) + 1 ELSE Min(S)
        data == first({i \in DOMAIN chunks : chunks[i].id = "data"})
        fmts == {i \in DOMAIN chunks : chunks[i].id = "fmt" /\ i < data}
        ends == {i \in fmts : chunks[i].cut \/ chunks[i].kind # "pcm16"}
    IN  IF ends # {} THEN IF chunks[Min(ends)].cut THEN "no data" ELSE "refused"
        ELSE IF data > Len(chunks) THEN "no data"
        ELSE IF fmts = {} THEN "early data" ELSE chunks[Max(fmts)].channels

----------------------------------------------------------------------------
(* The address in the code of the control page, which carries the token.   *)

Unreserved == {"a", "-", "_", ".", "~"}
Hex(c) == CASE c = "+" -> <<"2", "B">> [] c = "/" -> <<"2", "F">> [] c = "=" -> <<"3", "D">>
percentEncode(token) ==
    FoldLeft(LAMBDA o, c : o \o (IF c \in Unreserved THEN <<c>> ELSE <<"%">> \o Hex(c)), <<>>, token)

(* External: how a browser reads a query string.                           *)
RECURSIVE QueryDecode(_)
QueryDecode(q) ==
    IF q = <<>> THEN <<>>
    ELSE IF Head(q) = "%"
    THEN <<CHOOSE c \in {"+", "/", "="} : Hex(c) = SubSeq(q, 2, 3)>> \o QueryDecode(SubSeq(q, 4, Len(q)))
    ELSE <<IF Head(q) = "+" THEN " " ELSE Head(q)>> \o QueryDecode(Tail(q))

----------------------------------------------------------------------------
(* WifiSignal::readRssiDbm: two header lines, then a line per interface;   *)
(* the third column is the level.  A column that is no number is 0 here,   *)
(* which is as little a level as any other number that is not negative.    *)

NoSignal == 0
readRssiDbm(lines) ==
    IF Len(lines) < 2 THEN NoSignal
    ELSE FoldLeft(LAMBDA level, l :
                    IF level # NoSignal \/ ~l.interface \/ Len(l.columns) < 3 THEN level
                    ELSE IF l.columns[3] < 0 THEN l.columns[3] ELSE level,
                  NoSignal, SubSeq(lines, 3, Len(lines)))
FirstLevel(lines) ==
    LET levels == {i \in DOMAIN lines : /\ i > 2 /\ lines[i].interface
                                        /\ Len(lines[i].columns) >= 3 /\ lines[i].columns[3] < 0}
    IN  IF levels = {} THEN NoSignal ELSE lines[Min(levels)].columns[3]

----------------------------------------------------------------------------
(* listCaptureDevices: pw-cli prints a quoted name on a line of its own    *)
(* for each node, among lines about other things.                          *)

Quote == "\""
unquote(value) ==
    LET v == IF value # <<>> /\ Head(value) = Quote THEN Tail(value) ELSE value
    IN  IF v # <<>> /\ v[Len(v)] = Quote THEN SubSeq(v, 1, Len(v) - 1) ELSE v
listCaptureDevices(lines) ==
    SelectSeq([i \in DOMAIN lines |-> IF lines[i].key = "node.name" THEN unquote(lines[i].value) ELSE <<>>],
              LAMBDA name : name # <<>>)
PipeWireLines(names) ==
    FoldLeft(LAMBDA o, n : o \o <<[key |-> "id", value |-> <<"a">>],
                                  [key |-> "node.name", value |-> <<Quote>> \o n \o <<Quote>>]>>,
             <<>>, names)

----------------------------------------------------------------------------
(* The streamer's command line, and what it then plays to whom.            *)

RECURSIVE Fields(_, _)
Fields(csv, cur) ==
    IF csv = <<>> THEN <<cur>>
    ELSE IF Head(csv) = "," THEN <<cur>> \o Fields(Tail(csv), <<>>)
    ELSE Fields(Tail(csv), Append(cur, Head(csv)))
parseTargets(csv) == SelectSeq(Fields(csv, <<>>), LAMBDA ip : ip # <<>>)
CommaList(ips) ==
    FoldLeft(LAMBDA o, ip : IF o = <<>> THEN ip ELSE o \o <<",">> \o ip, <<>>, ips)

Valued == {"--stream", "--lead", "--tone", "--play", "--bind", "--seconds"}
Unasked == [o \in Valued \union {"--serve", "port"} |-> ""]
IsOption(a) == a \in Valued \union {"--serve"}
RECURSIVE parseArgs(_, _)
parseArgs(args, got) ==
    IF args = <<>> THEN got
    ELSE LET rest == Tail(args) IN
         IF Head(args) = "--serve"
         THEN IF rest # <<>> /\ ~IsOption(Head(rest))
              THEN parseArgs(Tail(rest), [got EXCEPT !["--serve"] = "on", !["port"] = Head(rest)])
              ELSE parseArgs(rest, [got EXCEPT !["--serve"] = "on"])
         ELSE IF Head(args) \in Valued /\ rest # <<>>
         THEN parseArgs(Tail(rest), [got EXCEPT ![Head(args)] = Head(rest)])
         ELSE parseArgs(rest, got)

(* main: the standard input before a file, a file before the tone; a file  *)
(* goes to the address of the tone.                                        *)
plan(got) ==
    LET serves == got["--serve"] = "on" IN
    CASE ~serves /\ \A o \in {"--stream", "--tone", "--play"} : got[o] = "" -> "nothing to do"
      [] got["--stream"] # "" -> "standard input"
      [] got["--stream"] = "" /\ got["--play"] # "" ->
            IF got["--tone"] = "" THEN "no target" ELSE "file"
      [] got["--stream"] = "" /\ got["--play"] = "" /\ got["--tone"] # "" -> "tone"
      [] OTHER -> "serve only"

(* A command line as it is typed: options in any order, each with its      *)
(* value; the last one counts.  A file is played to whoever is named by    *)
(* either option that names somebody, as the message for a missing target  *)
(* has it.                                                                 *)
Typed(options) ==
    FoldLeft(LAMBDA o, p : o \o <<p.name>> \o (IF p.value = "" THEN <<>> ELSE <<p.value>>), <<>>, options)
LastValue(options, name) ==
    LET at == {i \in DOMAIN options : options[i].name = name}
    IN  IF at = {} THEN "" ELSE options[Max(at)].value
Given(options, name) == \E i \in DOMAIN options : options[i].name = name
Plays(options) ==
    LET given(name) == Given(options, name)
    IN  IF given("--play")
        THEN IF given("--stream") \/ given("--tone") THEN "file" ELSE "no target"
        ELSE IF given("--stream") THEN "standard input"
        ELSE IF given("--tone") THEN "tone"
        ELSE IF given("--serve") THEN "serve only" ELSE "nothing to do"

=============================================================================
