---------------------------- MODULE Serialization ---------------------------
(***************************************************************************)
(* The two configuration files: which fields the structures have, which of *)
(* them are written and which are read back.  A configuration maps each    *)
(* section to its fields; a file maps the sections it has to the keys it   *)
(* has.  What a file lacks keeps its default.                              *)
(***************************************************************************)
EXTENDS Integers, Sequences

Default == "default"

SpeakerFields ==
    [device |-> {"device_id", "name", "serial_number", "model", "hardware_version", "software_version"},
     pairing |-> {"paired", "streamer_id", "streamer_public_key"},
     network |-> {"wifi_configured", "connection_mode"},
     audio |-> {"volume", "muted", "delay_ms", "eq_profile", "gain_db", "phase_invert",
                "output_device", "input_device"},
     system |-> {"auto_update", "log_level"}]
SpeakerKeys ==
    [device |-> {"device_id", "serial_number", "model", "hardware_version", "software_version"},
     pairing |-> SpeakerFields.pairing, network |-> SpeakerFields.network,
     audio |-> SpeakerFields.audio, system |-> SpeakerFields.system]

StreamerFields ==
    [identity |-> {"streamer_id", "public_key", "site_id"},
     speakers |-> {"device_id", "name", "host", "control_port", "public_key", "box_public_key",
                   "delay_ms"},
     zones |-> {"zone_id", "name", "members"},
     audio |-> {"sample_rate", "channels", "block_frames", "lead_ms", "source"},
     dsp |-> {"chain"},
     network |-> {"control_port", "audio_port"},
     web |-> {"port", "auth_token", "bind_address"},
     system |-> {"log_level"}]
StreamerKeys == StreamerFields

(* The sections that are lists of records; the file holds every record.    *)
Lists == {"speakers", "zones"}
Empty(fields) ==
    [s \in DOMAIN fields |-> IF s \in Lists THEN <<>> ELSE [f \in fields[s] |-> Default]]

(* to_json: every section with the keys it writes.                         *)
write(keys, section) == [f \in keys |-> section[f]]
to_json(keys, c) ==
    [s \in DOMAIN keys |-> IF s \in Lists THEN [i \in DOMAIN c[s] |-> write(keys[s], c[s][i])]
                           ELSE write(keys[s], c[s])]

(* from_json: j.value(key, default) for each key, section by section; the  *)
(* DSP section only if it is an object.                                    *)
Scalar == [scalar |-> TRUE]
read(fields, keys, j) ==
    [f \in fields |-> IF f \in keys /\ f \in DOMAIN j THEN j[f] ELSE Default]
from_json(fields, keys, file) ==
    [s \in DOMAIN fields |->
        IF s \notin DOMAIN file THEN Empty(fields)[s]
        ELSE IF s \in Lists THEN [i \in DOMAIN file[s] |-> read(fields[s], keys[s], file[s][i])]
        ELSE IF s = "dsp" /\ file[s] = Scalar THEN Empty(fields)[s]
        ELSE read(fields[s], keys[s], file[s])]

----------------------------------------------------------------------------
(* A file as an older build or an editor leaves it: without a section,     *)
(* without a key, or with a scalar where the DSP settings were.            *)
WithoutSection(file, s) == [t \in DOMAIN file \ {s} |-> file[t]]
WithoutKey(file, s, f) ==
    LET cut(j) == [g \in DOMAIN j \ {f} |-> j[g]]
    IN  [file EXCEPT ![s] = IF s \in Lists THEN [i \in DOMAIN @ |-> cut(@[i])] ELSE cut(@)]
Edited(file, edit) ==
    CASE edit.kind = "none" -> file
      [] edit.kind = "section" -> WithoutSection(file, edit.section)
      [] edit.kind = "key" -> WithoutKey(file, edit.section, edit.key)
      [] edit.kind = "scalar" -> [file EXCEPT !.dsp = Scalar]

(* What is then to be read back: the configuration, with the defaults      *)
(* where the edit removed something.                                       *)
Survives(c, edit) ==
    [s \in DOMAIN c |->
        LET gone(f) == edit.kind = "key" /\ edit.section = s /\ edit.key = f
            kept(section) == [f \in DOMAIN section |-> IF gone(f) THEN Default ELSE section[f]]
        IN  IF \/ edit.kind = "section" /\ edit.section = s
               \/ edit.kind = "scalar" /\ s = "dsp"
            THEN IF s \in Lists THEN <<>> ELSE [f \in DOMAIN c[s] |-> Default]
            ELSE IF s \in Lists THEN [i \in DOMAIN c[s] |-> kept(c[s][i])] ELSE kept(c[s])]

(* A configuration without the display name of the speaker.                *)
Nameless(c) ==
    [s \in DOMAIN c |-> IF s = "device" THEN [c[s] EXCEPT !.name = Default] ELSE c[s]]
=============================================================================
