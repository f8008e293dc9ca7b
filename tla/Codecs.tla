-------------------------------- MODULE Codecs --------------------------------
(***************************************************************************)
(* What the three codecs do to a record (codecs/): which fields reach the   *)
(* wire, what stands for "no value" there, and what the decoder makes of    *)
(* it.  The fields every codec copies as they are (ids, time, props) are    *)
(* left out.  A record goes through one codec after the other, as a record  *)
(* does that is consumed from one topic and produced to another.            *)
(***************************************************************************)
EXTENDS Naturals, Sequences

CONSTANTS
    None,           \* Python's None, Avro's and JSON's null
    MaxHops         \* bound: codecs a record goes through

Formats == {"avro", "protobuf", "json"}
Profiles == {"small", "medium", "large", "evolution"}

VARIABLES
    profile,        \* the payload profile of the run
    first,          \* the record at the start
    event,          \* the record now
    wire,           \* its bytes between encode and decode, or None
    hops            \* the formats it has gone through

recordVars == <<profile, first, event, wire, hops>>

(* Texts, lists and blobs are told apart by being empty or not. *)
Texts == {"", "text"}
Blobs == {"", "blob"}
Contexts == [device_id : Texts, session_id : Texts, tags : {<<>>, <<"t">>}]
Events == [context : Contexts \cup {None}, payload_blob : Blobs,
           new_field : Texts \cup {None}]

FullContext == [device_id |-> "text", session_id |-> "text", tags |-> <<"t">>]

(* The record the generator makes for a profile. *)
Sampled(p) ==
    [context |-> IF p \in {"medium", "large"} THEN FullContext ELSE None,
     payload_blob |-> IF p = "large" THEN "blob" ELSE "",
     new_field |-> None]

-----------------------------------------------------------------------------
(* Avro: the evolution profile writes with schema v1, which has no           *)
(* new_field, and reads with v2, whose default for it is null.               *)
WriterHasNewField(p) == p # "evolution"

OrNull(blob) == IF blob = "" THEN None ELSE blob
OrEmpty(blob) == IF blob = None THEN "" ELSE blob

AvroWire(e, p) ==
    [format |-> "avro", context |-> e.context, payload_blob |-> OrNull(e.payload_blob),
     new_field |-> IF WriterHasNewField(p) THEN e.new_field ELSE None]

(* JSON: the blob is base64 text; an empty or missing one is null. *)
Base64(blob) == <<"base64", blob>>

JsonWire(e) ==
    [format |-> "json", context |-> e.context,
     payload_blob |-> IF e.payload_blob = "" THEN <<>> ELSE Base64(e.payload_blob),
     new_field |-> e.new_field]

(* Protobuf: proto3 has no null and does not tell an unset field from an     *)
(* empty one.                                                                *)
ProtobufWire(e) ==
    [format |-> "protobuf",
     context |-> IF e.context = None
                 THEN [device_id |-> "", session_id |-> "", tags |-> <<>>]
                 ELSE e.context,
     payload_blob |-> e.payload_blob,
     new_field |-> IF e.new_field = None THEN "" ELSE e.new_field]

Wire(e, format, p) ==
    CASE format = "avro" -> AvroWire(e, p)
      [] format = "json" -> JsonWire(e)
      [] format = "protobuf" -> ProtobufWire(e)

AvroEvent(w) ==
    [context |-> w.context, payload_blob |-> OrEmpty(w.payload_blob),
     new_field |-> w.new_field]

JsonEvent(w) ==
    [context |-> w.context,
     payload_blob |-> IF w.payload_blob = <<>> THEN "" ELSE w.payload_blob[2],
     new_field |-> w.new_field]

(* Mutant of HasContext: a context is known by its device. *)
HasDevice(c) == c.device_id # ""

HasContext(c) == c.device_id # "" \/ c.session_id # "" \/ c.tags # <<>>

(* Mutant of ProtobufEvent: an unset new_field becomes "". *)
ProtobufEventKeepsEmpty(w) ==
    [context |-> IF HasContext(w.context) THEN w.context ELSE None,
     payload_blob |-> w.payload_blob,
     new_field |-> w.new_field]

ProtobufEvent(w) ==
    [context |-> IF HasContext(w.context) THEN w.context ELSE None,
     payload_blob |-> w.payload_blob,
     new_field |-> IF w.new_field = "" THEN None ELSE w.new_field]

Event(w) ==
    CASE w.format = "avro" -> AvroEvent(w)
      [] w.format = "json" -> JsonEvent(w)
      [] w.format = "protobuf" -> ProtobufEvent(w)

-----------------------------------------------------------------------------
(* Python's None is no text, no bytes and no context.                        *)
ASSUME NoneAssumption ==
    /\ None \notin Texts \cup Blobs \cup Contexts
    /\ \A e \in Events, f \in Formats, p \in Profiles : Wire(e, f, p) # None

RecordInit ==
    /\ profile \in Profiles
    /\ first \in Events
    /\ event = first
    /\ wire = None
    /\ hops = <<>>

Encode(format) ==
    /\ wire = None /\ Len(hops) < MaxHops
    /\ wire' = Wire(event, format, profile)
    /\ hops' = Append(hops, format)
    /\ UNCHANGED <<profile, first, event>>

Decode ==
    /\ wire # None
    /\ event' = Event(wire)
    /\ wire' = None
    /\ UNCHANGED <<profile, first, hops>>

RecordNext == (\E f \in Formats : Encode(f)) \/ Decode

RecordSpec == RecordInit /\ [][RecordNext]_recordVars

-----------------------------------------------------------------------------
(* What the benchmark times is a round trip: a record that the generator     *)
(* makes for a profile comes back equal from every codec the profile is run  *)
(* with, and from any of them after any other, so that all formats are       *)
(* measured on the same work.                                                *)
SampledRecordsSurvive ==
    first = Sampled(profile) => event = first

(* Decoders invent nothing.  A field changes only from a value that its      *)
(* codec cannot tell from none, or that the old schema does not have, to     *)
(* None: an empty context or an empty new_field in protobuf, new_field in    *)
(* the Avro of the evolution profile.                                        *)
OnlyEmptinessIsLost ==
    /\ event.payload_blob = first.payload_blob
    /\ event.context # first.context =>
          /\ event.context = None
          /\ first.context = [device_id |-> "", session_id |-> "", tags |-> <<>>]
          /\ \E i \in DOMAIN hops : hops[i] = "protobuf"
    /\ event.new_field # first.new_field =>
          /\ event.new_field = None
          /\ \E i \in DOMAIN hops :
                \/ hops[i] = "protobuf" /\ first.new_field = ""
                \/ hops[i] = "avro" /\ profile = "evolution"

===============================================================================
