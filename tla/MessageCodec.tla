---------------------------- MODULE MessageCodec ----------------------------
(***************************************************************************)
(* Building, packing and unpacking of a message: UACPHeader, UACPOption,   *)
(* UACPMessage and the factories of UACPProtocol.                          *)
(*                                                                         *)
(* One message is built by its owner, packed into a datagram, and the      *)
(* datagram (or one a foreign sender composed) is unpacked option by       *)
(* option.  What was unpacked can be edited and packed again, or answered. *)
(* Bytes are numbers below 256, and the header's bit fields, the type and  *)
(* length bytes of an option and the one-byte option count are exact;      *)
(* values and payloads are short byte sequences.                           *)
(***************************************************************************)
EXTENDS Integers, SequencesExt

CONSTANTS
    Verbs,           \* the verbs the owner uses, of 0..3
    Ids,             \* the message ids it passes, and those the generator draws
    QoSLevels,       \* the levels it asks for, of 0..255
    Options,         \* the options it adds: [type, value, kind]
    Topics,          \* the topic paths it names, <<>> for none
    Payloads,        \* the payloads it sets
    HeaderValues,    \* <<field, value>>: the header fields it sets
    Datagrams,       \* the datagrams of foreign senders
    MaxMessageSize   \* Constants::MAX_MESSAGE_SIZE, 65535 in the code

Byte == 0 .. 255

PING == 0
OBSERVE == 3
TOPIC_PATH == 3
CONTENT_TYPE == 4
CBOR == 0
SUCCESS == 0

MaxMessageId == 16777215

\* CONTENT_TYPE, MAX_AGE, BLOCK and PRIORITY: read back as integers.
IntegerTypes == {4, 6, 7, 9}

Kinds == {"string", "int", "bytes"}
Option == {option \in [type : Byte, value : Seq(Byte), kind : Kinds] :
              option.kind = "int" => Len(option.value) = 4}
Message == [version : Byte, verb : 0 .. 3, qos : Byte, code : Byte, id : Nat,
            count : Byte, options : Seq(Option), payload : Seq(Byte)]

ASSUME ConstantsAssumption ==
    /\ Verbs \subseteq 0 .. 3
    /\ Ids \subseteq Nat
    /\ QoSLevels \subseteq Byte
    /\ Options \subseteq Option
    /\ Topics \subseteq Seq(Byte)
    /\ Payloads \subseteq Seq(Byte)
    /\ HeaderValues \subseteq {"version", "qos", "code"} \X Byte
                         \cup {"verb"} \X (0 .. 3) \cup {"id"} \X Nat
    /\ Datagrams \subseteq Seq(Byte)
    /\ MaxMessageSize \in Nat

VARIABLES
    msg,       \* the message its owner holds, and packs
    received,  \* whether msg was unpacked from a datagram before
    data,      \* the datagram
    foreign,   \* whether someone else composed it
    offset,    \* the bytes of data read so far
    left,      \* the options of its header still to be read
    got,       \* the message unpacked so far
    pc         \* what the codec is doing

vars == <<msg, received, data, foreign, offset, left, got, pc>>

Phases == {"build", "refused", "header", "options", "failed", "done"}

\* The default constructors.
EmptyMessage == [version |-> 1, verb |-> PING, qos |-> 0, code |-> 0, id |-> 0,
                 count |-> 0, options |-> <<>>, payload |-> <<>>]

---------------------------------------------------------------------------
(* Header *)

\* VVTTQQCC CCCCCCMM (MM is 24 bits long), then the count and 18 unused bits.
packHeader(m) ==
    LET id == m.id % 16777216
    IN  << (m.version % 4) * 64 + m.verb * 16 + (m.qos % 4) * 4 + m.code \div 64,
           (m.code % 64) * 4 + id \div 4194304,
           (id \div 16384) % 256,
           (id \div 64) % 256,
           (id % 64) * 4 + m.count \div 64,
           (m.count % 64) * 4,
           0, 0 >>

unpackHeader(d) ==
    [version |-> d[1] \div 64,
     verb |-> (d[1] \div 16) % 4,
     qos |-> (d[1] \div 4) % 4,
     code |-> (d[1] % 4) * 64 + d[2] \div 4,
     id |-> (d[2] % 4) * 4194304 + d[3] * 16384 + d[4] * 64 + d[5] \div 4,
     count |-> (d[5] % 4) * 64 + d[6] \div 4,
     options |-> <<>>, payload |-> <<>>]

headerValid(m) == m.version <= 1 /\ m.qos <= 2 /\ m.id <= MaxMessageId

---------------------------------------------------------------------------
(* Options *)

packInt(n) == <<n \div 16777216, (n \div 65536) % 256, (n \div 256) % 256, n % 256>>

unpackInt(d) == d[1] * 16777216 + d[2] * 65536 + d[3] * 256 + d[4]

\* What a reader gets: a set of one value, or none when the getter throws.
getIntValue(option) == IF option.kind = "int" THEN {unpackInt(option.value)} ELSE {}
getStringValue(option) == IF option.kind = "string" THEN {option.value} ELSE {}

tooLarge(option) == Len(option.value) > 255

packOption(option) == <<option.type, Len(option.value)>> \o option.value

\* Mutant: the kind is guessed from the length alone.
Bug_GuessByLength(type, value) ==
    [type |-> type, value |-> value,
     kind |-> IF Len(value) = 4 THEN "int" ELSE "string"]

\* What the bytes of a value become: the kind is guessed from type and length.
decodeOption(type, value) ==
    [type |-> type, value |-> value,
     kind |-> IF type \in IntegerTypes /\ Len(value) = 4 THEN "int" ELSE "string"]

---------------------------------------------------------------------------
(* Messages *)

OfType(m, type) == {k \in DOMAIN m.options : m.options[k].type = type}

withOptions(m, options) == [m EXCEPT !.options = options, !.count = Len(options) % 256]

First(m, type) == CHOOSE k \in OfType(m, type) : \A l \in OfType(m, type) : k <= l

getTopicPath(m) ==
    IF OfType(m, TOPIC_PATH) = {} THEN {<<>>}
    ELSE getStringValue(m.options[First(m, TOPIC_PATH)])

getContentType(m) ==
    IF OfType(m, CONTENT_TYPE) = {} THEN {CBOR}
    ELSE getIntValue(m.options[First(m, CONTENT_TYPE)])

\* Erases the first option of the type, if there is one.
removeOption(m, type) ==
    IF OfType(m, type) = {} THEN m
    ELSE withOptions(m, RemoveAt(m.options, First(m, type)))

\* Mutant: the option of the type stays.
Bug_AddWithoutRemoving(m, option) == withOptions(m, Append(m.options, option))

addOption(m, option) ==
    withOptions(m, Append(removeOption(m, option.type).options, option))

setTopicPath(m, topic) ==
    addOption(m, [type |-> TOPIC_PATH, value |-> topic, kind |-> "string"])

packOptions(options) == FlattenSeq([k \in DOMAIN options |-> packOption(options[k])])

packedBytes(m) == packHeader(m) \o packOptions(m.options) \o m.payload

isValid(m) == headerValid(m) /\ Len(packedBytes(m)) <= MaxMessageSize

createResponse(m, payload) ==
    [m EXCEPT !.code = SUCCESS, !.count = 0, !.options = <<>>, !.payload = payload]

---------------------------------------------------------------------------
(* The owner *)

Init ==
    /\ msg = EmptyMessage
    /\ received = FALSE
    /\ data = <<>>
    /\ foreign = FALSE
    /\ offset = 0
    /\ left = 0
    /\ got = EmptyMessage
    /\ pc = "build"

AtRest == pc \in {"build", "refused", "failed", "done"}

NoDatagram ==
    /\ data' = <<>>
    /\ foreign' = FALSE
    /\ offset' = 0
    /\ left' = 0
    /\ got' = EmptyMessage

\* The owner goes on with m; what it packed or unpacked before is forgotten.
Holds(m, unpacked) ==
    /\ msg' = m
    /\ received' = unpacked
    /\ pc' = "build"
    /\ NoDatagram

\* createPing, createTell, createAsk, createObserve: an id of 0 asks for a
\* generated one; a PING has neither payload nor topic, an OBSERVE needs one.
Create(verb, payload, topic, id, qos) ==
    /\ AtRest
    /\ verb = PING => payload = <<>> /\ topic = <<>> /\ qos = 0
    /\ verb = OBSERVE => topic # <<>>
    /\ \E drawn \in IF id = 0 THEN Ids \ {0} ELSE {id} :
         LET m == [EmptyMessage EXCEPT !.verb = verb, !.payload = payload,
                                       !.id = drawn, !.qos = qos]
         IN  Holds(IF topic = <<>> THEN m ELSE setTopicPath(m, topic), FALSE)

AddOption(option) ==
    /\ pc = "build"
    /\ Holds(addOption(msg, option), received)

RemoveOption(type) ==
    /\ pc = "build"
    /\ Holds(removeOption(msg, type), received)

SetPayload(payload) ==
    /\ pc = "build"
    /\ Holds([msg EXCEPT !.payload = payload], received)

\* The setters of the header, which throw where headerValid would fail.
SetHeader(field, value) ==
    /\ pc = "build"
    /\ field = "version" => value <= 1
    /\ field = "qos" => value <= 2
    /\ field = "id" => value <= MaxMessageId
    /\ Holds([msg EXCEPT ![field] = value], received)

\* What was unpacked is edited and sent on, or answered.
Reuse ==
    /\ pc = "done"
    /\ Holds(got, TRUE)

Respond(payload) ==
    /\ pc = "done"
    /\ Holds(createResponse(got, payload), FALSE)

Arrives(d, composedElsewhere) ==
    /\ data' = d
    /\ foreign' = composedElsewhere
    /\ offset' = 0
    /\ left' = 0
    /\ got' = EmptyMessage
    /\ pc' = "header"

packThrows(m) == ~isValid(m) \/ \E k \in DOMAIN m.options : tooLarge(m.options[k])

Pack ==
    /\ pc = "build"
    /\ ~packThrows(msg)
    /\ Arrives(packedBytes(msg), FALSE)
    /\ UNCHANGED <<msg, received>>

PackThrows ==
    /\ pc = "build"
    /\ packThrows(msg)
    /\ pc' = "refused"
    /\ NoDatagram
    /\ UNCHANGED <<msg, received>>

\* A datagram of another program, not composed by pack().  The message being
\* built meanwhile has no part in it, and is dropped here.
Foreign(d) ==
    /\ pc = "build"
    /\ Arrives(d, TRUE)
    /\ msg' = EmptyMessage
    /\ received' = FALSE

---------------------------------------------------------------------------
(* Unpacking *)

Holding == UNCHANGED <<msg, received, data, foreign>>

UnpackHeader ==
    /\ pc = "header"
    /\ Len(data) >= 8
    /\ got' = unpackHeader(data)
    /\ left' = got'.count
    /\ offset' = 8
    /\ pc' = "options"
    /\ Holding

HeaderThrows ==
    /\ pc = "header"
    /\ Len(data) < 8
    /\ pc' = "failed"
    /\ UNCHANGED <<offset, left, got>>
    /\ Holding

optionFits ==
    /\ Len(data) >= offset + 2
    /\ Len(data) >= offset + 2 + data[offset + 2]

\* Mutant: The length byte is counted with the value.
Bug_LengthCountsItself ==
    /\ pc = "options"
    /\ left > 0
    /\ optionFits
    /\ LET end == offset + 1 + data[offset + 2]
           value == SubSeq(data, offset + 3, end)
       IN  /\ got' = [got EXCEPT !.options = Append(@, decodeOption(data[offset + 1], value))]
           /\ offset' = end
    /\ left' = left - 1
    /\ UNCHANGED pc
    /\ Holding

\* Mutant: An option without a value is passed over.
Bug_EmptyValueSkipped ==
    /\ pc = "options"
    /\ left > 0
    /\ optionFits
    /\ LET end == offset + 2 + data[offset + 2]
           value == SubSeq(data, offset + 3, end)
       IN  /\ got' = IF value = <<>> THEN got
                     ELSE [got EXCEPT !.options = Append(@, decodeOption(data[offset + 1], value))]
           /\ offset' = end
    /\ left' = left - 1
    /\ UNCHANGED pc
    /\ Holding

UnpackOption ==
    /\ pc = "options"
    /\ left > 0
    /\ optionFits
    /\ LET end == offset + 2 + data[offset + 2]
           value == SubSeq(data, offset + 3, end)
       IN  /\ got' = [got EXCEPT !.options = Append(@, decodeOption(data[offset + 1], value))]
           /\ offset' = end
    /\ left' = left - 1
    /\ UNCHANGED pc
    /\ Holding

OptionThrows ==
    /\ pc = "options"
    /\ left > 0
    /\ ~optionFits
    /\ pc' = "failed"
    /\ UNCHANGED <<offset, left, got>>
    /\ Holding

\* Mutant: The loop compares its one-byte variable so that a count of 255 is never reached.
Bug_CountNeverReached ==
    /\ pc = "options"
    /\ left = 0
    /\ Len(got.options) < 255
    /\ got' = [got EXCEPT !.payload = SubSeq(data, offset + 1, Len(data))]
    /\ pc' = "done"
    /\ UNCHANGED <<offset, left>>
    /\ Holding

UnpackPayload ==
    /\ pc = "options"
    /\ left = 0
    /\ got' = [got EXCEPT !.payload = SubSeq(data, offset + 1, Len(data))]
    /\ pc' = "done"
    /\ UNCHANGED <<offset, left>>
    /\ Holding

Unpack == UnpackHeader \/ HeaderThrows \/ UnpackOption \/ OptionThrows \/ UnpackPayload

Next ==
    \/ \E verb \in Verbs, payload \in Payloads, topic \in Topics, id \in Ids,
          qos \in QoSLevels : Create(verb, payload, topic, id, qos)
    \/ \E option \in Options : AddOption(option)
    \/ \E option \in Options : RemoveOption(option.type)
    \/ \E payload \in Payloads : SetPayload(payload)
    \/ \E set \in HeaderValues : SetHeader(set[1], set[2])
    \/ Reuse
    \/ \E payload \in Payloads : Respond(payload)
    \/ Pack
    \/ PackThrows
    \/ \E d \in Datagrams : Foreign(d)
    \/ Unpack

Spec == Init /\ [][Next]_vars

\* unpack() is one call of a running thread: once begun it takes its steps.
FairSpec == Spec /\ WF_vars(Unpack)

---------------------------------------------------------------------------
(* Properties *)

\* Every field stays within its C++ type, the unpacker never reads beyond the
\* datagram (option.cpp:93-131), and the options it has read and those it still
\* owes are the ones the header counts (message.cpp:146-150).
TypeOK ==
    /\ msg \in Message
    /\ got \in Message
    /\ {received, foreign} \subseteq BOOLEAN
    /\ data \in Seq(Byte)
    /\ offset \in 0 .. Len(data)
    /\ left \in Byte
    /\ pc \in Phases
    /\ pc \in {"options", "done"} => left + Len(got.options) = got.count

\* "Remove existing option of same type" (message.cpp:56): a message that was
\* never unpacked carries one option of each type at most, so that getOption()
\* returns what was set last.  Unpacking keeps duplicates, and addOption()
\* erases the first of them only: an edited copy may answer with the second.
OneOfEachType ==
    ~received => \A k, l \in DOMAIN msg.options :
                    msg.options[k].type = msg.options[l].type => k = l

\* Both getters of an option give the receiver what they give the owner.
SameRead(sent, read) ==
    /\ getIntValue(read) = getIntValue(sent)
    /\ getStringValue(read) = getStringValue(sent)

\* The kind the bytes of an option stand for: the kind itself is not packed.
KindOnWire(option) ==
    IF option.type \in IntegerTypes /\ Len(option.value) = 4 THEN "int" ELSE "string"

(***************************************************************************)
(* Whatever its owner did to a message (built, edited, forwarded or        *)
(* answered it), what pack() accepts is unpacked without an exception, as  *)
(* the same header, option bytes and payload (message.cpp:107-158), but    *)
(*  - an option reads as the owner's only if it was made with the kind its *)
(*    type and length stand for: an integer of another type, a string of   *)
(*    four bytes of an integer type and raw bytes change their kind, and   *)
(*    the getter of the old one throws (option.cpp:63, 70, 113-128); the   *)
(*    topic and the content type the owner can read keep theirs;           *)
(*  - of 256 options or more, as addOption() makes of a forwarded message  *)
(*    with 255, the one-byte count lets as many through as it counts, and  *)
(*    the rest is read as the beginning of the payload (message.cpp:60).   *)
(***************************************************************************)
RoundTrip ==
    ~foreign =>
        /\ pc # "failed"
        /\ pc = "done" =>
             LET n == Len(msg.options) % 256
             IN  /\ \A field \in {"version", "verb", "qos", "code", "id", "count"} :
                        got[field] = msg[field]
                 /\ Len(got.options) = n
                 /\ \A k \in 1 .. n :
                        /\ got.options[k].type = msg.options[k].type
                        /\ got.options[k].value = msg.options[k].value
                        /\ SameRead(msg.options[k], got.options[k])
                               <=> msg.options[k].kind = KindOnWire(msg.options[k])
                 /\ got.payload =
                        packOptions(SubSeq(msg.options, n + 1, Len(msg.options))) \o msg.payload
                 /\ n = Len(msg.options) =>
                        /\ getTopicPath(msg) \subseteq getTopicPath(got)
                        /\ getContentType(msg) \subseteq getContentType(got)

\* The 18 bits that follow the option count are not read (header.cpp:71-77).
withoutUnusedBits(d) ==
    [k \in DOMAIN d |-> IF k = 6 THEN (d[k] \div 4) * 4
                        ELSE IF k \in {7, 8} THEN 0 ELSE d[k]]

\* unpack() drops and adds no byte of a datagram, whoever composed it: packing
\* its result gives the datagram again, up to the header's unused bits.  And
\* its topic can be read: the getStringValue() of handleTell, handleAsk and
\* handleObserve throws at no datagram (agent.cpp:417, 435, 452).
NothingLost ==
    pc = "done" => /\ packedBytes(got) = withoutUnusedBits(data)
                   /\ getTopicPath(got) # {}

\* unpack() comes to an end on every datagram, with a message or an exception,
\* also for the largest count its one-byte loop variable can meet
\* (message.cpp:146).
Decodes == pc = "header" ~> pc \in {"failed", "done"}
=============================================================================
