-------------------------------- MODULE Parser --------------------------------
(***************************************************************************)
(* parser.py: from the bytes of a frame to a message.  A field that a      *)
(* message may lack is a set of at most one value.  Weights are in         *)
(* ten-thousandths of a gram and times in tenths of a second, so that the  *)
(* source's divisions by powers of ten are exact.                          *)
(***************************************************************************)
EXTENDS Encoder, FiniteSetsExt

EVENT_COMMAND    == 12
SETTINGS_COMMAND == 8

\* Record tags; the first four are also the types of an event.
WEIGHT  == 5
TIMER   == 7
BUTTON  == 8
ACK     == 11
BATTERY == 6

MIN_FRAME_LENGTH == 6
FRAME_OVERHEAD   == 5

\* AcaiaMessageError; an unknown command is no error and carries no message.
Error   == [kind |-> "Error"]
Ignored == [kind |-> "None"]
Ack     == [kind |-> "Ack"]

From(s, i) == SubSeq(s, i, Len(s))

-----------------------------------------------------------------------------
(* What decode returns, but for errors.                                      *)

Optional(S) == {some \in SUBSET S : \A x, y \in some : x = y}

\* Two bytes at the coarsest unit, with a sign; minutes, seconds and tenths, a byte each.
MaxWeight == 1000 * (256 * 255 + 255)
MaxTime   == 600 * 255 + 10 * 255 + 255

Weights == -MaxWeight..MaxWeight
Times   == 0..MaxTime

WeightMessage == [kind : {"Weight"}, weight : Optional(Weights) \ {{}}, time : Optional(Times)]
TimerMessage  == [kind : {"Timer"}, time : Times]
ButtonMessage ==
    [kind : {"Button"}, button : {"tare", "start", "stop", "reset", "unknown"},
     running : Optional(BOOLEAN), time : Optional(Times), weight : Optional(Weights)]
Settings ==
    [kind : {"Settings"}, battery : 0..127, running : BOOLEAN, units : {"grams", "ounces"},
     autoOff : {5 * n : n \in 0..255}, beeps : BOOLEAN]

Message == WeightMessage \cup TimerMessage \cup ButtonMessage \cup Settings \cup {Ack, Ignored}

-----------------------------------------------------------------------------
(* Records.                                                                  *)

IsWeight(body) == Len(body) >= 6 /\ body[5] \in 1..4

DecodeWeight(body) ==
    LET value == (body[2] * 256 + body[1]) * <<1000, 100, 10, 1>>[body[5]]
    IN  IF (body[6] \div 2) % 2 = 1 THEN -value ELSE value

DecodeTime(body) == body[1] * 600 + body[2] * 10 + body[3]

\* Mutant: an ack in a chain is taken for a record of one byte.
NarrowAckWidth == [tag \in {WEIGHT, TIMER, BUTTON, ACK, BATTERY} |->
    CASE tag = WEIGHT -> 6 [] tag = TIMER -> 3 [] OTHER -> 1]

RecordWidth == [tag \in {WEIGHT, TIMER, BUTTON, ACK, BATTERY} |->
    CASE tag = WEIGHT -> 6 [] tag = TIMER -> 3 [] tag = ACK -> 2 [] OTHER -> 1]

\* _walk_records: the records of a chain, up to an unknown tag or a body cut short.
WalkRecords(payload) ==
    LET walk[i \in Nat] ==
          IF \/ i > Len(payload)
             \/ payload[i] \notin DOMAIN RecordWidth
             \/ i + RecordWidth[payload[i]] > Len(payload)
          THEN <<>>
          ELSE LET next == i + 1 + RecordWidth[payload[i]]
               IN  <<[tag |-> payload[i], body |-> SubSeq(payload, i + 1, next - 1)]>>
                     \o walk[next]
    IN  walk[1]

\* A chain with a weight that decode_weight rejects raises.
Readable(chain) ==
    \A i \in DOMAIN chain : chain[i].tag = WEIGHT => IsWeight(chain[i].body)

\* The body of the last record with this tag, if there is one.
Field(chain, tag) ==
    LET found == {i \in DOMAIN chain : chain[i].tag = tag}
    IN  IF found = {} THEN {} ELSE {chain[Max(found)].body}

TimeIn(chain)   == {DecodeTime(body) : body \in Field(chain, TIMER)}
WeightIn(chain) == {DecodeWeight(body) : body \in Field(chain, WEIGHT)}

-----------------------------------------------------------------------------
(* Messages.                                                                 *)

ParseTimer(payload) ==
    IF Len(payload) < 3 THEN Error ELSE [kind |-> "Timer", time |-> DecodeTime(payload)]

ParseWeight(payload) ==
    LET trailing == WalkRecords(From(payload, 7))
    IN  IF ~IsWeight(payload) \/ ~Readable(trailing) THEN Error
        ELSE [kind |-> "Weight", weight |-> {DecodeWeight(payload)}, time |-> TimeIn(trailing)]

\* _BUTTON_TYPES: a key's name and the state of the timer after it.
ButtonTypes == [key \in {0, 8, 9, 10} |->
    CASE key = 0  -> [button |-> "tare",  running |-> {}]
      [] key = 8  -> [button |-> "start", running |-> {TRUE}]
      [] key = 9  -> [button |-> "reset", running |-> {}]
      [] key = 10 -> [button |-> "stop",  running |-> {FALSE}]]

ParseButton(payload) ==
    LET chain == WalkRecords(<<BUTTON>> \o payload)
        keys  == {body[1] : body \in Field(chain, BUTTON)} \cap DOMAIN ButtonTypes
    IN  IF payload = <<>> \/ ~Readable(chain) THEN Error
        ELSE IF keys = {} THEN
            [kind |-> "Button", button |-> "unknown", running |-> {}, time |-> {}, weight |-> {}]
        ELSE LET type == ButtonTypes[CHOOSE key \in keys : TRUE]
             IN  [kind |-> "Button", button |-> type.button, running |-> type.running,
                  time |-> TimeIn(chain), weight |-> WeightIn(chain)]

ParseHeartbeat(payload) ==
    CASE Len(payload) < 2 -> Error
      [] Len(payload) = 2 -> Ack
      [] OTHER ->
           CASE payload[3] = BUTTON -> ParseButton(From(payload, 4))
             [] payload[3] = WEIGHT -> ParseWeight(From(payload, 4))
             [] payload[3] = TIMER -> ParseTimer(From(payload, 4))
             [] OTHER -> Ack

\* Mutant: the timer's bit is left in the battery level.
ParseSettingsUnmasked(body) ==
    IF Len(body) < 7 THEN Error
    ELSE [kind |-> "Settings", battery |-> body[2], running |-> body[2] >= 128,
          units |-> IF body[3] = 5 THEN "ounces" ELSE "grams",
          autoOff |-> body[5] * 5, beeps |-> body[7] = 1]

\* _parse_settings, given the body with its length byte.
ParseSettings(body) ==
    IF Len(body) < 7 THEN Error
    ELSE [kind |-> "Settings", battery |-> body[2] % 128, running |-> body[2] >= 128,
          units |-> IF body[3] = 5 THEN "ounces" ELSE "grams",
          autoOff |-> body[5] * 5, beeps |-> body[7] = 1]

ParseMessage(type, payload) ==
    CASE type = WEIGHT -> ParseWeight(payload)
      [] type = TIMER -> ParseTimer(payload)
      [] type = ACK -> ParseHeartbeat(payload)
      [] type = BUTTON -> ParseButton(payload)
      [] OTHER -> Error

-----------------------------------------------------------------------------
(* Frames.                                                                   *)

\* Mutant: only the first of the two sums is compared.
ValidChecksumFirstOnly(frame) ==
    LET body == SubSeq(frame, 4, Len(frame) - 2)
    IN  frame[Len(frame) - 1] = AlternateSum(body, 1)

\* _validate_checksum; the command is not in the sums.
ValidChecksum(frame) ==
    LET body == SubSeq(frame, 4, Len(frame) - 2)
    IN  From(frame, Len(frame) - 1) = <<AlternateSum(body, 1), AlternateSum(body, 2)>>

\* The bytes that the frame at s claims, and those that are there.
FrameLength(bytes, s) == bytes[s + 3] + FRAME_OVERHEAD
Available(bytes, s)   == Len(bytes) - s + 1

TooShort(bytes, s) == Available(bytes, s) < MIN_FRAME_LENGTH
TooLong(bytes, s)  == Available(bytes, s) < FrameLength(bytes, s)

\* decode, for a frame that is all there: the message of the header at s.
Decode(bytes, s) ==
    LET frame == SubSeq(bytes, s, s + FrameLength(bytes, s) - 1)
        body  == SubSeq(frame, 4, Len(frame) - 2)
    IN  CASE ~ValidChecksum(frame) -> Error
          [] OTHER ->
               CASE frame[3] = EVENT_COMMAND ->
                      IF frame[4] < 2 THEN Error ELSE ParseMessage(body[2], From(body, 3))
                 [] frame[3] = SETTINGS_COMMAND -> ParseSettings(body)
                 [] OTHER -> Ignored

===============================================================================
