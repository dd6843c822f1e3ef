---------------------------- MODULE MCFrameStream ----------------------------
(***************************************************************************)
(* Instances of FrameStream for TLC.  A frame is described by the records  *)
(* the scale puts in it and by the message it stands for; the bytes follow *)
(* from the records.                                                       *)
(***************************************************************************)
EXTENDS FrameStream

\* A body with its length in front, as the scale encodes it.
Frame(command, payload, message) ==
    [bytes |-> Encode(command, <<Len(payload) + 1>> \o payload), message |-> message]

Event(payload, message) == Frame(EVENT_COMMAND, payload, message)

\* 175.9 g; 5681.5 g has the bytes of a header; 1 min 30.5 s.
WeightRecord == <<223, 6, 0, 0, 1, 0>>
HeaderWeight == <<239, 221, 0, 0, 1, 0>>
TimeRecord   == <<1, 30, 5>>

Weight(w, t) == [kind |-> "Weight", weight |-> {w}, time |-> t]
Button(b, running, t, w) ==
    [kind |-> "Button", button |-> b, running |-> running, time |-> t, weight |-> w]

AckOnly    == Event(<<ACK, 0, 224>>, Ack)
Embedded   == Event(<<WEIGHT>> \o HeaderWeight, Weight(56815000, {}))
Timed      == Event(<<WEIGHT>> \o WeightRecord \o <<TIMER>> \o TimeRecord, Weight(1759000, {905}))
CutTimer   == Event(<<WEIGHT>> \o WeightRecord \o <<TIMER, 0>>, Weight(1759000, {}))
TimerOnly  == Event(<<TIMER>> \o TimeRecord, [kind |-> "Timer", time |-> 905])
Start      == Event(<<BUTTON, 8>>, Button("start", {TRUE}, {}, {}))
BehindAck  == Event(<<BUTTON, 9, ACK, 0, 224, WEIGHT>> \o WeightRecord,
                    Button("reset", {}, {}, {1759000}))
Settings74 == Frame(SETTINGS_COMMAND, <<202, 2, 1, 1, 0, 0, 1>>,
                    [kind |-> "Settings", battery |-> 74, running |-> TRUE, units |-> "grams",
                     autoOff |-> 5, beeps |-> FALSE])
Unknown    == Frame(5, <<0>>, Ignored)

\* Every kind comes first; a weight with the bytes of a header or a key with a chain
\* of records, then a key alone, find what it left behind.
ThreeFrames ==
    << {AckOnly, Embedded, Timed, CutTimer, TimerOnly, Start, BehindAck, Settings74, Unknown},
       {Embedded, BehindAck}, {Start} >>

===============================================================================
