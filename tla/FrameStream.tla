----------------------------- MODULE FrameStream -----------------------------
(***************************************************************************)
(* From notifications to state: on_bluetooth_data_received puts frames     *)
(* together from the bytes of notifications that may end anywhere, decodes *)
(* them and applies the messages.  The handler runs without an await, so a *)
(* notification is one step.                                               *)
(*                                                                         *)
(* External: the scale, the link, which may damage a frame, and the        *)
(* application's callback, which may raise.                                *)
(***************************************************************************)
EXTENDS Parser, SequencesExt

CONSTANTS Frames,        \* the sets of frames the scale sends one of first, second...:
                         \* their bytes and their message
          WrongLengths,  \* length bytes of damaged frames
          MaxDamaged,    \* bound: frames damaged
          MaxBreaks      \* bound: reconnects and exceptions of the callback

ASSUME BoundsAssumption == MaxDamaged \in Nat /\ MaxBreaks \in Nat

MaxFrames == Len(Frames)

ASSUME FramesAssumption ==
    /\ MaxFrames \in Nat /\ DOMAIN Frames = 1..MaxFrames
    /\ \A i \in 1..MaxFrames : \A f \in Frames[i] : f.bytes \in Seq(Bytes) /\ Len(f.bytes) >= 4
    /\ WrongLengths \subseteq Bytes

None == [kind |-> "None"]

VARIABLES
    buffer,   \* _last_short_msg, empty for None
    weight,   \* _weight, as a set of at most one value
    device,   \* _device_state, a Settings message or None
    wire,     \* bytes on their way
    coming,   \* history: the undamaged frames with bytes on their way
    applied,  \* history: the messages applied that carry state
    owed,     \* history: the messages of the frames that arrived whole
    sent, damaged, breaks  \* bounds

vars == <<buffer, weight, device, wire, coming, applied, owed, sent, damaged, breaks>>

Carries(m) == m.kind \in {"Weight", "Timer", "Button", "Settings"}

\* Those of the messages that carry state, in order.
Carried(messages) ==
    FoldLeft(LAMBDA some, m : IF Carries(m) THEN Append(some, m) ELSE some, <<>>, messages)

SentMessage == {f.message : f \in UNION Range(Frames)}

TypeOK ==
    /\ buffer \in Seq(Bytes)
    /\ weight \in Optional(Weights) /\ device \in Settings \cup {None}
    /\ wire \in Seq(Bytes)
    /\ coming \in Seq([first : Int, last : Int, message : SentMessage])
    /\ applied \in Seq(Message) /\ owed \in Seq(SentMessage)
    /\ sent \in 0..MaxFrames /\ damaged \in 0..MaxDamaged /\ breaks \in 0..MaxBreaks

Init ==
    /\ buffer = <<>> /\ weight = {} /\ device = None
    /\ wire = <<>> /\ coming = <<>> /\ applied = <<>> /\ owed = <<>>
    /\ sent = 0 /\ damaged = 0 /\ breaks = 0

-----------------------------------------------------------------------------
(* The handler.                                                              *)

Headers(p, i) == {j \in i..(Len(p) - 1) : p[j] = HEADER1 /\ p[j + 1] = HEADER2}

\* Mutant: any header behind the one at s will do.
NextHeaders(p, s) == Headers(p, s + 2)

\* _skip_to_next_frame: the headers behind the one at s with a frame that decodes.
NextFrames(p, s) ==
    {j \in Headers(p, s + 2) : ~TooShort(p, j) /\ ~TooLong(p, j) /\ Decode(p, j) # Error}

\* Mutant: all bytes without a header are kept.
KeepUnframed(p, i) == From(p, i)

\* What is kept of p from i on when no header is there: half of one.
Unframed(p, i) == IF i <= Len(p) /\ Last(p) = HEADER1 THEN <<HEADER1>> ELSE <<>>

\* One pass of the loop in _extract_messages, with the bytes from i on pending;
\* extract is what the passes behind it give.
Pass(p, i, extract) ==
    LET s          == Min(Headers(p, i))
        keep(rest) == [messages |-> <<>>, rest |-> rest]
    IN  IF Headers(p, i) = {} THEN keep(Unframed(p, i))
        ELSE IF TooShort(p, s) THEN keep(From(p, s))
        ELSE IF TooLong(p, s) THEN
             IF NextFrames(p, s) = {} THEN keep(From(p, s)) ELSE extract[Min(NextFrames(p, s))]
        ELSE IF Decode(p, s) = Error THEN extract[s + 2]
        ELSE LET next == extract[s + FrameLength(p, s)]
             IN  [next EXCEPT !.messages = <<Decode(p, s)>> \o @]

\* _extract_messages: the messages in p, and the bytes to keep for the next time.
ExtractMessages(p) ==
    LET extract[i \in Nat] == Pass(p, i, extract) IN extract[1]

\* Mutant: a key without a weight clears the weight.
AppliedAlways(state, m) ==
    CASE m.kind = "Settings" -> [state EXCEPT !.device = m]
      [] m.kind \in {"Weight", "Button"} -> [state EXCEPT !.weight = m.weight]
      [] OTHER -> state

\* _apply_message on what it keeps of a message: the weight and the settings.
Applied(state, m) ==
    CASE m.kind = "Settings" -> [state EXCEPT !.device = m]
      [] m.kind = "Weight" -> [state EXCEPT !.weight = m.weight]
      [] m.kind = "Button" /\ m.weight # {} -> [state EXCEPT !.weight = m.weight]
      [] OTHER -> state

Apply(messages) ==
    LET state == FoldLeft(Applied, [weight |-> weight, device |-> device], messages)
    IN  /\ weight' = state.weight
        /\ device' = state.device
        /\ applied' = applied \o Carried(messages)

-----------------------------------------------------------------------------
(* The scale and the link.                                                   *)

ScaleSends ==
    /\ sent < MaxFrames
    /\ sent' = sent + 1
    /\ \E f \in Frames[sent + 1] :
         /\ wire' = wire \o f.bytes
         /\ coming' = Append(coming, [first |-> Len(wire) + 1,
                                      last |-> Len(wire) + Len(f.bytes), message |-> f.message])
    /\ UNCHANGED <<buffer, weight, device, applied, owed, damaged, breaks>>

\* A frame cut short, with another length, or with one byte of its header or
\* behind its length changed.  The sums do not cover the command, nor all pairs
\* of bytes changed together.
Damages(bytes) ==
    {SubSeq(bytes, 1, n) : n \in 1..(Len(bytes) - 1)}
      \cup {[bytes EXCEPT ![4] = n] : n \in WrongLengths \ {bytes[4]}}
      \cup {[bytes EXCEPT ![i] = (@ + 1) % 256] : i \in {1, 2} \cup (5..Len(bytes))}

DamagedSent ==
    /\ sent < MaxFrames /\ damaged < MaxDamaged
    /\ sent' = sent + 1 /\ damaged' = damaged + 1
    /\ \E f \in Frames[sent + 1] : \E bytes \in Damages(f.bytes) : wire' = wire \o bytes
    /\ UNCHANGED <<buffer, weight, device, coming, applied, owed, breaks>>

\* How many of the frames on their way end with the k-th byte or before it, and
\* how many begin there.
Ended(k) == Max({0} \cup {i \in DOMAIN coming : coming[i].last <= k})
Begun(k) == Max({0} \cup {i \in DOMAIN coming : coming[i].first <= k})

\* The next k bytes arrive; all but the first n frames are still to come.
Arrives(k, n) ==
    /\ wire' = From(wire, k + 1)
    /\ coming' = [i \in 1..(Len(coming) - n) |->
                    [coming[i + n] EXCEPT !.first = @ - k, !.last = @ - k]]
    /\ UNCHANGED <<sent, damaged>>

\* What the frames carry that end with the k-th byte or before it.
Completed(k) == Carried([i \in 1..Ended(k) |-> coming[i].message])

\* on_bluetooth_data_received
Receive ==
    \E k \in DOMAIN wire :
      LET got == ExtractMessages(buffer \o SubSeq(wire, 1, k))
      IN  /\ Apply(got.messages)
          /\ buffer' = got.rest
          /\ owed' = owed \o Completed(k)
          /\ Arrives(k, Ended(k))
          /\ UNCHANGED breaks

\* The callback raises at the n-th message: the handler ends there, without the
\* rest of the notification, and _last_short_msg is None by then.
CallbackRaises ==
    /\ breaks < MaxBreaks
    /\ breaks' = breaks + 1
    /\ \E k \in DOMAIN wire :
         LET messages == ExtractMessages(buffer \o SubSeq(wire, 1, k)).messages
         IN  \E n \in DOMAIN messages :
               LET done == Len(Carried(SubSeq(messages, 1, n)))
               IN  /\ messages[n] # Ack
                   /\ Apply(SubSeq(messages, 1, n))
                   /\ owed' = owed \o SubSeq(Completed(k), 1, Min({done, Len(Completed(k))}))
                   /\ Arrives(k, Begun(k))
    /\ buffer' = <<>>

\* The link is lost with what is on its way; _last_short_msg stays.
Reconnects ==
    /\ breaks < MaxBreaks
    /\ breaks' = breaks + 1
    /\ wire' = <<>> /\ coming' = <<>>
    /\ UNCHANGED <<buffer, weight, device, applied, owed, sent, damaged>>

Next == ScaleSends \/ DamagedSent \/ Receive \/ CallbackRaises \/ Reconnects

Spec == Init /\ [][Next]_vars

-----------------------------------------------------------------------------
\* Every frame that arrives whole is applied once, in order and no later than
\* with the notification that completes it, whatever the cuts between
\* notifications and whatever arrived before: damaged frames, a part of a frame
\* from an earlier connection, a notification its handler did not finish.
\* Nothing else is applied.
EveryFrameOnce == applied = owed

\* What _extract_messages keeps for the next notification is the beginning of
\* one frame that lacks bytes, with no whole frame behind it: garbage is not
\* kept, and never more than the length a frame can claim.
BufferIsFragment ==
    \/ buffer \in {<<>>, <<HEADER1>>}
    \/ /\ 1 \in Headers(buffer, 1)
       /\ TooShort(buffer, 1) \/ (TooLong(buffer, 1) /\ NextFrames(buffer, 1) = {})

\* The sums catch what arrives cut, damaged or pieced together of two connections:
\* in what is kept and on its way only the frames sent decode, or what carries no
\* state and ends before the next of them.
OnlySentDecode ==
    LET q == buffer \o wire
    IN  \A s \in Headers(q, 1) :
          ~TooShort(q, s) /\ ~TooLong(q, s) /\ Decode(q, s) # Error =>
            \/ \E i \in DOMAIN coming : coming[i].first + Len(buffer) = s
            \/ /\ ~Carries(Decode(q, s))
               /\ \A i \in DOMAIN coming :
                    \/ s + FrameLength(q, s) <= coming[i].first + Len(buffer)
                    \/ coming[i].last + Len(buffer) < s

\* A frame as the scale makes it: it claims its own length and decodes to its message.
SoundFrame(f) ==
    /\ Len(f.bytes) >= MIN_FRAME_LENGTH /\ Len(f.bytes) = FrameLength(f.bytes, 1)
    /\ f.bytes[1] = HEADER1 /\ f.bytes[2] = HEADER2
    /\ Decode(f.bytes, 1) = f.message /\ f.message # Error

\* No beginning of it has another frame in it that decodes.
WholeFrame(f) ==
    /\ SoundFrame(f)
    /\ \A n \in 1..(Len(f.bytes) - 1) : NextFrames(SubSeq(f.bytes, 1, n), 1) = {}

SoundFrames == \A i \in 1..MaxFrames : \A f \in Frames[i] : SoundFrame(f)
WholeFrames == \A i \in 1..MaxFrames : \A f \in Frames[i] : WholeFrame(f)

\* The weight is that of the last message with a weight, whatever came after it
\* without one, and the settings are the last ones.
LatestValues ==
    LET weights  == {i \in DOMAIN owed : owed[i].kind \in {"Weight", "Button"} /\ owed[i].weight # {}}
        settings == {i \in DOMAIN owed : owed[i].kind = "Settings"}
    IN  /\ weight = IF weights = {} THEN {} ELSE owed[Max(weights)].weight
        /\ device = IF settings = {} THEN None ELSE owed[Max(settings)]

=============================================================================
