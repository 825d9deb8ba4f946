----------------------------- MODULE AudioQueue -----------------------------
(***************************************************************************)
(* The audio worklet of a live stream: the queue of packets that the page  *)
(* pushes and the processor plays, and BufferStats, which measures its     *)
(* length and says when to shorten it                                      *)
(* (client/src/app/video/audio-stream.ts).                                 *)
(*                                                                         *)
(* The averages are fractions and a square root.  They are only used       *)
(* rounded, and Rounded gives that exactly from the integers they are made *)
(* of.  A packet is one element of the queue: what is in it is not kept.   *)
(***************************************************************************)
EXTENDS Integers, Sequences, FiniteSetsExt

CONSTANTS
  ArraySize,    \* samples averaged: 5
  MaxHardLimit, \* maxBufferSizeHardLimit: 15
  WorkingHardLimit, \* workingBufferSizeHardLimit: 8
  InitialMax,   \* maxBufferSize to begin with: 20
  InitialWorking, \* workingBufferSize to begin with: 5
  MaxQueue      \* bound of the model: packets in the queue

VARIABLES
  arrays,       \* the length of the queue
  playing,      \* the packet being played has samples left
  bs,           \* the BufferStats
  autoLatencyControl, lastAutoLatencyControl,
  wanted,       \* the value of the autoLatencyControl parameter
  running,
  processing    \* process() is called: it has not returned false

aqVars == <<arrays, playing, bs, autoLatencyControl, lastAutoLatencyControl,
            wanted, running, processing>>

\* A slot of statsArray never written is read as 0: it is not read before the
\* array is full.
Init ==
  /\ arrays = 0 /\ playing = FALSE
  /\ bs = [samples |-> [i \in 0 .. ArraySize - 1 |-> 0], arrayIndex |-> 0,
           fullArray |-> FALSE, measuring |-> TRUE,
           max |-> InitialMax, working |-> InitialWorking]
  /\ autoLatencyControl = TRUE /\ lastAutoLatencyControl = TRUE
  /\ wanted \in BOOLEAN
  /\ running = TRUE /\ processing = TRUE

-----------------------------------------------------------------------------
(* BufferStats *)

\* The sum of the first n of the samples s.
SumTo(s) ==
  LET sum[n \in 0 .. ArraySize] == IF n = 0 THEN 0 ELSE sum[n - 1] + s[n - 1]
  IN  sum
Total(s) == SumTo(s)[ArraySize]
Squares(s) == Total([i \in DOMAIN s |-> s[i] * s[i]])

\* The integer part of the square root of n.
Root(n) == CHOOSE r \in 0 .. n : r * r <= n /\ (r + 1) * (r + 1) > n

\* average() is Total / ArraySize.  standardDeviation() is half the square root
\* of this, over ArraySize.
Deviation(s) == 4 * (ArraySize * Squares(s) - Total(s) * Total(s))

\* Mutant: no margin.
MaxBufferSizeTight(s) ==
  Min({MaxHardLimit,
       (2 * Total(s) + ArraySize + Root(Deviation(s))) \div (2 * ArraySize)})

\* Math.round(average() + 3 + standardDeviation()), clamped.
MaxBufferSize(s) ==
  Min({MaxHardLimit,
       (2 * Total(s) + 7 * ArraySize + Root(Deviation(s))) \div (2 * ArraySize)})

\* Math.round(average() - standardDeviation()), clamped.
WorkingBufferSize(s) ==
  LET r == Root(Deviation(s))
      above == IF r * r = Deviation(s) THEN r ELSE r + 1
      rounded == (2 * Total(s) + ArraySize - above) \div (2 * ArraySize)
  IN Max({1, Min({WorkingHardLimit, rounded})})

\* update(length): due when the measurement window is over.
Updated(b, length, due) ==
  LET s == [b.samples EXCEPT ![b.arrayIndex] = length]
      full == b.fullArray \/ b.arrayIndex + 1 = ArraySize
      done == due /\ full
  IN IF ~b.measuring THEN b
     ELSE [samples |-> s, arrayIndex |-> (b.arrayIndex + 1) % ArraySize,
           fullArray |-> full, measuring |-> ~done,
           max |-> IF done THEN MaxBufferSize(s) ELSE b.max,
           working |-> IF done THEN WorkingBufferSize(s) ELSE b.working]

ResetStats(b) ==
  [b EXCEPT !.arrayIndex = 0, !.fullArray = FALSE, !.measuring = TRUE]

BufferTooLarge(b, length) == ~b.measuring /\ length > b.max

-----------------------------------------------------------------------------
(* The processor *)

\* Mutant: turning the control on leaves the queue and the measurement.
PushKeepsAll ==
  /\ arrays < MaxQueue
  /\ \E due \in BOOLEAN :
       LET length == arrays + 1
           b == IF autoLatencyControl THEN Updated(bs, length, due) ELSE bs
           tooLarge == lastAutoLatencyControl /\ autoLatencyControl
                         /\ BufferTooLarge(b, length)
       IN /\ arrays' = IF tooLarge THEN Min({length, b.working}) ELSE length
          /\ bs' = IF tooLarge THEN ResetStats(b) ELSE b
  /\ lastAutoLatencyControl' = autoLatencyControl
  /\ UNCHANGED <<playing, autoLatencyControl, wanted, running, processing>>

\* onmessage, with a packet: control has just been turned on, is on, or is off.
Push ==
  /\ arrays < MaxQueue
  /\ \E due \in BOOLEAN :
       LET turnedOn == autoLatencyControl /\ ~lastAutoLatencyControl
           length == IF turnedOn THEN 1 ELSE arrays + 1
           b == IF ~autoLatencyControl THEN bs
                ELSE Updated(IF turnedOn THEN ResetStats(bs) ELSE bs, length, due)
           tooLarge == autoLatencyControl /\ BufferTooLarge(b, length)
       IN /\ arrays' = IF tooLarge THEN Min({length, b.working}) ELSE length
          /\ bs' = IF tooLarge THEN ResetStats(b) ELSE b
  /\ lastAutoLatencyControl' = autoLatencyControl
  /\ UNCHANGED <<playing, autoLatencyControl, wanted, running, processing>>

\* process(): the packet being played ends in it, or does not.  With nothing to
\* play it returns true, shut down or not.
Process ==
  /\ processing
  /\ autoLatencyControl' = wanted
  /\ IF ~playing /\ arrays = 0
     THEN UNCHANGED <<arrays, playing, processing>>
     ELSE /\ processing' = running
          /\ \/ playing /\ UNCHANGED <<arrays, playing>>
             \/ /\ playing' = (arrays > 0)
                /\ arrays' = Max({0, arrays - 1})
  /\ UNCHANGED <<bs, lastAutoLatencyControl, wanted, running>>

\* AudioStream.setAutoLatencyControl sets the parameter.
SetAutoLatencyControl ==
  /\ wanted' = ~wanted
  /\ UNCHANGED <<arrays, playing, bs, autoLatencyControl,
                 lastAutoLatencyControl, running, processing>>

\* onmessage, with the shutdown that AudioStream.terminate posts.
Shutdown ==
  /\ running
  /\ running' = FALSE
  /\ UNCHANGED <<arrays, playing, bs, autoLatencyControl,
                 lastAutoLatencyControl, wanted, processing>>

Next == Push \/ Process \/ SetAutoLatencyControl \/ Shutdown

Spec == Init /\ [][Next]_aqVars

-----------------------------------------------------------------------------
(***************************************************************************)
(* Once measured, the latency is limited: with the control on the queue is *)
(* never longer than the size measured, whenever the control is turned off *)
(* and on and however the packets bunch.                                   *)
(***************************************************************************)
LatencyLimited ==
  ~bs.measuring /\ lastAutoLatencyControl => arrays <= bs.max

(***************************************************************************)
(* Shortening the queue makes it shorter and leaves something to play: the *)
(* roundings and the clamps keep the working size below the maximum.       *)
(***************************************************************************)
WorkingBelowMax ==
  ~bs.measuring => bs.working \in 1 .. bs.max - 1

\* Why they hold: the maximum that was measured is not one that was set.
IInv ==
  /\ arrays \in Nat
  /\ bs \in [samples : [0 .. ArraySize - 1 -> Nat], arrayIndex : 0 .. ArraySize - 1,
             fullArray : BOOLEAN, measuring : BOOLEAN, max : Int, working : Int]
  /\ {playing, autoLatencyControl, lastAutoLatencyControl, wanted} \subseteq BOOLEAN
  /\ LatencyLimited /\ WorkingBelowMax
=============================================================================
