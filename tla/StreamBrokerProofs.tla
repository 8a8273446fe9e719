------------------------ MODULE StreamBrokerProofs ------------------------
(***************************************************************************)
(* Machine-checked proofs about StreamBroker, for any number of viewers,   *)
(* of preview processes and of generations of pumps.                       *)
(***************************************************************************)
EXTENDS StreamBroker, TLAPS

\* A process is launched before anyone reads from it, and a pump that reads has
\* a process to read from.
StreamInv ==
  /\ owner \in Processes => owner <= launched
  /\ \A g \in Generations : /\ stream[g] <= launched
                            /\ pump[g] \in {"none", "opening"} => stream[g] = 0
                            /\ pump[g] \in {"reading", "holding", "sending"} => stream[g] # 0

\* No viewer has joined g, and none can: only the current generation is joined.
Deserted(g) == g # current /\ Served(g) = {}

\* A pump that is not current has either given up its place and is on its way
\* out, or nobody is left to hear it; a closed source is nobody's current one,
\* and a viewer that has left leaves an empty slot.
PlaceInv ==
  /\ \A g \in Generations : /\ g = current => pump[g] \notin {"ending", "done"}
                            /\ g \in closed => g # current /\ g <= generation
                            /\ g # current /\ g <= generation
                                 => pump[g] \in {"ending", "done"} \/ Deserted(g)
  /\ \A v \in Viewers : viewer[v] = 0 => mailbox[v] = Empty

\* A pump leaves because there was no preview, because its process has gone, or
\* because nobody listens.
LeavingInv ==
  \A g \in Generations :
    pump[g] \in {"leaving", "ending", "done"}
      => stream[g] = 0 \/ owner # stream[g] \/ Deserted(g)

\* NoFalseEnd follows from the rest, as the end is announced by a pump that is done.
PumpInv == TypeOK /\ StreamInv /\ PlaceInv /\ LeavingInv /\ OwnGenerationOnly

PumpSteps(g) == Open(g) \/ ReadFrame(g) \/ ReadEnds(g) \/ Check(g) \/ Send(g)
                  \/ Relinquish(g) \/ End(g)

LEMMA BrokerStarts == Init => PumpInv
BY BrokerAssumption
   DEF Init, CameraInit, PumpInv, TypeOK, StreamInv, PlaceInv, LeavingInv, Served, Deserted,
       OwnGenerationOnly, Generations, Processes, Free, Capture, Empty, EndOfStream

\* The owner is a process that has been launched, or no process at all; a new owner
\* is one that no pump has read from.
LEMMA CameraSafe ==
  ASSUME PumpInv, CameraSteps
  PROVE  PumpInv'
<1> USE BrokerAssumption DEF PumpInv, CameraSteps, Processes, Free, Capture
<1>1. /\ owner' \in Processes \cup {Free, Capture} /\ launched' \in 0..MaxLaunches
      /\ launched <= launched'
      /\ owner' \in Processes => owner' = launched' /\ launched' = launched + 1
  BY DEF TypeOK, CameraNext, PreviewTakes, PreviewReleases, CaptureTakes, CaptureReleases
<1>2. TypeOK'
  BY <1>1 DEF TypeOK
<1>3. StreamInv'
  BY <1>1 DEF StreamInv, TypeOK, Generations
<1>4. PlaceInv' /\ OwnGenerationOnly'
  BY DEF PlaceInv, OwnGenerationOnly, Deserted, Served
<1>5. LeavingInv'
  <2> SUFFICES ASSUME NEW g \in Generations, pump[g] \in {"leaving", "ending", "done"},
                      ~Deserted(g), stream[g] # 0, owner' = stream[g]
               PROVE  FALSE
    BY DEF LeavingInv, Deserted, Served
  <2>1. stream[g] \in Processes /\ stream[g] <= launched
    BY DEF StreamInv, TypeOK
  <2> QED
    BY <1>1, <2>1 DEF TypeOK
<1> QED
  BY <1>2, <1>3, <1>4, <1>5

\* Viewers join the current generation with an empty slot, and the last one to
\* leave takes the current place away.
LEMMA ViewersSafe ==
  ASSUME PumpInv, NEW v \in Viewers, Viewing(v)
  PROVE  PumpInv'
<1> USE BrokerAssumption DEF PumpInv, Processes, Empty, EndOfStream, Capture, Free, Generations
<1>1. CASE SubscribeFirst(v)
  <2> USE <1>1 DEF SubscribeFirst, Joins, camera
  <2>1. TypeOK'
    BY DEF TypeOK
  <2>2. StreamInv'
    BY DEF StreamInv, TypeOK
  <2>3. PlaceInv'
    BY DEF PlaceInv, TypeOK, Deserted, Served
  <2>4. LeavingInv'
    BY DEF LeavingInv, PlaceInv, TypeOK, Deserted, Served
  <2>5. OwnGenerationOnly'
    BY DEF OwnGenerationOnly, PlaceInv, TypeOK
  <2> QED
    BY <2>1, <2>2, <2>3, <2>4, <2>5
<1>2. CASE Subscribe(v)
  <2> USE <1>2 DEF Subscribe, Joins, camera
  <2>1. TypeOK'
    BY DEF TypeOK
  <2>2. StreamInv'
    BY DEF StreamInv
  <2>3. PlaceInv'
    BY DEF PlaceInv, TypeOK, Deserted, Served
  <2>4. LeavingInv'
    BY DEF LeavingInv, TypeOK, Deserted, Served
  <2>5. OwnGenerationOnly'
    BY DEF OwnGenerationOnly, PlaceInv, TypeOK
  <2> QED
    BY <2>1, <2>2, <2>3, <2>4, <2>5
<1>3. CASE Get(v)
  BY <1>3 DEF Get, camera, TypeOK, StreamInv, PlaceInv, LeavingInv, OwnGenerationOnly, Deserted,
              Served
<1>4. CASE Unsubscribe(v)
  <2> USE <1>4 DEF Unsubscribe, camera
  <2>1. TypeOK'
    <3>1. current' \in {0, generation} /\ closed' \subseteq Generations
      <4>1. {current} \ {0} \subseteq Generations
        BY DEF TypeOK
      <4>2. CASE \A w \in Viewers : viewer'[w] = 0
        BY <4>1, <4>2 DEF TypeOK
      <4>3. CASE ~\A w \in Viewers : viewer'[w] = 0
        BY <4>3 DEF TypeOK
      <4> QED
        BY <4>2, <4>3
    <3>2. viewer' \in [Viewers -> 0..generation]
      BY DEF TypeOK
    <3>3. mailbox' \in [Viewers -> Processes \cup {Empty, EndOfStream}]
      BY DEF TypeOK
    <3> QED
      BY <3>1, <3>2, <3>3 DEF TypeOK
  <2>2. StreamInv'
    BY DEF StreamInv
  <2>3. \A g \in Generations : Deserted(g) => Deserted(g)'
    BY DEF Deserted, Served, TypeOK
  <2>4. PlaceInv'
    <3>1. CASE \A w \in Viewers : viewer'[w] = 0
      BY <3>1 DEF PlaceInv, TypeOK, Deserted, Served
    <3>2. CASE ~\A w \in Viewers : viewer'[w] = 0
      BY <2>3, <3>2 DEF PlaceInv, TypeOK
    <3> QED
      BY <3>1, <3>2
  <2>5. LeavingInv'
    BY <2>3 DEF LeavingInv
  <2>6. OwnGenerationOnly'
    BY DEF OwnGenerationOnly, TypeOK
  <2> QED
    BY <2>1, <2>2, <2>4, <2>5, <2>6
<1> QED
  BY <1>1, <1>2, <1>3, <1>4 DEF Viewing

\* A pump that leaves has lost its preview or its audience, and what it says reaches
\* its own viewers only.
LEMMA PumpSafe ==
  ASSUME PumpInv, NEW g \in Generations, PumpSteps(g)
  PROVE  PumpInv'
<1> USE BrokerAssumption
    DEF PumpInv, Processes, Empty, EndOfStream, Capture, Free, Generations, Goes, camera
<1>1. g <= generation /\ pump[g] # "none"
  BY DEF PumpSteps, Open, ReadFrame, ReadEnds, Check, Send, Relinquish, End, TypeOK
<1>2. /\ UNCHANGED <<viewer, owner, launched, generation>>
      /\ current' \in {0, current}
      /\ pump' = [pump EXCEPT ![g] = pump'[g]]
      /\ pump'[g] \in {"reading", "holding", "sending", "leaving", "ending", "done"}
  BY <1>1 DEF PumpSteps, Open, ReadFrame, ReadEnds, Check, Send, Relinquish, End, TypeOK
<1>3. \A h \in Generations : Deserted(h) => Deserted(h)'
  BY <1>2 DEF Deserted, Served
<1>4. CASE Open(g) \/ ReadFrame(g) \/ ReadEnds(g) \/ Check(g)
  <2> USE <1>4 DEF Open, ReadFrame, ReadEnds, Check
  <2>1. TypeOK'
    BY <1>1, <1>2 DEF TypeOK
  <2>2. StreamInv'
    BY <1>1, <1>2 DEF StreamInv, TypeOK
  <2>3. PlaceInv'
    BY <1>1, <1>2, <1>3 DEF PlaceInv, TypeOK
  <2>4. LeavingInv'
    <3> SUFFICES ASSUME pump'[g] = "leaving"
                 PROVE  stream'[g] = 0 \/ owner # stream'[g] \/ Deserted(g)'
      BY <1>1, <1>2, <1>3 DEF LeavingInv, TypeOK
    <3>1. CASE Open(g) \/ ReadEnds(g)
      BY <3>1 DEF StreamInv, TypeOK
    <3>2. CASE ReadFrame(g) \/ Check(g)
      BY <1>1, <1>3, <3>2 DEF PlaceInv, TypeOK
    <3> QED
      BY <3>1, <3>2
  <2>5. OwnGenerationOnly'
    BY <1>1, <1>2 DEF OwnGenerationOnly, StreamInv, TypeOK
  <2> QED
    BY <2>1, <2>2, <2>3, <2>4, <2>5
<1>5. CASE Send(g) \/ Relinquish(g) \/ End(g)
  <2> USE <1>5 DEF Send, Relinquish, End
  <2>1. TypeOK'
    BY <1>1, <1>2 DEF TypeOK, StreamInv, Broadcast
  <2>2. StreamInv'
    BY <1>1, <1>2 DEF StreamInv, TypeOK
  <2>3. PlaceInv'
    BY <1>1, <1>2, <1>3 DEF PlaceInv, TypeOK, Broadcast, Served
  <2>4. LeavingInv'
    BY <1>1, <1>2, <1>3 DEF LeavingInv, TypeOK
  <2>5. OwnGenerationOnly'
    <3>1. CASE Relinquish(g)
      BY <1>1, <1>2, <3>1 DEF OwnGenerationOnly, TypeOK
    <3>2. CASE Send(g) \/ End(g)
      BY <1>1, <1>2, <3>2 DEF OwnGenerationOnly, StreamInv, TypeOK, Broadcast, Served
    <3> QED
      BY <3>1, <3>2
  <2> QED
    BY <2>1, <2>2, <2>3, <2>4, <2>5
<1> QED
  BY <1>4, <1>5 DEF PumpSteps

LEMMA BrokerStays == PumpInv /\ [Next]_vars => PumpInv'
<1> SUFFICES ASSUME PumpInv, [Next]_vars PROVE PumpInv'
  OBVIOUS
<1>1. CASE UNCHANGED vars
  BY <1>1 DEF PumpInv, vars, TypeOK, StreamInv, PlaceInv, LeavingInv, OwnGenerationOnly, Deserted,
              Served
<1> QED
  BY <1>1, CameraSafe, ViewersSafe, PumpSafe DEF Next, PumpSteps

\* In every state of the broker, whatever viewers, pumps and previews do: a viewer's
\* slot holds what its own generation's pump has said, its end exactly when that
\* pump is done, and no end is announced of a preview that runs.
THEOREM BrokerHolds == Spec => []BrokerInv
<1>1. PumpInv => BrokerInv
  <2> SUFFICES ASSUME PumpInv PROVE NoFalseEnd
    BY DEF PumpInv, BrokerInv
  <2> SUFFICES ASSUME NEW v \in Viewers, viewer[v] # 0, mailbox[v] = EndOfStream
               PROVE  stream[viewer[v]] = 0 \/ owner # stream[viewer[v]]
    BY DEF NoFalseEnd
  <2>1. viewer[v] \in Generations /\ pump[viewer[v]] = "done" /\ v \in Served(viewer[v])
    BY BrokerAssumption DEF PumpInv, TypeOK, OwnGenerationOnly, Served, Generations
  <2> QED
    BY <2>1 DEF PumpInv, LeavingInv, Deserted
<1> QED
  BY <1>1, BrokerStarts, BrokerStays, PTL DEF Spec
=============================================================================
