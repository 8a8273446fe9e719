---------------------------- MODULE StreamBroker ----------------------------
(***************************************************************************)
(* The stream broker (mgo.camera.streaming): it fans the running preview's *)
(* frames out to viewers, which are browsers and the motion monitor.  The  *)
(* first viewer starts a pump thread, the last one stops it without        *)
(* waiting for it, and a pump whose stream ends takes leave of its own     *)
(* viewers.  A pump, its source and the viewers that joined it are one     *)
(* generation.                                                             *)
(*                                                                         *)
(* The camera below is the one CameraCoordinator implements.  A broadcast  *)
(* fills the mailboxes outside the lock, yet each mailbox has one producer *)
(* and a viewer that returns comes with a new one, so it is one step.      *)
(***************************************************************************)
EXTENDS CameraOwnership

CONSTANTS
  Viewers,         \* the consumers, each subscribed once at a time
  MaxGenerations   \* bound: the pumps started

ASSUME BrokerAssumption == MaxLaunches \in Nat /\ MaxGenerations \in Nat

VARIABLES
  current,       \* the generation of _source and _pump, or 0 for None
  generation,    \* _generation
  pump,          \* how far each generation's pump has come
  stream,        \* the process each pump reads from, or 0
  closed,        \* the sources that have been closed
  viewer,        \* the generation each viewer has joined, or 0
  mailbox        \* each viewer's slot: a process's frame, EndOfStream or Empty

camera == <<owner, launched>>
vars == <<owner, launched, current, generation, pump, stream, closed, viewer,
          mailbox>>

Generations == 1..MaxGenerations
Empty == 0
EndOfStream == Capture

TypeOK ==
  /\ owner \in Processes \cup {Free, Capture}
  /\ launched \in 0..MaxLaunches
  /\ generation \in 0..MaxGenerations
  /\ current \in {0, generation}
  /\ pump \in [Generations -> {"none", "opening", "reading", "holding",
                               "sending", "leaving", "ending", "done"}]
  /\ \A g \in Generations : pump[g] = "none" <=> g > generation
  /\ stream \in [Generations -> Processes \cup {0}]
  /\ closed \subseteq Generations
  /\ viewer \in [Viewers -> 0..generation]
  /\ mailbox \in [Viewers -> Processes \cup {Empty, EndOfStream}]

Init == /\ CameraInit
        /\ current = 0
        /\ generation = 0
        /\ pump = [g \in Generations |-> "none"]
        /\ stream = [g \in Generations |-> 0]
        /\ closed = {}
        /\ viewer = [v \in Viewers |-> 0]
        /\ mailbox = [v \in Viewers |-> Empty]
-----------------------------------------------------------------------------
(* viewers *)

Joins(v, g) == /\ viewer[v] = 0
               /\ viewer' = [viewer EXCEPT ![v] = g]
               /\ UNCHANGED <<camera, stream, closed, mailbox>>

\* The first viewer, or the first after a pump has left, starts a generation.
SubscribeFirst(v) ==
  /\ current = 0
  /\ generation < MaxGenerations
  /\ generation' = generation + 1
  /\ current' = generation'
  /\ pump' = [pump EXCEPT ![generation'] = "opening"]
  /\ Joins(v, generation')

Subscribe(v) == /\ current # 0
                /\ Joins(v, generation)
                /\ UNCHANGED <<current, generation, pump>>

\* The viewer takes a frame from its slot.
Get(v) == /\ mailbox[v] \in Processes
          /\ mailbox' = [mailbox EXCEPT ![v] = Empty]
          /\ UNCHANGED <<camera, current, generation, pump, stream, closed, viewer>>

\* unsubscribe: on the end of the stream, an idle timeout or a disconnection.
\* The last viewer stops the pump that is current.
Unsubscribe(v) ==
  /\ viewer[v] # 0
  /\ viewer' = [viewer EXCEPT ![v] = 0]
  /\ mailbox' = [mailbox EXCEPT ![v] = Empty]
  /\ IF \A w \in Viewers : viewer'[w] = 0
     THEN closed' = closed \cup ({current} \ {0}) /\ current' = 0
     ELSE UNCHANGED <<closed, current>>
  /\ UNCHANGED <<camera, generation, pump, stream>>

\* _mjpeg_stream: a viewer subscribes, takes frames, and unsubscribes however its
\* stream ends.
Viewing(v) == SubscribeFirst(v) \/ Subscribe(v) \/ Get(v) \/ Unsubscribe(v)
-----------------------------------------------------------------------------
(* the pump thread *)

Goes(g, place) == pump' = [pump EXCEPT ![g] = place]

\* frame_stream: the stream of the preview that runs, or None.
Open(g) == /\ pump[g] = "opening"
           /\ \/ /\ owner \in Processes
                 /\ stream' = [stream EXCEPT ![g] = owner]
                 /\ Goes(g, "reading")
              \/ Goes(g, "leaving") /\ UNCHANGED stream
           /\ UNCHANGED <<camera, current, generation, closed, viewer, mailbox>>

\* A frame has come through the pipe, perhaps one the process left behind.
ReadFrame(g) == /\ pump[g] = "reading"
                /\ Goes(g, IF g \in closed THEN "leaving" ELSE "holding")
                /\ UNCHANGED <<camera, current, generation, stream, closed, viewer,
                               mailbox>>

\* End of file, or an error from a stream that was closed under the reader.
ReadEnds(g) == /\ pump[g] = "reading"
               /\ owner # stream[g]
               /\ Goes(g, "leaving")
               /\ UNCHANGED <<camera, current, generation, stream, closed, viewer,
                              mailbox>>

\* "if source is not self._source", without the lock.
Check(g) == /\ pump[g] = "holding"
            /\ Goes(g, IF current = g THEN "sending" ELSE "leaving")
            /\ UNCHANGED <<camera, current, generation, stream, closed, viewer,
                           mailbox>>

Served(g) == {v \in Viewers : viewer[v] = g}

Broadcast(g, item) ==
  mailbox' = [v \in Viewers |-> IF v \in Served(g) THEN item ELSE mailbox[v]]

Send(g) == /\ pump[g] = "sending"
           /\ Broadcast(g, stream[g])
           /\ Goes(g, "reading")
           /\ UNCHANGED <<camera, current, generation, stream, closed, viewer>>

\* Fault: the pump keeps its place until the last viewer has left.
KeepsPlace(g) == /\ pump[g] = "leaving"
                 /\ Goes(g, "ending")
                 /\ UNCHANGED <<camera, current, generation, stream, closed, viewer,
                                mailbox>>

\* Fault: the place is given up even if it is another pump's.
RelinquishAnyones(g) == /\ pump[g] = "leaving"
                        /\ current' = 0
                        /\ Goes(g, "ending")
                        /\ UNCHANGED <<camera, generation, stream, closed, viewer,
                                       mailbox>>

Relinquish(g) == /\ pump[g] = "leaving"
                 /\ current' = IF current = g THEN 0 ELSE current
                 /\ Goes(g, "ending")
                 /\ UNCHANGED <<camera, generation, stream, closed, viewer, mailbox>>

End(g) == /\ pump[g] = "ending"
          /\ closed' = closed \cup {g}
          /\ Broadcast(g, EndOfStream)
          /\ Goes(g, "done")
          /\ UNCHANGED <<camera, current, generation, stream, viewer>>
-----------------------------------------------------------------------------
CameraSteps == CameraNext /\ UNCHANGED <<current, generation, pump, stream, closed,
                                         viewer, mailbox>>

Next == \/ CameraSteps
        \/ \E v \in Viewers : Viewing(v)
        \/ \E g \in Generations : \/ Open(g)
                                  \/ ReadFrame(g)
                                  \/ ReadEnds(g)
                                  \/ Check(g)
                                  \/ Send(g)
                                  \/ Relinquish(g)
                                  \/ End(g)

Spec == Init /\ [][Next]_vars

\* A pump thread runs whenever it is not waiting for a frame, and reads the end
\* of a stream behind the finitely many frames the pipe still holds.  Neither a
\* frame nor a viewer's departure is owed.
Fairness ==
  \A g \in Generations :
    /\ WF_vars(Open(g) \/ Check(g) \/ Send(g) \/ Relinquish(g) \/ End(g))
    /\ SF_vars(ReadEnds(g))

FairSpec == Spec /\ Fairness
-----------------------------------------------------------------------------
\* "An old pump finishing after a replacement pump has already started can
\* neither feed nor signal end-of-stream" to the replacement's viewers: what is
\* in a slot is the viewer's own generation's, and the end is there exactly if
\* that generation has ended.
OwnGenerationOnly ==
  \A v \in Viewers : viewer[v] # 0 =>
    /\ mailbox[v] \in Processes => stream[viewer[v]] = mailbox[v]
    /\ mailbox[v] = EndOfStream <=> pump[viewer[v]] = "done"

\* The end of a stream is never announced while the preview it came from runs:
\* a pump is replaced only when nobody is left to see it.
NoFalseEnd ==
  \A v \in Viewers :
    (viewer[v] # 0 /\ mailbox[v] = EndOfStream)
      => stream[viewer[v]] = 0 \/ owner # stream[viewer[v]]

\* A viewer whose preview is gone is told so, or has left: none waits for ever
\* in a generation that will send nothing.
Orphaned(v) == /\ viewer[v] # 0
               /\ pump[viewer[v]] # "opening"
               /\ owner # stream[viewer[v]]

ViewersAreReleased ==
  \A v \in Viewers : Orphaned(v) ~> (mailbox[v] = EndOfStream \/ viewer[v] = 0)

\* What holds of the broker in every state: no pump of a stream that is over has
\* anything to say to the viewers of the one that followed it.
BrokerInv == TypeOK /\ OwnGenerationOnly /\ NoFalseEnd
=============================================================================
