-------------------------- MODULE CameraOwnership --------------------------
(***************************************************************************)
(* What the camera package promises: a single camera that at any instant   *)
(* one preview process or one still capture uses, never both.  A process   *)
(* is used once.                                                           *)
(*                                                                         *)
(* The module is used twice: CameraCoordinator is shown to implement it,   *)
(* and StreamBroker reads the preview's frames from it.                    *)
(***************************************************************************)
EXTENDS Naturals

CONSTANT MaxLaunches   \* bound: the preview processes launched

VARIABLES
  owner,       \* who uses the camera
  launched     \* how many preview processes there have been

Processes == 1..MaxLaunches

Free == 0
Capture == MaxLaunches + 1

CameraInit == owner = Free /\ launched = 0

PreviewTakes == /\ owner = Free
                /\ launched < MaxLaunches
                /\ launched' = launched + 1
                /\ owner' = launched'

PreviewReleases == owner \in Processes /\ owner' = Free /\ UNCHANGED launched

CaptureTakes == owner = Free /\ owner' = Capture /\ UNCHANGED launched

CaptureReleases == owner = Capture /\ owner' = Free /\ UNCHANGED launched

CameraNext == \/ PreviewTakes
              \/ PreviewReleases
              \/ CaptureTakes
              \/ CaptureReleases

CameraSpec == CameraInit /\ [][CameraNext]_<<owner, launched>>
=============================================================================
