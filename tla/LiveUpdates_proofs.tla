-------------------------- MODULE LiveUpdates_proofs --------------------------
(***************************************************************************)
(* Safety of the live updates, for every number of faults.  The liveness    *)
(* properties of LiveUpdates are checked by TLC only.                      *)
(***************************************************************************)
EXTENDS LiveUpdates, TLAPS

(* What ties the flags of the screen to its socket under API Gateway: a      *)
(* socket that has yet to open or never opened leaves wsMode unset, the     *)
(* interval waits for the end of the socket, and an open one has set wsMode. *)
SocketInv ==
  aws =>
    /\ timer = "done"
    /\ socket \in {"connecting", "failed"} => ~wsMode
    /\ socket \in {"connecting", "open"} => ~polling
    /\ socket = "open" => wsMode

LinkInv == LinksTyped /\ SocketInv /\ AwsOneSource

LEMMA LinkInit == LiveInit => LinkInv
<1>1. 0 \in Connections
  BY LiveUpdatesAssumption DEF Connections
<1>2. LiveInit => LinksTyped
  BY <1>1 DEF LiveInit, LinksTyped
<1>3. LiveInit => SocketInv /\ AwsOneSource
  BY DEF LiveInit, SocketInv, AwsOneSource
<1> QED
  BY <1>2, <1>3 DEF LinkInv

(* The number of a new connection.                                         *)
LEMMA NextConnection == faults \in Connections /\ faults < MaxFaults => faults + 1 \in Connections
  BY LiveUpdatesAssumption DEF Connections

(* Each step of the screen, the socket or the server keeps the invariant.   *)
LEMMA LinkNext == LinkInv /\ [LiveNext]_liveVars => LinkInv'
<1> SUFFICES ASSUME LinkInv, [LiveNext]_liveVars PROVE LinkInv'
  OBVIOUS
<1> USE DEF LinkInv, LinksTyped, SocketInv, AwsOneSource, screenVars, linkVars
<1>1. CASE LoadInitialSnapshot
  BY <1>1 DEF LoadInitialSnapshot
<1>2. CASE Connect
  BY <1>2 DEF Connect
<1>3. CASE ConnectError
  BY <1>3 DEF ConnectError, StartPolling, CanPoll
<1>4. CASE Closed
  BY <1>4 DEF Closed, StartPolling, CanPoll
<1>5. CASE SocketLost
  BY <1>5, NextConnection DEF SocketLost, StartPolling, CanPoll
<1>6. CASE FallbackTimer
  BY <1>6 DEF FallbackTimer, StartPolling, CanPoll
<1>7. CASE Unmount
  BY <1>7 DEF Unmount
<1>8. CASE Mount
  BY <1>8, NextConnection DEF Mount
<1>9. CASE DisconnectHandler
  BY <1>9 DEF DisconnectHandler
<1>10. CASE Broadcast
  BY <1>10 DEF Broadcast, BroadcastTick
<1>11. CASE UNCHANGED liveVars
  BY <1>11 DEF liveVars
<1> QED
  BY <1>1, <1>2, <1>3, <1>4, <1>5, <1>6, <1>7, <1>8, <1>9, <1>10, <1>11 DEF LiveNext

(* The types of the screen, its socket and the table of connections.        *)
THEOREM LiveTypeCorrect == LiveSpec => []LinksTyped
<1>1. LinkInv => LinksTyped
  BY DEF LinkInv
<1> QED
  BY <1>1, LinkInit, LinkNext, PTL DEF LiveSpec

(* With API Gateway a screen that had a socket open never polls: the two     *)
(* engines, that of the broadcast and that of the REST service, never feed  *)
(* one screen (startPolling returns when wsMode is set).                    *)
THEOREM AwsAlwaysOneSource == LiveSpec => []AwsOneSource
<1>1. LinkInv => AwsOneSource
  BY DEF LinkInv
<1> QED
  BY <1>1, LinkInit, LinkNext, PTL DEF LiveSpec

(* A screen starts to claim updates that do not come only when the snapshot  *)
(* of its mount arrives or a broadcast deletes its open connection.         *)
THEOREM MisledOnlyBySnapshotOrLostPost == LiveSpec => OnlySnapshotOrLostPostMisleads
<1> DEFINE Honest == mounted /\ connected => Live
           Excused == \/ snapshot = "asked" /\ snapshot' = "done"
                      \/ aws /\ socket' = "open" /\ conn \in table \ table'
<1>1. ASSUME LinksTyped, [LiveNext]_liveVars, Honest PROVE Honest' \/ Excused
  <2> USE <1>1 DEF LinksTyped, Live, screenVars, linkVars
  <2>1. CASE LoadInitialSnapshot
    BY <2>1 DEF LoadInitialSnapshot
  <2>2. CASE Connect
    BY <2>2 DEF Connect
  <2>3. CASE ConnectError
    BY <2>3 DEF ConnectError, StartPolling
  <2>4. CASE Closed
    BY <2>4 DEF Closed, StartPolling
  <2>5. CASE SocketLost
    BY <2>5 DEF SocketLost, StartPolling
  <2>6. CASE FallbackTimer
    BY <2>6 DEF FallbackTimer, StartPolling
  <2>7. CASE Unmount
    BY <2>7 DEF Unmount
  <2>8. CASE Mount
    BY <2>8 DEF Mount
  <2>9. CASE DisconnectHandler
    BY <2>9 DEF DisconnectHandler, Open
  <2>10. CASE Broadcast
    BY <2>10 DEF Broadcast, BroadcastTick
  <2>11. CASE UNCHANGED liveVars
    BY <2>11 DEF liveVars
  <2> QED
    BY <2>1, <2>2, <2>3, <2>4, <2>5, <2>6, <2>7, <2>8, <2>9, <2>10, <2>11 DEF LiveNext
<1>2. LinksTyped /\ [LiveNext]_liveVars => [Honest /\ ~Honest' => Excused]_liveVars
  BY <1>1
<1> QED
  BY <1>2, LiveTypeCorrect, PTL DEF LiveSpec, OnlySnapshotOrLostPostMisleads
=============================================================================
