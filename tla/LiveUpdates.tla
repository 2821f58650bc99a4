----------------------------- MODULE LiveUpdates -----------------------------
(***************************************************************************)
(* How one logistics screen stays live: the hook useLogisticsTelemetry, the *)
(* Socket.IO server (logistics_ws_server.py) or the API Gateway handlers    *)
(* with their connection table (ws_lambda_handlers.py), and the fallback to *)
(* polling the REST service.                                              *)
(***************************************************************************)
EXTENDS Naturals, FiniteSets

CONSTANTS
  MaxFaults    \* bound on lost sockets and screens opened

ASSUME LiveUpdatesAssumption == MaxFaults \in Nat

VARIABLES
  aws,        \* VITE_WS_URL is a wss:// address: API Gateway, else Socket.IO
  mounted,    \* the screen is shown (not destroyed)
  wsMode,     \* wsMode.current: a socket of this screen was open once
  polling,    \* pollingStarted: the 2.5 s interval runs until unmount
  connected,  \* the flag that the screen shows
  snapshot,   \* the REST snapshot asked at mount: "asked" or "done"
  timer,      \* the 3 s fallback timer of Socket.IO mode
  socket,     \* "connecting", "open", "failed" or "dead" (no further attempt)
  conn,       \* number of the current connection
  table,      \* connections the server side knows
  faults      \* sockets lost and screens opened so far

screenVars == <<mounted, wsMode, polling, connected, snapshot, timer>>
linkVars == <<socket, conn, table>>
liveVars == <<aws, screenVars, linkVars, faults>>

Connections == 0 .. MaxFaults

(* No screen is shown yet. *)
LiveInit ==
  /\ aws \in BOOLEAN
  /\ mounted = FALSE /\ wsMode = FALSE /\ polling = FALSE /\ connected = FALSE
  /\ snapshot = "done" /\ timer = "done"
  /\ socket = "dead" /\ conn = 0
  /\ table = {}
  /\ faults = 0

CanPoll == ~wsMode /\ ~polling

(* mutant: wsMode is not looked at *)
StartPollingAlways(flag) == polling' = TRUE /\ connected' = TRUE

(* mutant: the fallback never starts *)
StartPollingNever(flag) == connected' = flag /\ UNCHANGED polling

(* mutant: the flag is left alone *)
StartPollingQuiet(flag) ==
  IF CanPoll THEN polling' = TRUE /\ connected' = TRUE ELSE UNCHANGED <<polling, connected>>

(* startPolling, called with the flag set to what the caller made it.      *)
StartPolling(flag) ==
  IF CanPoll THEN polling' = TRUE /\ connected' = TRUE
             ELSE connected' = flag /\ UNCHANGED polling

(* The four REST answers of the first load; a failure is only logged.      *)
LoadInitialSnapshot ==
  /\ mounted /\ snapshot = "asked"
  /\ snapshot' = "done"
  /\ connected' \in {connected, TRUE}
  /\ UNCHANGED <<aws, mounted, wsMode, polling, timer, linkVars, faults>>

(* The server side learns of the connection before the client sees it open. *)
Connect ==
  /\ mounted /\ socket = "connecting"
  /\ table' = table \cup {conn}
  /\ socket' = "open"
  /\ wsMode' = TRUE /\ connected' = TRUE
  /\ UNCHANGED <<aws, mounted, polling, snapshot, timer, conn, faults>>

(* Nothing listens, or the connection item cannot be stored: connect_error  *)
(* disconnects for good; onerror closes the socket, which is told later.    *)
ConnectError ==
  /\ mounted /\ socket = "connecting"
  /\ socket' = IF aws THEN "failed" ELSE "dead"
  /\ StartPolling(connected)
  /\ UNCHANGED <<aws, mounted, wsMode, snapshot, timer, conn, table, faults>>

(* onclose after onerror: the flag is taken back while the interval runs.   *)
Closed ==
  /\ mounted /\ socket = "failed"
  /\ socket' = "dead"
  /\ StartPolling(FALSE)
  /\ UNCHANGED <<aws, mounted, wsMode, snapshot, timer, conn, table, faults>>

(* An open socket is lost.  Socket.IO connects again under a new id; the    *)
(* native socket calls startPolling, which returns because wsMode is set.   *)
SocketLost ==
  /\ mounted /\ socket = "open" /\ faults < MaxFaults
  /\ faults' = faults + 1
  /\ IF aws THEN socket' = "dead" /\ UNCHANGED conn
            ELSE socket' = "connecting" /\ conn' = faults + 1
  /\ IF aws THEN StartPolling(FALSE) ELSE connected' = FALSE /\ UNCHANGED polling
  /\ UNCHANGED <<aws, mounted, wsMode, snapshot, timer, table>>

FallbackTimer ==
  /\ mounted /\ timer = "armed"
  /\ timer' = "done"
  /\ StartPolling(connected)
  /\ UNCHANGED <<aws, mounted, wsMode, snapshot, linkVars, faults>>

Unmount ==
  /\ mounted /\ faults < MaxFaults
  /\ mounted' = FALSE /\ polling' = FALSE /\ timer' = "done" /\ snapshot' = "done"
  /\ socket' = "dead"
  /\ UNCHANGED <<aws, wsMode, connected, conn, table, faults>>

(* The screen is opened: new refs, a new socket.                          *)
Mount ==
  /\ ~mounted /\ faults < MaxFaults
  /\ mounted' = TRUE /\ wsMode' = FALSE /\ polling' = FALSE /\ connected' = FALSE
  /\ snapshot' = "asked" /\ timer' = IF aws THEN "done" ELSE "armed"
  /\ socket' = "connecting" /\ conn' = faults + 1
  /\ faults' = faults + 1
  /\ UNCHANGED <<aws, table>>

Open(c) == socket = "open" /\ c = conn

(* disconnect (Socket.IO notices a lost peer) or the $disconnect route,     *)
(* which API Gateway need not deliver and whose DeleteItem may fail.       *)
DisconnectHandler ==
  \E c \in table :
    /\ ~Open(c)
    /\ table' = table \ {c}
    /\ UNCHANGED <<aws, screenVars, socket, conn, faults>>

(* mutant: connections that are gone are not removed *)
StaleNever(c) == FALSE

Stale(c) == ~Open(c)

(* One scheduled broadcast: a tick, a scan, a post to each connection.  A     *)
(* post fails to every stale connection and may fail to an open one; those   *)
(* whose post failed are deleted, one by one, failures ignored.            *)
BroadcastTick(failed, kept) ==
  /\ aws
  /\ \A c \in table : Stale(c) => c \in failed
  /\ table' = table \ (failed \ kept)
  /\ UNCHANGED <<aws, screenVars, socket, conn, faults>>

Broadcast ==
  \E failed \in SUBSET table : \E kept \in SUBSET failed : BroadcastTick(failed, kept)
CleanBroadcast == BroadcastTick({c \in table : Stale(c)}, {})

LiveNext ==
  \/ LoadInitialSnapshot \/ Connect \/ ConnectError \/ Closed \/ SocketLost \/ FallbackTimer
  \/ Unmount \/ Mount \/ DisconnectHandler \/ Broadcast

(* Timers fire, a connection attempt ends either way, Socket.IO notices a    *)
(* lost peer by its heartbeat, and the schedule repeats the broadcast until  *)
(* one meets no passing failure.  Nothing else is promised: sockets,      *)
(* screens and the $disconnect route owe nothing.                          *)
LiveFairness ==
  /\ WF_liveVars(FallbackTimer)
  /\ WF_liveVars(Connect \/ ConnectError \/ Closed)
  /\ WF_liveVars(~aws /\ DisconnectHandler)
  /\ WF_liveVars(CleanBroadcast)

LiveSpec == LiveInit /\ [][LiveNext]_liveVars /\ LiveFairness

-----------------------------------------------------------------------------
(* Types; connections are numbered by the faults that made them necessary.  *)
LinksTyped ==
  /\ {aws, mounted, wsMode, polling, connected} \subseteq BOOLEAN
  /\ snapshot \in {"asked", "done"} /\ timer \in {"armed", "done"}
  /\ socket \in {"connecting", "open", "failed", "dead"}
  /\ conn \in Connections /\ table \subseteq Connections
  /\ faults \in Connections

(* With API Gateway a screen never mixes two sources: the interval, which    *)
(* asks the engine of the REST service, runs only if no socket ever opened. *)
AwsOneSource == aws => ~(polling /\ wsMode)

(* Updates keep coming: by polling, or over a socket that the server knows. *)
Live == polling \/ (socket = "open" /\ conn \in table)

(* The screen starts to say "connected" without updates coming in two ways   *)
(* only: the REST snapshot of the mount arrives (useLogisticsTelemetry.ts:75 *)
(* sets the flag whatever the socket does), or a broadcast could not post to *)
(* an open connection and deleted it.                                      *)
OnlySnapshotOrLostPostMisleads ==
  [][(mounted /\ connected => Live) /\ ~(mounted /\ connected => Live)' =>
       \/ snapshot = "asked" /\ snapshot' = "done"
       \/ aws /\ socket' = "open" /\ conn \in table \ table']_liveVars

(* A screen that had no socket open yet ends up with updates coming in,      *)
(* whichever way the attempt to connect and the timer end.                  *)
UpdatesBegin == mounted /\ ~wsMode ~> Live \/ ~mounted

(* What docs/troubleshooting.md:50 promises of a screen whose updates stop:  *)
(* it falls back to polling.  Line 89 returns when a socket was open once.  *)
FallsBackToPolling == mounted /\ ~Live ~> Live \/ ~mounted

(* No closed connection stays in the table for good, even if the $disconnect *)
(* route was never called.                                                *)
StaleRemoved == \A c \in Connections : c \in table /\ ~Open(c) ~> c \notin table
=============================================================================
