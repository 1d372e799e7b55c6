----------------------------- MODULE ServerLink -----------------------------
(***************************************************************************)
(* The connection to the server: the goroutine of each ServerConnection    *)
(* (server_connection.go) and the session, which keeps the current one and *)
(* a candidate to follow it (session.go).                                  *)
(*                                                                         *)
(* Close runs in a goroutine of its own, so it may come late.  Peers and   *)
(* transfers are only there or not there (others).                         *)
(***************************************************************************)
EXTENDS Integers, FiniteSets

CONSTANTS
  MaxLinks,    \* bound on the ServerConnections that are made
  Reconnects   \* ServerReconnectTimeoutSec > 0

ASSUME ServerLinkAssumption == MaxLinks \in Nat \ {0} /\ Reconnects \in BOOLEAN

Link == 1..MaxLinks     \* in the order they are made
NoLink == 0             \* nil

VARIABLES
  made,                 \* how many ServerConnections were made
  phase,                \* of each: "new", "dialing", "reading" or "ended"
  Connected,            \* the ServerConnections with Connected set
  DisconnectRequested,  \* and with DisconnectRequested set
  heard,                \* those whose LastReceivedTime is set
  closing,              \* those whose Close is to run
  closed,               \* those whose socket we closed
  serverConnection,     \* s.serverConnection
  candidate,            \* the one to start next
  stopped, execute,     \* as in Tick
  others,               \* peers or transfers are left
  panicked              \* a nil pointer was used

vars == <<made, phase, Connected, DisconnectRequested, heard, closing, closed,
          serverConnection, candidate, stopped, execute, others, panicked>>

Idle == execute /\ ~panicked

Dialing(c) == [phase EXCEPT ![c] = "dialing"]

----------------------------------------------------------------------------
(* Commands.                                                                *)

\* Mutant: a connect does not wait for the one that is there.
NothingConnected == serverConnection \notin Connected

NothingThere == serverConnection = NoLink

\* Marks the current connection and closes it, unless it is marked or not
\* registered: then the mark is seen when it registers.
RequestDisconnect ==
  /\ closing' = closing \cup (({serverConnection} \cap Connected) \ DisconnectRequested)
  /\ DisconnectRequested' = DisconnectRequested \cup {serverConnection}

\* connect: a first connection starts at once, another one replaces it later.
ConnectCommand ==
  /\ Idle /\ ~stopped
  /\ made < MaxLinks
  /\ made' = made + 1
  /\ IF NothingThere
     THEN /\ serverConnection' = made'
          /\ phase' = Dialing(made')
          /\ UNCHANGED <<candidate, closing, DisconnectRequested>>
     ELSE /\ candidate' = made'
          /\ IF serverConnection \in Connected
             THEN RequestDisconnect ELSE UNCHANGED <<closing, DisconnectRequested>>
          /\ UNCHANGED <<serverConnection, phase>>
  /\ UNCHANGED <<Connected, closed, stopped, execute, others, panicked, heard>>

\* Mutant: there may be no connection.
DisconnectUnguarded ==
  /\ Idle /\ ~stopped
  /\ RequestDisconnect
  /\ UNCHANGED <<made, phase, Connected, closed, serverConnection, candidate, stopped,
                 execute, others, panicked, heard>>

DisconnectCommand ==
  /\ Idle /\ ~stopped
  /\ serverConnection # NoLink
  /\ RequestDisconnect
  /\ UNCHANGED <<made, phase, Connected, closed, serverConnection, candidate, stopped,
                 execute, others, panicked, heard>>

StopCommand ==
  /\ Idle /\ ~stopped
  /\ stopped' = TRUE
  /\ execute' = others
  /\ closing' = closing \cup (IF others THEN {serverConnection} \ {NoLink} ELSE {})
  /\ UNCHANGED <<made, phase, Connected, DisconnectRequested, closed, serverConnection,
                 candidate, others, panicked, heard>>

\* The last peer and the last transfer of a stopped session are gone.
OthersGone ==
  /\ Idle /\ stopped /\ others
  /\ others' = FALSE
  /\ execute' = FALSE
  /\ UNCHANGED <<made, phase, Connected, DisconnectRequested, closing, closed,
                 serverConnection, candidate, stopped, panicked, heard>>

\* The tick: no packet came for ServerReconnectTimeoutSec.
TickReconnect ==
  /\ Idle
  /\ Reconnects
  /\ serverConnection \in heard
  /\ made < MaxLinks
  /\ made' = made + 1
  /\ candidate' = made'
  /\ DisconnectRequested' = DisconnectRequested \cup {serverConnection}
  /\ closing' = closing \cup {serverConnection}
  /\ UNCHANGED <<phase, Connected, closed, serverConnection, stopped, execute, others,
                 panicked, heard>>

\* SendPacket writes to the socket, which a dialing connection does not have.
WriteToServer ==
  /\ panicked' = (phase[serverConnection] = "dialing")
  /\ UNCHANGED <<made, phase, Connected, DisconnectRequested, heard, closing, closed,
                 serverConnection, candidate, stopped, execute, others>>

\* search and serverlist.
SendCommand ==
  /\ Idle /\ serverConnection \in Connected
  /\ WriteToServer

\* The tick: the server was not heard of for a while.
TickPing ==
  /\ Idle /\ serverConnection \in heard
  /\ WriteToServer

----------------------------------------------------------------------------
(* The goroutines.                                                          *)

\* ServerConnection.Close.
RunClose(c) ==
  /\ ~panicked
  /\ c \in closing
  /\ closing' = closing \ {c}
  /\ closed' = IF c \in Connected THEN closed \cup {c} ELSE closed
  /\ UNCHANGED <<made, phase, Connected, DisconnectRequested, serverConnection, candidate,
                 stopped, execute, others, panicked, heard>>

\* Mutant: the mark is not looked at.
UnwantedIfFollowed(c) == candidate # NoLink

\* Mutant: the candidate is not looked at.
UnwantedIfMarked(c) == c \in DisconnectRequested

Unwanted(c) == candidate # NoLink \/ c \in DisconnectRequested

\* The dial succeeded.  An unwanted connection is closed, by the session's
\* pointer to the current one.
Register(c) ==
  /\ Idle
  /\ phase[c] = "dialing"
  /\ phase' = [phase EXCEPT ![c] = "reading"]
  /\ Connected' = Connected \cup {c}
  /\ heard' = heard \cup {c}
  /\ IF Unwanted(c)
     THEN /\ closed' = closed \cup ({serverConnection} \ {NoLink})
          /\ panicked' = (serverConnection = NoLink \/ phase'[serverConnection] # "reading")
     ELSE UNCHANGED <<closed, panicked>>
  /\ UNCHANGED <<made, DisconnectRequested, closing, serverConnection, candidate, stopped,
                 execute, others>>

\* The session notes the time in the connection it has, and logs it.
NoteServerPacket ==
  /\ panicked' = (serverConnection = NoLink)
  /\ heard' = heard \cup ({serverConnection} \ {NoLink})

\* A packet of the server, which may have been read before the socket was closed.
ReceivePacket(c) ==
  /\ Idle
  /\ phase[c] = "reading"
  /\ NoteServerPacket
  /\ UNCHANGED <<made, phase, Connected, DisconnectRequested, closing, closed,
                 serverConnection, candidate, stopped, execute, others>>

\* Mutant: the candidate is left where it is when it starts.
KeepsCandidate == serverConnection' = candidate /\ UNCHANGED candidate

TakesCandidate == serverConnection' = candidate /\ candidate' = NoLink

\* The dial failed, or the socket did; the candidate follows.
Unregister(c) ==
  /\ Idle
  /\ phase[c] \in {"dialing", "reading"}
  /\ IF stopped /\ ~others
     THEN /\ execute' = FALSE
          /\ phase' = [phase EXCEPT ![c] = "ended"]
          /\ serverConnection' = NoLink
          /\ UNCHANGED candidate
     ELSE /\ phase' = [x \in Link |-> IF x = c THEN "ended"
                                      ELSE IF x = candidate THEN "dialing" ELSE phase[x]]
          /\ TakesCandidate
          /\ UNCHANGED execute
  /\ UNCHANGED <<made, Connected, DisconnectRequested, closing, closed, stopped, others,
                 panicked, heard>>

\* The session has returned.
SessionClosed == ~execute /\ UNCHANGED vars

----------------------------------------------------------------------------
Init ==
  /\ made = 0
  /\ phase = [c \in Link |-> "new"]
  /\ Connected = {} /\ DisconnectRequested = {} /\ closing = {} /\ closed = {}
  /\ heard = {}
  /\ serverConnection = NoLink /\ candidate = NoLink
  /\ stopped = FALSE /\ execute = TRUE
  /\ others \in BOOLEAN
  /\ panicked = FALSE

Next ==
  \/ ConnectCommand \/ DisconnectCommand \/ StopCommand \/ OthersGone \/ TickReconnect
  \/ SendCommand \/ TickPing \/ SessionClosed
  \/ \E c \in Link : RunClose(c) \/ Register(c) \/ ReceivePacket(c) \/ Unregister(c)

\* A Close runs, a dial is answered or times out, and the read of a closed
\* socket fails.  The server may keep any other connection for ever.
Fairness ==
  \A c \in Link :
    /\ WF_vars(RunClose(c))
    /\ WF_vars(phase[c] = "dialing" /\ (Register(c) \/ Unregister(c)))
    /\ WF_vars(c \in closed /\ Unregister(c))

Spec == Init /\ [][Next]_vars /\ Fairness

----------------------------------------------------------------------------
\* Every variable has its type.
TypeOK ==
  /\ made \in 0..MaxLinks
  /\ phase \in [Link -> {"new", "dialing", "reading", "ended"}]
  /\ heard \subseteq 1..made
  /\ Connected \subseteq 1..made /\ closed \subseteq Connected
  /\ closing \subseteq 1..made /\ DisconnectRequested \subseteq 1..made
  /\ {serverConnection, candidate} \subseteq 0..made
  /\ stopped \in BOOLEAN /\ execute \in BOOLEAN /\ others \in BOOLEAN /\ panicked \in BOOLEAN

\* One goroutine at a time talks to a server, it is the session's connection,
\* and the session's connection is never one that ended (session.go:99-112,
\* 161-173).
OneAtATime ==
  \A c \in Link : phase[c] \in {"dialing", "reading"} <=> c = serverConnection

\* No message of a goroutine finds the session without a connection, none that
\* registers has another one closed in its place, and nothing is sent on a
\* connection that has no socket yet (session.go:120-124, 292-296, 346-358;
\* server_connection.go:183).
ConnectionIsThere == ~panicked

\* A connection that was told to disconnect ends, though it was told while it
\* was dialing or has an earlier Close under way, and though the server never
\* closes it (session.go:120-124, 168-171, 175-181, 365-367).
DisconnectEnds ==
  \A c \in Link : c \in DisconnectRequested ~> (phase[c] = "ended" \/ ~execute)

\* A candidate does not wait for ever: it is started, replaced by a later one,
\* or the session ends (session.go:108-112, 120-124).
CandidateStarts ==
  \A c \in Link : candidate = c ~> (candidate # c \/ ~execute)
=============================================================================
