-------------------------- MODULE ServerLinkProofs --------------------------
(***************************************************************************)
(* Proofs about the server connection, for any number of connections made, *)
(* replaced, disconnected and lost in any order.                           *)
(*                                                                         *)
(* That one connection at a time is alive is not inductive: the candidate  *)
(* that starts must be one that never ran, and a connection that may be    *)
(* written to must be one whose dial has returned.                         *)
(***************************************************************************)
EXTENDS ServerLink, TLAPS

\* A connection that was not made has not run.
UnmadeAreNew == \A c \in Link : c > made => phase[c] = "new"

\* The candidate has not run.
CandidateIsNew == candidate # NoLink => phase[candidate] = "new"

\* Only a connection that reads, or did, was Connected or heard of.
HeardHaveRead == \A c \in Connected \cup heard : phase[c] \in {"reading", "ended"}

IndInv == /\ TypeOK /\ OneAtATime /\ ConnectionIsThere
          /\ UnmadeAreNew /\ CandidateIsNew /\ HeardHaveRead

LEMMA InitHolds == Init => IndInv
<1> SUFFICES ASSUME Init PROVE IndInv
  OBVIOUS
<1>1. TypeOK
  <2>1. stopped \in BOOLEAN /\ execute \in BOOLEAN /\ others \in BOOLEAN /\ panicked \in BOOLEAN
    BY Zenon DEF Init
  <2>2. /\ made \in 0..MaxLinks /\ {serverConnection, candidate} \subseteq 0..made
        /\ phase \in [Link -> {"new", "dialing", "reading", "ended"}]
    BY ServerLinkAssumption DEF Init, NoLink
  <2> QED
    BY <2>1, <2>2 DEF Init, TypeOK
<1>2. OneAtATime
  BY ServerLinkAssumption DEF Init, OneAtATime, Link, NoLink
<1>3. UnmadeAreNew /\ CandidateIsNew /\ HeardHaveRead /\ ConnectionIsThere
  BY DEF Init, UnmadeAreNew, CandidateIsNew, HeardHaveRead, ConnectionIsThere
<1> QED
  BY <1>1, <1>2, <1>3 DEF IndInv

\* The connections that were made are links, and NoLink is none of them.
LEMMA MadeAreLinks ==
  ASSUME TypeOK
  PROVE  /\ made \in Nat /\ MaxLinks \in Nat /\ made <= MaxLinks
         /\ 1..made \subseteq Link /\ NoLink \notin Link /\ NoLink \notin 1..made
         /\ serverConnection = NoLink \/ serverConnection \in 1..made
         /\ candidate = NoLink \/ candidate \in 1..made
BY ServerLinkAssumption DEF TypeOK, Link, NoLink

\* A new link has not run, and is none of those that are in use.
LEMMA NextIsFresh ==
  ASSUME IndInv, made < MaxLinks
  PROVE  /\ made + 1 \in Link /\ 1..made \subseteq 1..(made + 1)
         /\ made + 1 \notin 1..made
         /\ phase[made + 1] = "new"
         /\ made + 1 # serverConnection /\ made + 1 # NoLink
<1>1. TypeOK /\ UnmadeAreNew
  BY DEF IndInv
<1>2. made \in Nat /\ MaxLinks \in Nat /\ made + 1 \in Link
  BY <1>1, MadeAreLinks DEF Link
<1> QED
  BY <1>1, <1>2, MadeAreLinks DEF UnmadeAreNew, NoLink

LEMMA ConnectKeeps == IndInv /\ ConnectCommand => IndInv'
<1> SUFFICES ASSUME IndInv, ConnectCommand PROVE IndInv'
  OBVIOUS
<1>1. TypeOK /\ OneAtATime /\ ConnectionIsThere /\ UnmadeAreNew /\ CandidateIsNew /\ HeardHaveRead
  BY DEF IndInv
<1>2. /\ made' = made + 1 /\ made < MaxLinks
      /\ UNCHANGED <<Connected, closed, stopped, execute, others, panicked, heard>>
  BY DEF ConnectCommand
<1> USE <1>1, <1>2, MadeAreLinks, NextIsFresh
<1>3. CASE NothingThere
  <2>1. /\ serverConnection = NoLink /\ serverConnection' = made'
        /\ phase' = [phase EXCEPT ![made'] = "dialing"]
        /\ UNCHANGED <<candidate, closing, DisconnectRequested>>
    BY <1>3 DEF ConnectCommand, NothingThere, Dialing
  <2>2. TypeOK'
    BY <2>1 DEF TypeOK, NoLink
  <2>3. OneAtATime'
    BY <2>1 DEF TypeOK, OneAtATime
  <2>4. CandidateIsNew' /\ HeardHaveRead' /\ UnmadeAreNew'
    BY <2>1 DEF TypeOK, CandidateIsNew, HeardHaveRead, UnmadeAreNew, Link
  <2> QED
    BY <2>2, <2>3, <2>4 DEF IndInv, ConnectionIsThere
<1>4. CASE ~NothingThere
  <2>1. /\ serverConnection # NoLink /\ candidate' = made'
        /\ UNCHANGED <<serverConnection, phase>>
        /\ closing' \subseteq closing \cup {serverConnection}
        /\ DisconnectRequested' \subseteq DisconnectRequested \cup {serverConnection}
    BY <1>4 DEF ConnectCommand, NothingThere, RequestDisconnect
  <2>2. TypeOK'
    BY <2>1 DEF TypeOK, NoLink
  <2>3. OneAtATime' /\ CandidateIsNew' /\ HeardHaveRead' /\ UnmadeAreNew'
    BY <2>1 DEF OneAtATime, CandidateIsNew, HeardHaveRead, UnmadeAreNew, Link
  <2> QED
    BY <2>2, <2>3 DEF IndInv, ConnectionIsThere
<1> QED
  BY <1>3, <1>4

LEMMA ReconnectKeeps == IndInv /\ TickReconnect => IndInv'
<1> SUFFICES ASSUME IndInv, TickReconnect PROVE IndInv'
  OBVIOUS
<1>1. TypeOK /\ OneAtATime /\ ConnectionIsThere /\ UnmadeAreNew /\ CandidateIsNew /\ HeardHaveRead
  BY DEF IndInv
<1>2. /\ made' = made + 1 /\ made < MaxLinks /\ candidate' = made'
      /\ serverConnection \in heard
      /\ DisconnectRequested' = DisconnectRequested \cup {serverConnection}
      /\ closing' = closing \cup {serverConnection}
      /\ UNCHANGED <<phase, Connected, closed, serverConnection, stopped, execute, others,
                     panicked, heard>>
  BY DEF TickReconnect
<1> USE <1>1, <1>2, MadeAreLinks, NextIsFresh
<1>3. TypeOK'
  BY DEF TypeOK, NoLink
<1>4. OneAtATime' /\ CandidateIsNew' /\ HeardHaveRead' /\ UnmadeAreNew'
  BY DEF OneAtATime, CandidateIsNew, HeardHaveRead, UnmadeAreNew, Link
<1> QED
  BY <1>3, <1>4 DEF IndInv, ConnectionIsThere

LEMMA SendKeeps == IndInv /\ (SendCommand \/ TickPing) => IndInv'
<1> SUFFICES ASSUME IndInv, SendCommand \/ TickPing PROVE IndInv'
  OBVIOUS
<1>1. panicked' = FALSE
  BY DEF IndInv, HeardHaveRead, SendCommand, TickPing, WriteToServer
<1> QED
  BY <1>1 DEF IndInv, SendCommand, TickPing, WriteToServer, TypeOK, OneAtATime,
              ConnectionIsThere, UnmadeAreNew, CandidateIsNew, HeardHaveRead

LEMMA RegisterKeeps ==
  ASSUME IndInv, NEW c \in Link, Register(c)
  PROVE  IndInv'
<1>1. TypeOK /\ OneAtATime /\ ConnectionIsThere /\ UnmadeAreNew /\ CandidateIsNew /\ HeardHaveRead
  BY DEF IndInv
<1>2. /\ phase[c] = "dialing" /\ phase' = [phase EXCEPT ![c] = "reading"]
      /\ Connected' = Connected \cup {c} /\ heard' = heard \cup {c}
      /\ UNCHANGED <<made, DisconnectRequested, closing, serverConnection, candidate, stopped,
                     execute, others>>
  BY DEF Register
<1>3. c = serverConnection /\ c \in 1..made /\ c # NoLink /\ phase'[c] = "reading"
  BY <1>1, <1>2, MadeAreLinks DEF OneAtATime, TypeOK
<1>4. closed' \subseteq closed \cup {c} /\ panicked' = FALSE
  BY <1>1, <1>3 DEF Register, ConnectionIsThere, TypeOK
<1>5. TypeOK'
  BY <1>1, <1>2, <1>3, <1>4 DEF TypeOK
<1>6. OneAtATime'
  BY <1>1, <1>2, <1>3 DEF OneAtATime, TypeOK
<1>7. UnmadeAreNew'
  BY <1>1, <1>2, <1>3 DEF UnmadeAreNew, TypeOK
<1>8. CandidateIsNew' /\ HeardHaveRead'
  BY <1>1, <1>2, <1>3 DEF CandidateIsNew, HeardHaveRead, TypeOK
<1> QED
  BY <1>4, <1>5, <1>6, <1>7, <1>8 DEF IndInv, ConnectionIsThere

LEMMA PacketKeeps ==
  ASSUME IndInv, NEW c \in Link, ReceivePacket(c)
  PROVE  IndInv'
<1>1. TypeOK /\ OneAtATime /\ ConnectionIsThere /\ UnmadeAreNew /\ CandidateIsNew /\ HeardHaveRead
  BY DEF IndInv
<1>2. c = serverConnection /\ c # NoLink /\ c \in 1..made
  BY <1>1, MadeAreLinks DEF OneAtATime, ReceivePacket
<1>3. panicked' = FALSE /\ heard' = heard \cup {c} /\ phase[c] = "reading"
  BY <1>2 DEF ReceivePacket, NoteServerPacket
<1> QED
  BY <1>1, <1>2, <1>3 DEF ReceivePacket, NoteServerPacket, IndInv, TypeOK, OneAtATime,
                          ConnectionIsThere, UnmadeAreNew, CandidateIsNew, HeardHaveRead

LEMMA UnregisterKeeps ==
  ASSUME IndInv, NEW c \in Link, Unregister(c)
  PROVE  IndInv'
<1>1. TypeOK /\ OneAtATime /\ ConnectionIsThere /\ UnmadeAreNew /\ CandidateIsNew /\ HeardHaveRead
  BY DEF IndInv
<1>2. /\ phase[c] \in {"dialing", "reading"}
      /\ UNCHANGED <<made, Connected, DisconnectRequested, closing, closed, stopped, others,
                     panicked, heard>>
  BY DEF Unregister
<1>3. c = serverConnection /\ c \in 1..made /\ c # NoLink /\ c # candidate
  BY <1>1, <1>2, MadeAreLinks DEF OneAtATime, CandidateIsNew
<1> USE <1>1, <1>2, <1>3, MadeAreLinks
<1>4. CASE stopped /\ ~others
  <2>1. /\ phase' = [phase EXCEPT ![c] = "ended"]
        /\ serverConnection' = NoLink /\ candidate' = candidate /\ execute' = FALSE
    BY <1>4 DEF Unregister
  <2>2. TypeOK'
    <3>1. execute' \in BOOLEAN
      BY <2>1, Zenon
    <3> QED
      BY <2>1, <3>1 DEF TypeOK, NoLink
  <2>3. OneAtATime'
    BY <2>1 DEF OneAtATime, TypeOK
  <2>4. UnmadeAreNew' /\ CandidateIsNew' /\ HeardHaveRead'
    BY <2>1 DEF UnmadeAreNew, CandidateIsNew, HeardHaveRead, TypeOK
  <2> QED
    BY <2>2, <2>3, <2>4 DEF IndInv, ConnectionIsThere
<1>5. CASE ~(stopped /\ ~others)
  <2>1. /\ phase' = [x \in Link |-> IF x = c THEN "ended"
                                    ELSE IF x = candidate THEN "dialing" ELSE phase[x]]
        /\ serverConnection' = candidate /\ candidate' = NoLink /\ execute' = execute
    BY <1>5 DEF Unregister, TakesCandidate
  <2>2. TypeOK'
    BY <2>1 DEF TypeOK, NoLink
  <2>3. OneAtATime'
    BY <2>1 DEF OneAtATime, TypeOK
  <2>4. UnmadeAreNew'
    BY <2>1 DEF UnmadeAreNew, TypeOK
  <2>5. CandidateIsNew' /\ HeardHaveRead'
    BY <2>1 DEF CandidateIsNew, HeardHaveRead, TypeOK
  <2> QED
    BY <2>2, <2>3, <2>4, <2>5 DEF IndInv, ConnectionIsThere
<1> QED
  BY <1>4, <1>5

\* The rest moves no connection.
LEMMA OthersKeep ==
  ASSUME IndInv,
         \/ DisconnectCommand \/ StopCommand \/ OthersGone \/ SessionClosed
         \/ \E c \in Link : RunClose(c)
         \/ UNCHANGED vars
  PROVE  IndInv'
<1>1. TypeOK /\ OneAtATime /\ ConnectionIsThere /\ UnmadeAreNew /\ CandidateIsNew /\ HeardHaveRead
  BY DEF IndInv
<1>2. /\ UNCHANGED <<made, phase, Connected, heard, serverConnection, candidate, panicked>>
      /\ closing' \subseteq closing \cup ({serverConnection} \ {NoLink})
      /\ DisconnectRequested' \subseteq DisconnectRequested \cup ({serverConnection} \ {NoLink})
      /\ closed' \subseteq closed \cup Connected
      /\ stopped' \in BOOLEAN /\ execute' \in BOOLEAN /\ others' \in BOOLEAN
  <2>1. CASE DisconnectCommand
    BY <1>1, <2>1 DEF DisconnectCommand, RequestDisconnect, TypeOK
  <2>2. CASE StopCommand
    BY <1>1, <2>2 DEF StopCommand, TypeOK
  <2>3. CASE OthersGone
    BY <1>1, <2>3 DEF OthersGone, TypeOK
  <2>4. CASE SessionClosed \/ UNCHANGED vars
    BY <1>1, <2>4 DEF SessionClosed, vars, TypeOK
  <2>5. CASE \E c \in Link : RunClose(c)
    BY <1>1, <2>5 DEF RunClose, TypeOK
  <2> QED
    BY <2>1, <2>2, <2>3, <2>4, <2>5
<1>3. TypeOK'
  BY <1>1, <1>2, MadeAreLinks DEF TypeOK
<1> QED
  BY <1>1, <1>2, <1>3 DEF IndInv, OneAtATime, ConnectionIsThere, UnmadeAreNew, CandidateIsNew,
                          HeardHaveRead

LEMMA Inductive == Spec => []IndInv
<1>1. IndInv /\ [Next]_vars => IndInv'
  <2> SUFFICES ASSUME IndInv, [Next]_vars PROVE IndInv'
    OBVIOUS
  <2>1. CASE ConnectCommand
    BY <2>1, ConnectKeeps
  <2>2. CASE TickReconnect
    BY <2>2, ReconnectKeeps
  <2>3. CASE SendCommand \/ TickPing
    BY <2>3, SendKeeps
  <2>4. CASE \E c \in Link : Register(c)
    BY <2>4, RegisterKeeps
  <2>5. CASE \E c \in Link : ReceivePacket(c)
    BY <2>5, PacketKeeps
  <2>6. CASE \E c \in Link : Unregister(c)
    BY <2>6, UnregisterKeeps
  <2>7. CASE \/ DisconnectCommand \/ StopCommand \/ OthersGone \/ SessionClosed
             \/ \E c \in Link : RunClose(c)
             \/ UNCHANGED vars
    BY <2>7, OthersKeep
  <2> QED
    BY <2>1, <2>2, <2>3, <2>4, <2>5, <2>6, <2>7 DEF Next
<1> QED
  BY <1>1, InitHolds, PTL DEF Spec

\* Every variable of the server link keeps its type, whatever connections are
\* made and lost (session.go:99-181, server_connection.go:33-106).
THEOREM LinkTypes == Spec => []TypeOK
<1>1. IndInv => TypeOK
  BY DEF IndInv
<1> QED
  BY <1>1, Inductive, PTL

\* However many connections follow each other, one goroutine at a time talks to
\* a server, and it is the one of s.serverConnection (session.go:99-112, 161-173).
THEOREM OneLinkAtATime == Spec => []OneAtATime
<1>1. IndInv => OneAtATime
  BY DEF IndInv
<1> QED
  BY <1>1, Inductive, PTL

\* Register, unregister and packet messages find s.serverConnection there, and
\* nothing is written before the dial returned (session.go:120-124, 292-296,
\* 346-358).
THEOREM LinkIsThere == Spec => []ConnectionIsThere
<1>1. IndInv => ConnectionIsThere
  BY DEF IndInv
<1> QED
  BY <1>1, Inductive, PTL
=============================================================================
