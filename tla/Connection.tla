----------------------------- MODULE Connection -----------------------------
(***************************************************************************)
(* The tab's end of the WebSocket: websocketService.ts (connect, its       *)
(* handlers, the reconnect with its backoff, the ping) and                 *)
(* connectionStore.svelte.ts, which turns its status into toasts and keeps *)
(* the X-Client-ID of every request.                                       *)
(*                                                                         *)
(* Sockets are numbered as they are made; the server's client id for a     *)
(* socket is its number.  0 is no socket, no client id.                    *)
(***************************************************************************)
EXTENDS Integers, Sequences, FiniteSets

CONSTANTS
    MaxDelay,    \* WS_RECONNECT_MAX_MS in units of WS_RECONNECT_BASE_MS
    MaxSockets,  \* bound: sockets made while the server may still fail
    MaxBreaks    \* bound: how often the server goes away or a connection breaks

ASSUME BoundsAssumption == MaxDelay \in Nat /\ MaxSockets \in Nat /\ MaxBreaks \in Nat

VARIABLES
    up,          \* the server accepts and keeps connections
    mounted,     \* the page is there
    sockets,     \* of each socket: its state and the events the browser still owes it
    ws,          \* the service's socket
    status, intentional, attempts,
    timer,       \* the reconnect due, in units of the base; 0 for none
    ping,        \* the ping interval runs
    service,     \* websocketService.clientId
    header,      \* connectionStore.clientId, and container's
    before,      \* #lastStatus
    toasts,      \* the toasts so far
    breaks

vars == <<up, mounted, sockets, ws, status, intentional, attempts, timer, ping, service, header,
          before, toasts, breaks>>

Ids       == 1 .. Len(sockets)
Live(s)   == sockets[s].state \in {"connecting", "open"}
Statuses  == {"disconnected", "connecting", "connected", "reconnecting"}
Sockets   == [state: {"connecting", "open", "closing", "closed"},
              owed:  Seq({"open", "ack", "error", "close"})]

TypeOK ==
    /\ up \in BOOLEAN /\ mounted \in BOOLEAN /\ intentional \in BOOLEAN /\ ping \in BOOLEAN
    /\ sockets \in Seq(Sockets)
    /\ {ws, service, header} \subseteq Ids \union {0}
    /\ status \in Statuses /\ before \in Statuses
    /\ attempts \in Nat /\ timer \in 0 .. MaxDelay
    /\ toasts \in Seq({"connected", "reconnecting", "disconnected"})
    /\ breaks \in 0 .. MaxBreaks

----------------------------------------------------------------------------
(* setStatus() and the store's handler; only the last two toasts are kept. *)
Toast(new) ==
    IF new = "connected" /\ before # "connected" THEN <<"connected">>
    ELSE IF new = "reconnecting" /\ before = "connected" THEN <<"reconnecting">>
    ELSE IF new = "disconnected" /\ before # "disconnected" THEN <<"disconnected">>
    ELSE <<>>

LastTwo(s) == IF Len(s) > 2 THEN SubSeq(s, Len(s) - 1, Len(s)) ELSE s

(* Slip: only a deliberate disconnect takes the header back.               *)
HeaderKept(new) == IF new = "disconnected" THEN 0 ELSE header

HeaderAfter(new) == IF new \in {"disconnected", "reconnecting"} THEN 0 ELSE header

SetStatus(new) ==
    /\ status' = new /\ before' = new
    /\ toasts' = LastTwo(toasts \o Toast(new))
    /\ header' = HeaderAfter(new)

(* min(base * 2^attempts, max)                                             *)
Delay(n) == IF 2 ^ n > MaxDelay THEN MaxDelay ELSE 2 ^ n

(* Slip: a connection attempt is made from rest only.                      *)
BusyUnlessAtRest == status # "disconnected"

Busy == status \in {"connected", "connecting"}

(* connect(): a new socket, unless there is one already.                   *)
Connect ==
    IF Busy THEN UNCHANGED <<sockets, ws, status, before, toasts, header, intentional>>
    ELSE /\ intentional' = FALSE
         /\ sockets' = Append(sockets, [state |-> "connecting", owed |-> <<>>])
         /\ ws' = Len(sockets) + 1
         /\ SetStatus("connecting")

ScheduleReconnect ==
    /\ SetStatus("reconnecting")
    /\ timer' = Delay(attempts) /\ attempts' = attempts + 1

(* The page has just come up: connectionStore.init().                      *)
Init ==
    /\ up \in BOOLEAN /\ mounted = TRUE
    /\ sockets = <<[state |-> "connecting", owed |-> <<>>]>> /\ ws = 1
    /\ status = "connecting" /\ before = "connecting" /\ intentional = FALSE /\ attempts = 0
    /\ timer = 0 /\ ping = FALSE /\ service = 0 /\ header = 0 /\ toasts = <<>> /\ breaks = 0

----------------------------------------------------------------------------
(* The network.  An attempt is accepted and greeted, or refused; an open   *)
(* connection may break, with or without an error.                         *)
Owes(s, state, events) ==
    sockets' = [sockets EXCEPT ![s] = [state |-> state, owed |-> @.owed \o events]]

client == <<mounted, ws, status, intentional, attempts, timer, ping, service, header, before, toasts>>

Accept(s) ==
    /\ up /\ sockets[s] = [state |-> "connecting", owed |-> <<>>]
    /\ Owes(s, "open", <<"open", "ack">>) /\ UNCHANGED <<up, breaks, client>>

Refuse(s) ==
    /\ ~up /\ sockets[s] = [state |-> "connecting", owed |-> <<>>]
    /\ Owes(s, "closed", <<"error", "close">>) /\ UNCHANGED <<up, breaks, client>>

Break(s) ==
    /\ sockets[s].state = "open" /\ breaks < MaxBreaks /\ breaks' = breaks + 1
    /\ \E e \in {<<"close">>, <<"error", "close">>} : Owes(s, "closed", e)
    /\ UNCHANGED <<up, client>>

GoDown ==
    /\ up /\ up' = FALSE /\ breaks < MaxBreaks /\ breaks' = breaks + 1
    /\ sockets' = [s \in Ids |-> IF sockets[s].state = "open"
                                 THEN [state |-> "closed", owed |-> sockets[s].owed \o <<"close">>]
                                 ELSE sockets[s]]
    /\ UNCHANGED client

GoUp == ~up /\ up' = TRUE /\ UNCHANGED <<sockets, breaks, client>>

CloseDone(s) ==
    /\ sockets[s].state = "closing" /\ Owes(s, "closed", <<"close">>)
    /\ UNCHANGED <<up, breaks, client>>

(* close(): of the greeting nothing more arrives.                          *)
Ungreeted(owed) ==
    LET f[i \in 0 .. Len(owed)] ==
            IF i = 0 THEN <<>>
            ELSE IF owed[i] \in {"open", "ack"} THEN f[i - 1] ELSE Append(f[i - 1], owed[i])
    IN  f[Len(owed)]

Closing(ss, s) ==
    IF s = 0 THEN ss
    ELSE [ss EXCEPT ![s] =
            [state |-> IF @.state = "closed" THEN "closed" ELSE "closing",
             owed  |-> Ungreeted(@.owed)]]

----------------------------------------------------------------------------
(* The handlers, bound to every socket ever made.                          *)
Taken(s) == [sockets EXCEPT ![s].owed = Tail(@)]
Due(s, e) == sockets[s].owed # <<>> /\ Head(sockets[s].owed) = e

HandleOpen(s) ==
    /\ Due(s, "open") /\ sockets' = Taken(s)
    /\ attempts' = 0 /\ SetStatus("connected") /\ ping' = TRUE
    /\ UNCHANGED <<up, mounted, ws, intentional, timer, service, breaks>>

(* The greeting; the store listens only as long as the page is there.      *)
HandleAck(s) ==
    /\ Due(s, "ack") /\ sockets' = Taken(s)
    /\ service' = s /\ header' = (IF mounted THEN s ELSE header)
    /\ UNCHANGED <<up, mounted, ws, status, intentional, attempts, timer, ping, before, toasts, breaks>>

HandleClose(s) ==
    /\ Due(s, "close") /\ sockets' = Taken(s)
    /\ ping' = FALSE /\ ws' = 0
    /\ IF ~intentional THEN ScheduleReconnect
       ELSE /\ (IF mounted THEN SetStatus("disconnected")
                ELSE status' = "disconnected" /\ UNCHANGED <<before, toasts, header>>)
            /\ UNCHANGED <<attempts, timer>>
    /\ UNCHANGED <<up, mounted, intentional, service, breaks>>

HandleError(s) ==
    /\ Due(s, "error") /\ sockets' = Closing(Taken(s), ws)
    /\ ping' = FALSE
    /\ UNCHANGED <<up, mounted, ws, status, intentional, attempts, timer, service, header, before,
                   toasts, breaks>>

(* Time runs for the timer, which then connects.                           *)
Wait ==
    /\ timer > 1 /\ timer' = timer - 1
    /\ UNCHANGED <<up, mounted, sockets, ws, status, intentional, attempts, ping, service, header,
                   before, toasts, breaks>>

Reconnect ==
    /\ timer = 1 /\ timer' = 0 /\ (Len(sockets) < MaxSockets \/ up)
    /\ Connect
    /\ UNCHANGED <<up, mounted, attempts, ping, service, breaks>>

(* The page goes: handlers off, header off, then disconnect().             *)
Destroy ==
    /\ mounted /\ mounted' = FALSE
    /\ header' = 0 /\ intentional' = TRUE /\ ping' = FALSE /\ timer' = 0
    /\ sockets' = Closing(sockets, ws) /\ ws' = 0 /\ status' = "disconnected"
    /\ UNCHANGED <<up, attempts, service, before, toasts, breaks>>

Network == \E s \in Ids : Accept(s) \/ Refuse(s) \/ CloseDone(s)
Events  == \E s \in Ids : HandleOpen(s) \/ HandleAck(s) \/ HandleClose(s) \/ HandleError(s)

Next ==
    \/ Network \/ Events \/ Wait \/ Reconnect \/ Destroy \/ GoDown \/ GoUp
    \/ \E s \in Ids : Break(s)

Spec == Init /\ [][Next]_vars

(* The browser settles what it started and delivers what it owes, and its  *)
(* clock runs.  The server owes nothing.                                   *)
Fairness == WF_vars(Network) /\ WF_vars(Events) /\ WF_vars(Wait) /\ WF_vars(Reconnect)
FairSpec == Spec /\ Fairness

----------------------------------------------------------------------------
(* One socket at a time, so no message arrives twice; requests carry the   *)
(* id of the socket whose echoes are held back, and of no socket that is   *)
(* gone; the toasts tell of found and lost in turns.                       *)
OneSocket ==
    /\ \A s \in Ids : Live(s) => s = ws
    /\ header # 0 => header = ws /\ service = ws
    /\ ping => ws # 0
    /\ Len(toasts) = 2 => toasts[1] # toasts[2]

(* A server that is back for good is found again by every page that stays. *)
Reconnects == <>[](up /\ mounted) => <>[](header # 0 /\ header = ws)
=============================================================================
