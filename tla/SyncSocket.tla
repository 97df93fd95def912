------------------------------ MODULE SyncSocket ------------------------------
(***************************************************************************)
(* The client's sync transport (usbvault-app/src/services/syncService.ts):   *)
(* one logical connection kept alive over successive WebSockets, the replay  *)
(* of missed events after a reconnection, and the queue of outgoing items    *)
(* in localStorage.                                                          *)
(*                                                                          *)
(* Socket events, timers and user actions are tasks of the browser.  The     *)
(* awaits of processQueue only wait for settled promises, so between two of  *)
(* its items no task runs: only code of the same task (a second enqueue, a   *)
(* disconnect) gets in between.  While isSyncing holds, tasks are disabled.  *)
(*                                                                          *)
(* The server (external) forwards each published event to every open socket  *)
(* and, asked for a replay, sends the events after the given sequence.       *)
(* Reconnection never gives up (maxAttempts is Infinity), so the attempt     *)
(* counter, which only sets the delay, is left out.                          *)
(***************************************************************************)
EXTENDS Naturals, SequencesExt, FiniteSetsExt, Arrays

CONSTANTS
    NumSockets,    \* bound on the WebSockets ever constructed
    MaxSeq,        \* bound on the events the server publishes
    Items,         \* outgoing items
    Legacy,        \* the items that are not encrypted
    ItemRetries,   \* MAX_RETRIES
    SyncCap        \* items that _saveQueue keeps

ASSUME SyncSocketAssumption ==
    /\ {NumSockets, MaxSeq} \subseteq Nat /\ ItemRetries \in Nat \ {0}
    /\ SyncCap \in Nat \ {0} /\ Legacy \subseteq Items

Sockets == 1..NumSockets     \* in the order of their construction
NoSocket == 0

VARIABLES
    sock,               \* state of each WebSocket
    inbox,              \* events on their way to the client on each socket
    replayFrom,         \* replay request on its way to the server, per socket
    ws,                 \* _ws
    wsUrl,              \* _wsUrl and _authToken are set
    wsConnected,        \* _wsConnected
    intentionalClose,   \* _intentionalClose
    reconnectTimer,     \* _reconnectTimer is armed
    pingInterval,       \* _pingInterval is armed
    pongTimer,          \* _pongTimer is armed
    lastSequence,       \* _lastSequence
    published,          \* events the server has published
    received,           \* events handed to _onSyncEvent
    syncItems,          \* localStorage: [item, status, retry], oldest first
    isSyncing,          \* _isSyncing
    batch,              \* the copy of the queue an activation of processQueue holds
    cursor,             \* the item of batch it waits for
    sentItems           \* items written to an open socket

channelVars == <<sock, inbox, replayFrom, published>>
socketVars ==
    <<ws, wsUrl, wsConnected, intentionalClose, reconnectTimer,
      pingInterval, pongTimer, lastSequence, received>>
flushVars == <<syncItems, isSyncing, batch, cursor, sentItems>>
SocketVars == <<channelVars, socketVars, flushVars>>

SyncRows == [item : Items, status : {"pending", "error", "synced"}, retry : 0..ItemRetries]

(* The type invariant.                                                       *)
SocketTypeOK ==
    /\ sock \in [Sockets -> {"none", "connecting", "open", "closing", "closed"}]
    /\ inbox \in [Sockets -> Seq(1..MaxSeq)]
    /\ replayFrom \in [Sockets -> 0..MaxSeq]
    /\ ws \in Sockets \cup {NoSocket}
    /\ {wsUrl, wsConnected, intentionalClose, reconnectTimer, pingInterval, pongTimer,
        isSyncing} \subseteq BOOLEAN
    /\ {lastSequence, published} \subseteq 0..MaxSeq
    /\ received \subseteq 1..MaxSeq
    /\ syncItems \in Seq(SyncRows) /\ batch \in Seq(SyncRows)
    /\ cursor \in Nat
    /\ sentItems \subseteq Items

SocketInit ==
    /\ sock = [s \in Sockets |-> "none"]
    /\ inbox = [s \in Sockets |-> <<>>]
    /\ replayFrom = [s \in Sockets |-> 0]
    /\ ws = NoSocket /\ wsUrl = FALSE /\ wsConnected = FALSE /\ intentionalClose = FALSE
    /\ reconnectTimer = FALSE
    /\ pingInterval = FALSE /\ pongTimer = FALSE
    /\ lastSequence = 0 /\ published = 0 /\ received = {}
    /\ syncItems = <<>> /\ isSyncing = FALSE /\ batch = <<>> /\ cursor = 0
    /\ sentItems = {}

-----------------------------------------------------------------------------
(* Outgoing items.                                                           *)

SocketOpen == ws # NoSocket /\ sock[ws] = "open"

_saveQueue(q) == IF Len(q) > SyncCap THEN SubSeq(q, Len(q) - SyncCap + 1, Len(q)) ELSE q

(* Slip: an item is marked synced although the socket is not open.           *)
_syncItemUnchecked(r, open) == [r EXCEPT !.status = "synced"]

(* _syncItem on one row: sent, or an error that counts as a retry.           *)
_syncItem(r, open) ==
    IF open THEN [r EXCEPT !.status = "synced"]
    ELSE [r EXCEPT !.status = "error", !.retry = @ + 1]

(* The loop of processQueue over the copy b of the queue, from row i to the  *)
(* next await, or to the end, where the copy replaces whatever localStorage  *)
(* holds by then.                                                            *)
FlushFrom(b, i, stored, open) ==
    LET due == {j \in i..Len(b) : b[j].status # "synced" /\ b[j].retry < ItemRetries}
        j == Min(due)
    IN
    \/ /\ due = {}
       /\ syncItems' = _saveQueue(b)
       /\ isSyncing' = FALSE /\ batch' = <<>> /\ cursor' = 0
       /\ UNCHANGED sentItems
    \/ /\ due # {}
       /\ syncItems' = stored /\ isSyncing' = TRUE
       /\ batch' = [b EXCEPT ![j] = _syncItem(@, open)]
       /\ cursor' = j
       /\ sentItems' = IF open THEN sentItems \cup {b[j].item} ELSE sentItems

processQueueContinue ==
    /\ isSyncing
    /\ FlushFrom(batch, cursor + 1, syncItems, SocketOpen)
    /\ UNCHANGED <<channelVars, socketVars>>

(* enqueue: the item joins the stored queue and, with the socket believed to *)
(* be connected, a flush begins unless one is running.                       *)
enqueueItem(m) ==
    LET rows == Range(syncItems) \cup Range(batch)
        q == _saveQueue(Append(syncItems, [item |-> m, status |-> "pending", retry |-> 0]))
    IN
    /\ m \notin {r.item : r \in rows} \cup sentItems
    /\ \/ wsConnected /\ ~isSyncing /\ FlushFrom(q, 1, q, SocketOpen)
       \/ /\ ~wsConnected \/ isSyncing
          /\ syncItems' = q
          /\ UNCHANGED <<isSyncing, batch, cursor, sentItems>>
    /\ UNCHANGED <<channelVars, socketVars>>

(* sendEncryptedEvent with an open socket bypasses the queue; otherwise it   *)
(* is enqueueItem.                                                           *)
sendEncryptedEvent(m) ==
    /\ SocketOpen /\ m \notin Legacy \cup sentItems
    /\ m \notin {r.item : r \in Range(syncItems) \cup Range(batch)}
    /\ sentItems' = sentItems \cup {m}
    /\ UNCHANGED <<channelVars, socketVars, syncItems, isSyncing, batch, cursor>>

clearSynced ==
    /\ syncItems' = filter(syncItems, {r \in Range(syncItems) : r.status # "synced"})
    /\ syncItems' # syncItems
    /\ UNCHANGED <<channelVars, socketVars, isSyncing, batch, cursor, sentItems>>

-----------------------------------------------------------------------------
(* The life of the connection.                                               *)

Unused == {s \in Sockets : sock[s] = "none"}

(* _openWebSocket: a new socket replaces _ws, which is not closed; if the    *)
(* constructor throws, a reconnection is scheduled.                          *)
_openWebSocket(intentional, timer) ==
    /\ Unused # {}
    /\ \/ /\ ws' = Min(Unused)
          /\ sock' = [sock EXCEPT ![Min(Unused)] = "connecting"]
          /\ reconnectTimer' = timer
       \/ /\ reconnectTimer' = (timer \/ ~intentional)
          /\ UNCHANGED <<ws, sock>>

connect ==
    /\ ~isSyncing
    /\ wsUrl' = TRUE /\ intentionalClose' = FALSE
    /\ _openWebSocket(FALSE, reconnectTimer)
    /\ UNCHANGED <<inbox, replayFrom, published, wsConnected, pingInterval, pongTimer,
                   lastSequence, received, flushVars>>

disconnect ==
    /\ wsUrl /\ ~intentionalClose
    /\ intentionalClose' = TRUE /\ reconnectTimer' = FALSE
    /\ pingInterval' = FALSE /\ pongTimer' = FALSE
    /\ sock' = [s \in Sockets |-> IF s = ws /\ sock[s] \in {"connecting", "open"}
                                  THEN "closing" ELSE sock[s]]
    /\ ws' = NoSocket /\ wsConnected' = FALSE
    /\ UNCHANGED <<inbox, replayFrom, published, wsUrl, lastSequence, received, flushVars>>

(* _ws.onopen of socket s.  The replay request goes to the current _ws.      *)
onopen(s) ==
    LET open == ws = s \/ SocketOpen IN
    /\ ~isSyncing /\ sock[s] = "connecting"
    /\ sock' = [sock EXCEPT ![s] = "open"]
    /\ wsConnected' = TRUE /\ pingInterval' = TRUE /\ pongTimer' = FALSE
    /\ replayFrom' = IF lastSequence > 0 /\ open
                     THEN [replayFrom EXCEPT ![ws] = lastSequence] ELSE replayFrom
    /\ FlushFrom(syncItems, 1, syncItems, open)
    /\ UNCHANGED <<inbox, published, ws, wsUrl, intentionalClose, reconnectTimer,
                   lastSequence, received>>

(* Slip: a close is not followed by a reconnection.                          *)
oncloseForgets(s) ==
    /\ ~isSyncing /\ sock[s] \in {"connecting", "open", "closing"}
    /\ sock' = [sock EXCEPT ![s] = "closed"]
    /\ inbox' = [inbox EXCEPT ![s] = <<>>]
    /\ replayFrom' = [replayFrom EXCEPT ![s] = 0]
    /\ wsConnected' = FALSE /\ pingInterval' = FALSE /\ pongTimer' = FALSE
    /\ UNCHANGED <<published, ws, wsUrl, intentionalClose, reconnectTimer, lastSequence,
                   received, flushVars>>

(* _ws.onclose of socket s, whether or not s is still the current one: the   *)
(* peer or the network closed it, it could not connect, or close() finished. *)
onclose(s) ==
    /\ ~isSyncing /\ sock[s] \in {"connecting", "open", "closing"}
    /\ sock' = [sock EXCEPT ![s] = "closed"]
    /\ inbox' = [inbox EXCEPT ![s] = <<>>]
    /\ replayFrom' = [replayFrom EXCEPT ![s] = 0]
    /\ wsConnected' = FALSE /\ pingInterval' = FALSE /\ pongTimer' = FALSE
    /\ reconnectTimer' = (reconnectTimer \/ ~intentionalClose)
    /\ UNCHANGED <<published, ws, wsUrl, intentionalClose, lastSequence, received, flushVars>>

(* The timer of _scheduleReconnect.                                          *)
reconnectFires ==
    /\ ~isSyncing /\ reconnectTimer /\ wsUrl
    /\ _openWebSocket(intentionalClose, FALSE)
    /\ UNCHANGED <<inbox, replayFrom, published, wsUrl, wsConnected, intentionalClose,
                   pingInterval, pongTimer, lastSequence, received, flushVars>>

(* The browser reports the network back; the handler does not look at        *)
(* _intentionalClose.                                                        *)
onlineHandler ==
    /\ ~isSyncing /\ wsUrl
    /\ \/ /\ ~wsConnected /\ reconnectTimer' = TRUE
          /\ UNCHANGED flushVars
       \/ /\ wsConnected /\ FlushFrom(syncItems, 1, syncItems, SocketOpen)
          /\ UNCHANGED reconnectTimer
    /\ UNCHANGED <<channelVars, ws, wsUrl, wsConnected, intentionalClose, pingInterval,
                   pongTimer, lastSequence, received>>

ping ==
    /\ ~isSyncing /\ pingInterval /\ SocketOpen /\ ~pongTimer
    /\ pongTimer' = TRUE
    /\ UNCHANGED <<channelVars, ws, wsUrl, wsConnected, intentionalClose, reconnectTimer,
                   pingInterval, lastSequence, received, flushVars>>

pong ==
    /\ ~isSyncing /\ pongTimer /\ \E s \in Sockets : sock[s] = "open"
    /\ pongTimer' = FALSE
    /\ UNCHANGED <<channelVars, ws, wsUrl, wsConnected, intentionalClose, reconnectTimer,
                   pingInterval, lastSequence, received, flushVars>>

pongTimeout ==
    /\ ~isSyncing /\ pongTimer
    /\ pongTimer' = FALSE
    /\ sock' = [s \in Sockets |-> IF s = ws /\ sock[s] \in {"connecting", "open"}
                                  THEN "closing" ELSE sock[s]]
    /\ UNCHANGED <<inbox, replayFrom, published, ws, wsUrl, wsConnected, intentionalClose,
                   reconnectTimer, pingInterval, lastSequence, received, flushVars>>

-----------------------------------------------------------------------------
(* Incoming events.                                                          *)

(* External: another device's event reaches the server, which forwards it to *)
(* the sockets that are open.                                                *)
Publish ==
    /\ ~isSyncing /\ published < MaxSeq
    /\ published' = published + 1
    /\ inbox' = [s \in Sockets |-> IF sock[s] = "open" THEN Append(inbox[s], published')
                                   ELSE inbox[s]]
    /\ UNCHANGED <<sock, replayFrom, socketVars, flushVars>>

(* External: the server answers a replay request.                            *)
Replay(s) ==
    /\ ~isSyncing /\ replayFrom[s] > 0 /\ sock[s] = "open"
    /\ inbox' = [inbox EXCEPT ![s] =
                    @ \o [i \in 1..(published - replayFrom[s]) |-> replayFrom[s] + i]]
    /\ replayFrom' = [replayFrom EXCEPT ![s] = 0]
    /\ UNCHANGED <<sock, published, socketVars, flushVars>>

(* The "sync" case of _handleServerMessage.                                  *)
_handleServerMessage(s) ==
    /\ ~isSyncing /\ inbox[s] # <<>> /\ sock[s] \in {"open", "closing"}
    /\ inbox' = [inbox EXCEPT ![s] = Tail(@)]
    /\ lastSequence' = Max({lastSequence, Head(inbox[s])})
    /\ received' = received \cup {Head(inbox[s])}
    /\ UNCHANGED <<sock, replayFrom, published, ws, wsUrl, wsConnected, intentionalClose,
                   reconnectTimer, pingInterval, pongTimer, flushVars>>

SocketNext ==
    \/ connect \/ disconnect \/ reconnectFires \/ onlineHandler
    \/ ping \/ pong \/ pongTimeout
    \/ \E s \in Sockets : onopen(s) \/ onclose(s) \/ Replay(s) \/ _handleServerMessage(s)
    \/ Publish
    \/ processQueueContinue \/ clearSynced
    \/ \E m \in Items : enqueueItem(m) \/ sendEncryptedEvent(m)

SocketSpec == SocketInit /\ [][SocketNext]_SocketVars

-----------------------------------------------------------------------------
(* Unless the application disconnected, the transport never stalls: it is    *)
(* connected over a socket that exists, with the heartbeat that would notice *)
(* its death running, or an event is due that will make it try again.        *)
NeverStranded ==
    /\ wsUrl /\ ~intentionalClose =>
          wsConnected \/ reconnectTimer \/ \E s \in Sockets : sock[s] \in {"connecting", "closing"}
    /\ wsConnected => pingInterval /\ \E s \in Sockets : sock[s] \in {"open", "closing"}

(* An item is marked synced only after it was written to an open socket,     *)
(* whatever socket _ws names by the time its turn comes.                     *)
SyncedWasSent ==
    \A r \in Range(syncItems) \cup Range(batch) : r.status = "synced" => r.item \in sentItems

(* "Does NOT trigger reconnection" (disconnect).                             *)
DisconnectIsFinal == intentionalClose => ~reconnectTimer

(* The client has one live socket.                                           *)
OneLiveSocket == Cardinality({s \in Sockets : sock[s] = "open"}) <= 1

(* "Request replay of missed events on reconnect": no event before           *)
(* _lastSequence, and after the first one received, is missing.              *)
NoGap == \A e \in 1..lastSequence : e \in received \/ \A d \in received : e < d

(* An item stays in the queue until it has been sent.                        *)
ItemKept ==
    [][\A r \in Range(syncItems) :
          r.item \in sentItems' \/ \E q \in Range(syncItems') : q.item = r.item]_SocketVars
=============================================================================
