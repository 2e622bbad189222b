----------------------------- MODULE MqttClient -----------------------------
(***************************************************************************)
(* vehicle::infra::MqttClient (the edge side, built with libmosquitto and  *)
(* enabled) and, as external parts, the library's network threads and the  *)
(* broker.  mosquitto_publish only queues a message: the network thread of *)
(* that mosquitto client sends it later, at most Inflight of them without  *)
(* an acknowledgement, and reconnects by itself when the link is lost.     *)
(* Every client uses the same configured id, so the broker keeps one       *)
(* session: a client that connects takes it over from the others.          *)
(***************************************************************************)
EXTENDS FiniteSets, Subsequence

CONSTANTS Inflight,       \* libmosquitto's window of unacknowledged messages
          MaxFailures     \* bound: library calls that fail, links that break

ASSUME InflightAssumption == Inflight \in Nat \ {0}
ASSUME MaxFailuresAssumption == MaxFailures \in Nat

Handles == 1..(MaxFailures + 1)      \* mosquitto clients alive at one time
NoClient == 0                        \* nullptr; also: the broker has no session

VARIABLES client,         \* impl_->client
          connected,      \* impl_->connected
          libRefs,        \* mosquitto_lib_init calls less mosquitto_lib_cleanup
          live,           \* clients created and not destroyed; each has a thread
          outbox,         \* outbox[h]: messages queued in h, not acknowledged
          session,        \* the client the broker has a link to, or NoClient
          sent,           \* how many of outbox[session] are on their way
          arrived,        \* history: messages in the order the broker first saw them
          publishErrors,  \* history: mosquitto_publish calls that failed
          refusals,       \* history: connect() calls that failed
          linkLosses      \* history: links that broke

mqttVars == <<client, connected, libRefs, live, outbox, session, sent, arrived,
              publishErrors, refusals, linkLosses>>
network == <<session, sent, arrived, linkLosses>>

failures == publishErrors + refusals + linkLosses

MqttInit ==
    /\ client = NoClient
    /\ connected = FALSE
    /\ libRefs = 0
    /\ live = {}
    /\ outbox = [h \in Handles |-> <<>>]
    /\ session = NoClient
    /\ sent = 0
    /\ arrived = <<>>
    /\ publishErrors = 0
    /\ refusals = 0
    /\ linkLosses = 0

Fresh == CHOOSE h \in Handles : h \notin live

----------------------------------------------------------------------------
\* Seeded: connect() does not look at connected; the library is initialised
\* for the first client only.
OpenClientUncheckedFault ==
    /\ client' = Fresh
    /\ live' = live \cup {Fresh}
    /\ libRefs' = libRefs + 1
    /\ session' = Fresh
    /\ sent' = 0
OpenClientOneInitFault ==
    /\ ~connected
    /\ client' = Fresh
    /\ live' = live \cup {Fresh}
    /\ libRefs' = IF libRefs = 0 THEN 1 ELSE libRefs
    /\ session' = Fresh
    /\ sent' = 0

\* connect() succeeds: a new client replaces the one that was there, which is
\* neither stopped nor destroyed.
OpenClient ==
    /\ ~connected
    /\ client' = Fresh
    /\ live' = live \cup {Fresh}
    /\ libRefs' = libRefs + 1
    /\ session' = Fresh
    /\ sent' = 0

Connect ==
    /\ OpenClient
    /\ connected' = TRUE
    /\ UNCHANGED <<outbox, arrived, publishErrors, refusals, linkLosses>>

\* connect() fails in mosquitto_new, mosquitto_connect or mosquitto_loop_start:
\* the new client is destroyed and the pointer cleared.  If it was the loop
\* that did not start, the broker has already given it the session.
ConnectFails ==
    /\ ~connected
    /\ failures < MaxFailures
    /\ refusals' = refusals + 1
    /\ client' = NoClient
    /\ libRefs' = libRefs + 1
    /\ session' \in {session, NoClient}
    /\ sent' = IF session' = session THEN sent ELSE 0
    /\ UNCHANGED <<connected, live, outbox, arrived, publishErrors, linkLosses>>

\* The end of publish(): mosquitto_publish queues m in the client, ...
Queued(m) ==
    /\ outbox' = [outbox EXCEPT ![client'] = Append(@, m)]
    /\ connected' = TRUE
    /\ UNCHANGED publishErrors

\* ... or returns an error, having kept the message (as it does for QoS 1 when
\* there is no connection) or not.  The client stays as it is.
Rejected(m) ==
    /\ failures < MaxFailures
    /\ publishErrors' = publishErrors + 1
    /\ connected' = FALSE
    /\ outbox' \in {outbox, [outbox EXCEPT ![client'] = Append(@, m)]}

Publish(m) ==
    \/ /\ connected
       /\ UNCHANGED <<client, libRefs, live, session, sent>>
       /\ Queued(m) \/ Rejected(m)
       /\ UNCHANGED <<arrived, refusals, linkLosses>>
    \/ /\ OpenClient
       /\ Queued(m) \/ Rejected(m)
       /\ UNCHANGED <<arrived, refusals, linkLosses>>
    \/ ConnectFails

\* What mosquitto_disconnect still writes: some of the messages of the window.
Flushed == IF session # client THEN {<<>>}
           ELSE {SubSeq(outbox[client], sent + 1, n) :
                    n \in sent .. (IF Len(outbox[client]) < Inflight THEN Len(outbox[client])
                                                                   ELSE Inflight)}

\* Adds to s the messages of t that are new.
FirstSeen(s, t) ==
    LET seen == {s[i] : i \in DOMAIN s} IN s \o Picked(t, {i \in DOMAIN t : t[i] \notin seen})

\* Seeded: the pointer is not cleared.
DisconnectFault ==
    /\ live' = live \ {client}
    /\ libRefs' = libRefs - 1
    /\ connected' = FALSE
    /\ UNCHANGED <<client, outbox, session, sent, arrived, publishErrors, refusals, linkLosses>>

\* disconnect(): the loop thread is stopped first, then the client goes with
\* everything still in it.
Disconnect ==
    /\ IF client = NoClient
         THEN UNCHANGED <<live, libRefs, outbox, session, sent, arrived>>
         ELSE /\ \E t \in Flushed : arrived' = FirstSeen(arrived, t)
              /\ live' = live \ {client}
              /\ libRefs' = libRefs - 1
              /\ outbox' = [outbox EXCEPT ![client] = <<>>]
              /\ session' = IF session = client THEN NoClient ELSE session
              /\ sent' = IF session = client THEN 0 ELSE sent
    /\ client' = NoClient
    /\ connected' = FALSE
    /\ UNCHANGED <<publishErrors, refusals, linkLosses>>

----------------------------------------------------------------------------
\* External: the network threads of the clients that are alive, and the broker.
Transmit ==
    /\ session # NoClient
    /\ sent < Inflight
    /\ sent < Len(outbox[session])
    /\ sent' = sent + 1
    /\ arrived' = FirstSeen(arrived, <<outbox[session][sent + 1]>>)
    /\ UNCHANGED <<client, connected, libRefs, live, outbox, session, publishErrors,
                   refusals, linkLosses>>

Acknowledge ==
    /\ sent > 0
    /\ outbox' = [outbox EXCEPT ![session] = Tail(@)]
    /\ sent' = sent - 1
    /\ UNCHANGED <<client, connected, libRefs, live, session, arrived, publishErrors,
                   refusals, linkLosses>>

LinkLost ==
    /\ session # NoClient
    /\ failures < MaxFailures
    /\ linkLosses' = linkLosses + 1
    /\ session' = NoClient
    /\ sent' = 0
    /\ UNCHANGED <<client, connected, libRefs, live, outbox, arrived, publishErrors, refusals>>

\* A client without a link reconnects and resends; the broker drops the other.
Reconnect(h) ==
    /\ h \in live
    /\ session # h
    /\ session' = h
    /\ sent' = 0
    /\ UNCHANGED <<client, connected, libRefs, live, outbox, arrived, publishErrors,
                   refusals, linkLosses>>

Network == Transmit \/ Acknowledge \/ LinkLost \/ \E h \in Handles : Reconnect(h)
=============================================================================
