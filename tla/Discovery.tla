------------------------------ MODULE Discovery ------------------------------
(***************************************************************************)
(* The application's automatic subscription (main.c) on top of SAP         *)
(* discovery: sap_discovery_cb takes the first source it can get, makes a  *)
(* sink for it, and a source of this device's own with the same format.    *)
(* sap_rx_task calls it for every source it discovers; app_main, which     *)
(* registers it when the node already runs, for those that were discovered *)
(* before.  Nothing keeps the two tasks apart, or one from asking for a    *)
(* sink while the other makes one.                                         *)
(***************************************************************************)
EXTENDS SapRemote

CONSTANT None  \* no source

ASSUME DiscoveryAssumption == None \notin Keys

VARIABLES
  app,     \* app_main: [at, i, n], the loop over the n remote sources it counted
  cb,      \* sap_discovery_cb in each task: [at, key]
  sinks,   \* how many sinks it added
  ptime,   \* packet_time_us of the session, by the source it was taken from,
           \* None when no callback is about to use it
  matched, \* history: every source added has the packet time of its sink
  overlapped, \* history: the callback found no sink while it made one in the other task
  offered  \* history: what it was called for while there is no sink, and what
           \* slid past the loop in app_main when another source was removed

appVars == <<app, cb, sinks, ptime, matched, overlapped, offered>>
allVars == <<vars, appVars>>

Tasks == {"sap_rx", "app_main"}
Idle  == [at |-> "idle", key |-> None]

DiscoveryInit ==
  /\ Init
  /\ app = [at |-> "starting", i |-> 1, n |-> 0]
  /\ cb = [t \in Tasks |-> Idle]
  /\ sinks = 0 /\ ptime = None
  /\ matched = TRUE /\ overlapped = FALSE
  /\ offered = {}

------------------------------------------------------------------------------
(* A definition whose name extends the name of the one that follows it is  *)
(* a mutant of it: the bug that a property below must notice.              *)

s_sink_addedAtTheEnd == sinks > 0 /\ \A t \in Tasks : cb[t].at \notin {"set", "source"}
s_sink_added         == sinks > 0

(* sap_discovery_cb: nothing if there is a sink, or none was asked for ... *)
Called(t, k) ==
  /\ cb' = IF s_sink_added THEN cb ELSE [cb EXCEPT ![t] = [at |-> "add", key |-> k]]
  /\ overlapped' = (overlapped \/ (~s_sink_added /\ \E u \in Tasks \ {t} : cb[u].at = "add"))

(* ... aes67_session_add_sink, which may fail: the source is not tried     *)
(* again.  So may aes67_session_get_sink, for its format ...               *)
Fails(t) ==
  /\ cb[t].at \in {"add", "set"}
  /\ cb' = [cb EXCEPT ![t] = Idle]
  /\ UNCHANGED <<vars, app, sinks, ptime, matched, overlapped, offered>>

AddSink(t) ==
  /\ cb[t].at = "add"
  /\ cb' = [cb EXCEPT ![t].at = "set"]
  /\ sinks' = sinks + 1
  /\ offered' = {}
  /\ UNCHANGED <<vars, app, ptime, matched, overlapped>>

(* ... aes67_session_set_packet_time ... *)
SetPacketTime(t) ==
  /\ cb[t].at = "set"
  /\ cb' = [cb EXCEPT ![t].at = "source"]
  /\ ptime' = cb[t].key
  /\ UNCHANGED <<vars, app, sinks, matched, overlapped, offered>>

(* ... and aes67_session_add_source, which may fail as well. *)
AddOwnSource(t) ==
  /\ cb[t].at = "source"
  /\ cb' = [cb EXCEPT ![t] = Idle]
  /\ matched' \in {matched, matched /\ ptime = cb[t].key}
  /\ ptime' = IF \E u \in Tasks \ {t} : cb[u].at = "source" THEN ptime ELSE None
  /\ UNCHANGED <<vars, app, sinks, overlapped, offered>>

------------------------------------------------------------------------------
(* What a change of the table means to those that have no sink yet: app is *)
(* at its entry i next, those that were at i or above and are below it now *)
(* will not be looked at.                                                  *)
SlidPast ==
  IF app.at # "loop" THEN {}
  ELSE {k \in KnownKeys : \E i \in DOMAIN remote, j \in DOMAIN remote' :
          remote[i].key = k /\ remote'[j].key = k /\ i >= app.i /\ j < app.i}

Offered(ks) ==
  offered' = IF s_sink_added THEN {} ELSE ((offered \cup SlidPast) \cap KnownKeys') \cup ks

Discovered == {k \in Keys : balance'[k] > balance[k]}

RegisteredLate == app.at = "done"

Registered == app.at # "starting"

(* sap_rx_task calls the callback, if it is registered, for what it        *)
(* discovered; the callback ignores what was lost.                         *)
SapRx ==
  /\ cb["sap_rx"] = Idle
  /\ RxPacket \/ RxTimeout
  /\ IF ~Registered \/ Discovered = {}
     THEN Offered({}) /\ UNCHANGED <<cb, overlapped>>
     ELSE \E k \in Discovered : Called("sap_rx", k) /\ Offered({k})
  /\ UNCHANGED <<app, sinks, ptime, matched>>

(* app_main: aes67_sap_register_cb, aes67_sap_get_remote_count ... *)
Register ==
  /\ app.at = "starting"
  /\ app' = [app EXCEPT !.at = "registered"]
  /\ UNCHANGED <<vars, cb, sinks, ptime, matched, overlapped, offered>>

GetRemoteCount ==
  /\ app.at = "registered"
  /\ app' = [app EXCEPT !.at = "loop", !.n = Len(remote)]
  /\ UNCHANGED <<vars, cb, sinks, ptime, matched, overlapped, offered>>

(* ... and aes67_sap_get_remote for each, which may not be there any more. *)
GetRemote ==
  /\ app.at = "loop" /\ cb["app_main"] = Idle
  /\ app.i <= app.n /\ ~s_sink_added
  /\ app' = [app EXCEPT !.i = @ + 1]
  /\ IF app.i <= Len(remote)
     THEN /\ Called("app_main", remote[app.i].key)
          /\ offered' = offered \cup {remote[app.i].key}
     ELSE UNCHANGED <<cb, overlapped, offered>>
  /\ UNCHANGED <<vars, sinks, ptime, matched>>

LoopEnds ==
  /\ app.at = "loop" /\ cb["app_main"] = Idle
  /\ app.i > app.n \/ s_sink_added
  /\ app' = [at |-> "done", i |-> 1, n |-> 0]
  /\ UNCHANGED <<vars, cb, sinks, ptime, matched, overlapped, offered>>

(* The network shares nothing with the callback and the loop, so that what *)
(* it does, and the other nodes, can be put off to when both tasks wait;   *)
(* what is in the socket may be received meanwhile.  app_main is through   *)
(* before the first unit of time is over, as it waits for nothing between  *)
(* the start of the node and the end of the loop.                          *)
Waiting == (\A t \in Tasks : cb[t] = Idle) /\ app.at \in {"starting", "done"}

TimePasses ==
  /\ Waiting /\ app.at = "done"
  /\ Tick
  /\ UNCHANGED appVars

Network ==
  /\ Waiting
  /\ \/ \E k \in Keys : AddSource(k) \/ RemoveSource(k)
     \/ \E n \in Nodes : TxRound(n)
  /\ UNCHANGED appVars

DiscoveryNext ==
  \/ SapRx
  \/ \E t \in Tasks : Fails(t) \/ AddSink(t) \/ SetPacketTime(t) \/ AddOwnSource(t)
  \/ Register \/ GetRemoteCount \/ GetRemote \/ LoopEnds
  \/ TimePasses
  \/ Network

DiscoverySpec == DiscoveryInit /\ [][DiscoveryNext]_allVars

------------------------------------------------------------------------------
(* No source is missed around the registration: as long as there is no     *)
(* sink, the callback was called for every source in the table, by one     *)
(* task or the other, but for one that slid past the loop (main.c: "Check  *)
(* if any sources were already discovered before callback was registered").*)
NoneIsMissed ==
  app.at = "done" /\ ~s_sink_added => KnownKeys \subseteq offered

(* The first source wins: there is one sink at most, and while there is    *)
(* one, the source of this device has its packet time, whichever task      *)
(* discovers which source first and whatever fails (main.c: "first one     *)
(* wins", "Create a matching source with same codec/channels/ptime").      *)
(* Unless the callback found no sink while it made one in the other task:  *)
(* s_sink_added is set too late for that, and two sources win.             *)
FirstOneWins ==
  /\ ~overlapped => sinks <= 1
  /\ sinks <= 1 => matched
  /\ sinks <= 2
=============================================================================
