----------------------------- MODULE Connectors -----------------------------
(* The connectors through which one process hands messages to the carriers:  *)
(* src/src/connectors/smpp.service.ts (a pool of SMPP sessions, one to a     *)
(* slot) and http-provider.service.ts.  A process runs one handler to each   *)
(* dispatch topic, so that calls of the connectors interleave at each await. *)
(*                                                                           *)
(* The carrier and its wire are external: a session may fail or close at any *)
(* moment, an answer may never come, and a carrier that answers with an      *)
(* error has not taken the message.  `accepted' is the carrier's own record. *)
(* A bind that is never answered keeps its handler for ever: the code sets   *)
(* no timer for it.  An error of the wire that nobody listens to ends the    *)
(* process.  MaxLinks bounds the sessions opened.                            *)
EXTENDS Naturals, FiniteSets

CONSTANTS
    Handlers,      \* the consumers of the dispatch topics
    LinkSlots,     \* the values of getSessionKey
    MaxLinks,      \* bound: sessions ever opened
    NoLink

Links == 1..MaxLinks

ASSUME NoLinkAssumption == NoLink \notin Links

VARIABLES
    pool,          \* SmppConnectorService.sessions: slot -> session
    link,          \* each session opened: its slot, state, healthy flag and timer,
                   \* and for the properties: was another bound to its slot meanwhile
    handler,       \* each handler: what it awaits, its slot and session
    accepted,      \* whether the carrier took the handler's present message
    result         \* the DispatchResult the handler got last

connVars == <<pool, link, handler, accepted, result>>

Idling == [step |-> "idle", slot |-> NoLink, link |-> NoLink]

Unopened ==
    [slot |-> NoLink, state |-> "unopened", healthy |-> FALSE, timer |-> FALSE, beside |-> FALSE]

ConnInit ==
    /\ pool = [k \in LinkSlots |-> NoLink]
    /\ link = [c \in Links |-> Unopened]
    /\ handler = [h \in Handlers |-> Idling]
    /\ accepted = [h \in Handlers |-> FALSE]
    /\ result = [h \in Handlers |-> "none"]

Healthy(c) == c # NoLink /\ link[c].healthy

(* The dispatch of handler h ends with the result r. *)
Settle(h, r) ==
    /\ handler' = [handler EXCEPT ![h] = Idling]
    /\ result' = [result EXCEPT ![h] = r]

(* ensureSession with a healthy session in the pool. *)
Reuse(h, k) ==
    /\ handler[h].step = "idle" /\ Healthy(pool[k])
    /\ handler' = [handler EXCEPT ![h] = [step |-> "pacing", slot |-> k, link |-> pool[k]]]
    /\ accepted' = [accepted EXCEPT ![h] = FALSE]
    /\ result' = [result EXCEPT ![h] = "none"]
    /\ UNCHANGED <<pool, link>>

(* ensureSession without one: it connects, and awaits the answer to its bind. *)
Connect(h, k) ==
    /\ handler[h].step = "idle" /\ ~Healthy(pool[k])
    /\ \E c \in Links :
         /\ link[c].state = "unopened" /\ \A d \in 1..(c - 1) : link[d].state # "unopened"
         /\ link' = [link EXCEPT ![c] = [Unopened EXCEPT !.slot = k, !.state = "binding"]]
         /\ handler' = [handler EXCEPT ![h] = [step |-> "binding", slot |-> k, link |-> c]]
    /\ accepted' = [accepted EXCEPT ![h] = FALSE]
    /\ result' = [result EXCEPT ![h] = "none"]
    /\ UNCHANGED pool

(* The other sessions bound to slot k. *)
Fellows(c, k) == {d \in Links \ {c} : link[d].slot = k /\ link[d].state = "up"}

(* The bind succeeds: the timer starts, the close and error handlers are set *)
(* and the session becomes the slot's, whatever session the slot had.        *)
Bound(h) ==
    LET c == handler[h].link
        k == handler[h].slot
    IN /\ handler[h].step = "binding" /\ link[c].state = "binding"
       /\ link' = [d \in Links |->
                       IF d = c THEN [ slot |-> k, state |-> "up", healthy |-> TRUE, timer |-> TRUE,
                                       beside |-> Fellows(c, k) # {} ]
                       ELSE [link[d] EXCEPT !.beside = @ \/ d \in Fellows(c, k)]]
       /\ pool' = [pool EXCEPT ![k] = c]
       /\ handler' = [handler EXCEPT ![h].step = "pacing"]
       /\ UNCHANGED <<accepted, result>>

(* The bind is refused: ensureSession rejects, the socket stays open and no  *)
(* handler is set.                                                           *)
BindRefused(h) ==
    /\ handler[h].step = "binding"
    /\ link' = [link EXCEPT ![handler[h].link].state = "refused"]
    /\ Settle(h, "failed")
    /\ UNCHANGED <<pool, accepted>>

(* enforceLimit let the submission pass: the timer is armed and submit_sm    *)
(* called, on a session that may have been lost during the await.            *)
Submit(h) ==
    /\ handler[h].step = "pacing"
    /\ handler' = [handler EXCEPT ![h].step = "waiting"]
    /\ UNCHANGED <<pool, link, accepted, result>>

(* enforceLimit refused it, or Redis failed. *)
Paced(h) ==
    /\ handler[h].step = "pacing"
    /\ Settle(h, "failed")
    /\ UNCHANGED <<pool, link, accepted>>

(* The carrier takes the message; its answer is still under way. *)
Take(h) ==
    /\ \/ handler[h].step = "waiting" /\ link[handler[h].link].state = "up"
       \/ handler[h].step = "posting"
    /\ ~accepted[h]
    /\ accepted' = [accepted EXCEPT ![h] = TRUE]
    /\ UNCHANGED <<pool, link, handler, result>>

(* submit_sm is answered: command_status 0 is an acceptance, any other a     *)
(* refusal (88 one that may be retried).                                     *)
Answered(h) ==
    /\ handler[h].step = "waiting" /\ link[handler[h].link].state = "up"
    /\ Settle(h, IF accepted[h] THEN "accepted" ELSE "refused")
    /\ UNCHANGED <<pool, link, accepted>>

(* The result of a submission whose timer fires. *)
TimerResult == "uncertain"

(* The timer fires; an answer that comes later resolves nothing.             *)
TimedOut(h) ==
    /\ handler[h].step = "waiting"
    /\ Settle(h, TimerResult)
    /\ UNCHANGED <<pool, link, accepted>>

KeptInPool(c) == pool

(* The slot's entry is deleted, whichever session it holds by now. *)
Dropped(c) == [pool EXCEPT ![link[c].slot] = NoLink]

(* 'error' on a bound session: the entry goes; the socket may still close.   *)
Error(c) ==
    /\ link[c].state = "up"
    /\ link' = [link EXCEPT ![c].healthy = FALSE, ![c].timer = FALSE]
    /\ pool' = Dropped(c)
    /\ UNCHANGED <<handler, accepted, result>>

(* 'close' on a bound session, after an error or without one.                *)
Close(c) ==
    /\ link[c].state = "up"
    /\ link' = [link EXCEPT ![c].state = "closed", ![c].healthy = FALSE, ![c].timer = FALSE]
    /\ pool' = Dropped(c)
    /\ UNCHANGED <<handler, accepted, result>>

(* 'error' on a session to which no handler is set, since its bind is not    *)
(* answered or was refused: nothing catches it and the process ends, with    *)
(* its pool, its sessions and what its handlers were at.                     *)
Unheard(c) ==
    /\ link[c].state \in {"binding", "refused"}
    /\ pool' = [k \in LinkSlots |-> NoLink]
    /\ link' = [d \in Links |->
                    IF link[d].state = "unopened" THEN link[d]
                    ELSE [link[d] EXCEPT !.state = "closed", !.healthy = FALSE, !.timer = FALSE]]
    /\ handler' = [h \in Handlers |-> Idling]
    /\ result' = [h \in Handlers |-> "none"]
    /\ UNCHANGED accepted

(* HttpProviderService.submit: one POST, which axios ends by its timeout.    *)
Post(h) ==
    /\ handler[h].step = "idle"
    /\ handler' = [handler EXCEPT ![h] = [Idling EXCEPT !.step = "posting"]]
    /\ accepted' = [accepted EXCEPT ![h] = FALSE]
    /\ result' = [result EXCEPT ![h] = "none"]
    /\ UNCHANGED <<pool, link>>

(* A response: 2xx accepts; 429, 5xx and the others refuse.                  *)
Responded(h) ==
    /\ handler[h].step = "posting"
    /\ Settle(h, IF accepted[h] THEN "accepted" ELSE "refused")
    /\ UNCHANGED <<pool, link, accepted>>

(* No response, or the request's timeout: the outcome is uncertain.          *)
NoResponse(h) ==
    /\ handler[h].step = "posting"
    /\ Settle(h, TimerResult)
    /\ UNCHANGED <<pool, link, accepted>>

(* evaluateSessionHealth: the entries of the pool, and those still healthy.  *)
TotalSessions == Cardinality({k \in LinkSlots : pool[k] # NoLink})
HealthySessions == Cardinality({k \in LinkSlots : Healthy(pool[k])})

ConnNext ==
    \/ \E h \in Handlers : \/ \E k \in LinkSlots : Reuse(h, k) \/ Connect(h, k)
                           \/ Bound(h) \/ BindRefused(h) \/ Submit(h) \/ Paced(h)
                           \/ Take(h) \/ Answered(h) \/ TimedOut(h)
                           \/ Post(h) \/ Responded(h) \/ NoResponse(h)
    \/ \E c \in Links : Error(c) \/ Close(c) \/ Unheard(c)

ConnSpec == ConnInit /\ [][ConnNext]_connVars

-----------------------------------------------------------------------------
(* The health figure never counts a dead session: what is in the pool is     *)
(* healthy and of its slot, and only a healthy session keeps its             *)
(* enquire_link timer, although a session that closes late deletes the entry *)
(* of its successor (ensureSession, evaluateSessionHealth).                  *)
PoolIsHealthy ==
    /\ TotalSessions = HealthySessions
    /\ \A k \in LinkSlots : pool[k] # NoLink => link[pool[k]].slot = k
    /\ \A c \in Links : link[c].timer => link[c].healthy

(* A result that lets the workflow fail or retry the message is given only   *)
(* when the carrier has not taken it: a timeout, a lost session and a lost   *)
(* response are uncertain, never refusals (submitSm, HttpProviderService).   *)
RefusedMeansNotTaken ==
    \A h \in Handlers : result[h] \in {"refused", "failed"} => ~accepted[h]

(* A session that is bound and healthy is the one its slot hands out and its *)
(* health page counts, unless another was bound to the slot before this one  *)
(* was gone: then the later bind replaced it, or the other's end deleted its *)
(* entry, and its enquire_link goes on with nobody to use or close it        *)
(* (ensureSession).                                                          *)
NoneLostFromSight ==
    \A c \in Links : link[c].healthy /\ pool[link[c].slot] # c => link[c].beside

(* What a handler and the health page are told of the carriers is so: the    *)
(* three above.                                                              *)
CarriersToldTrue == PoolIsHealthy /\ RefusedMeansNotTaken /\ NoneLostFromSight
=============================================================================
