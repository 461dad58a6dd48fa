----------------------------- MODULE Subscriber -----------------------------
(***************************************************************************)
(* A client's subscriptions over one RabbitMQ connection that may drop:    *)
(* Subscribe with its stop goroutine, Unsubscribe, the redo log, and the   *)
(* rerun goroutine of every connection, which reconnects and recovers.     *)
(*                                                                         *)
(* Subscribe is three steps (open the channel, log it, ask to be notified  *)
(* of the end of the connection), and it is run by users and by recover    *)
(* alike; s.conn is read anew in the first and the third.                  *)
(*                                                                         *)
(* The amqp library tells the goroutines that a connection has ended one   *)
(* by one, in the order they asked, waiting for each to receive: behind    *)
(* one that has returned nobody is told, and whoever uses the connection   *)
(* waits too (its mutex is held).                                          *)
(***************************************************************************)
EXTENDS Naturals, Sequences

CONSTANTS
    Subs,       \* subscriptions, each with its exchange, handler and stop channel
    MaxRetry,   \* maxRetry
    MaxDrops,   \* bound: connections lost
    Stoppable,  \* bound: the subscriptions that may be cancelled
    Late        \* bound: the subscriptions that may be made after a drop

Epochs == 1..(MaxDrops + 1)

ASSUME SubscriberAssumption ==
    /\ MaxRetry \in Nat \ {0} /\ MaxDrops \in Nat /\ Late \subseteq Subs /\ Stoppable \subseteq Subs
    /\ Subs \cap Epochs = {}

Callers == Subs \cup Epochs    \* a user's call of Subscribe, or that of a rerun goroutine
NoConn == 0
Free == 0

VARIABLES
    want,       \* [Subs -> "no", "asked", "on", "refused", "stopped"]
    conn,       \* s.conn: which connection, NoConn after a Dial that failed
    up,         \* it has not dropped
    dials,      \* connections made
    rerun,      \* [Epochs -> "none", "wait", "retry", "lock", "recover", "done", "gaveup"]
    tries,      \* Dials that failed in a row
    mtxRecover, \* its holder
    todo,       \* recover's redoCopy: what is left of it
    redoLogs,   \* [slots in use -> Subs]
    nextSlot,
    call,       \* [Callers -> the call of Subscribe in progress]
    live,       \* [Subs -> channels open on the connection: messages reach the handler]
    closes,     \* [Epochs -> the stop goroutines to be notified, whether they wait or not]
    lost,       \* history: subscriptions a refused call, a reused slot or a late log entry lost
    doubled,    \* history: subscriptions recover took from the log though they were live
    crashed     \* the process used a nil connection

logVars == <<redoLogs, nextSlot>>
connVars == <<conn, up, dials, tries>>
vars == <<want, connVars, rerun, mtxRecover, todo, logVars, call, live, closes, lost, doubled,
          crashed>>

Idle == [pc |-> "idle"]
\* A stop goroutine of the subscription, and what is left of one that has returned; `told`
\* means that it asked a connection that had ended already, and nobody waits for it.
Stopper(s, slot, on, told) ==
    [sub |-> s, slot |-> slot, on |-> on, waits |-> TRUE, told |-> told]
Returned(told) == [waits |-> FALSE, told |-> told]

\* NewSubscriber.
Init ==
    /\ want = [s \in Subs |-> "no"]
    /\ conn = 1 /\ up = TRUE /\ dials = 1 /\ tries = 0
    /\ rerun = [e \in Epochs |-> IF e = 1 THEN "wait" ELSE "none"]
    /\ mtxRecover = Free /\ todo = {} /\ redoLogs = <<>> /\ nextSlot = 0
    /\ call = [t \in Callers |-> Idle] /\ live = [s \in Subs |-> 0]
    /\ closes = [e \in Epochs |-> <<>>]
    /\ lost = {} /\ doubled = {} /\ crashed = FALSE

-----------------------------------------------------------------------------
(* The amqp connection.                                                    *)

Dropped(e) == e # conn \/ ~up

\* Everyone who asked to be notified has been: the mutex of the connection is free.
ShutDown(e) ==
    Dropped(e) /\ rerun[e] # "wait" /\ \A i \in DOMAIN closes[e] : closes[e][i].told

\* The next to be notified has returned: the mutex will not be released.
Wedged(e) ==
    Dropped(e) /\ closes[e] # <<>> /\ ~Head(closes[e]).waits /\ ~Head(closes[e]).told

ConnectionDrops ==
    /\ up /\ dials <= MaxDrops
    /\ up' = FALSE /\ live' = [s \in Subs |-> 0]
    /\ UNCHANGED <<want, conn, dials, tries, rerun, mtxRecover, todo, logVars, call, closes, lost,
                   doubled, crashed>>

\* The stop goroutine receives from stopConnectionCh and returns.
Notified(e) ==
    /\ Dropped(e) /\ rerun[e] # "wait" /\ closes[e] # <<>>
    /\ Head(closes[e]).waits \/ Head(closes[e]).told
    /\ closes' = [closes EXCEPT ![e] = Tail(@)]
    /\ UNCHANGED <<want, connVars, rerun, mtxRecover, todo, logVars, call, live, lost, doubled,
                   crashed>>

-----------------------------------------------------------------------------
(* Subscribe, by the caller t.                                             *)

Crash == crashed' = TRUE /\ UNCHANGED <<call, live, logVars, closes>>

\* conn.Channel and what follows up to Consume.
Open(t, s) ==
    /\ call[t] = Idle
    /\ \/ conn = NoConn /\ Crash
       \/ /\ conn # NoConn
          /\ call' = [call EXCEPT ![t] =
                 [pc |-> IF up THEN "opened" ELSE "refused", sub |-> s, on |-> conn]]
          /\ live' = IF up THEN [live EXCEPT ![s] = @ + 1] ELSE live
          /\ UNCHANGED <<logVars, closes, crashed>>

\* Mutant: recover's subscriptions are not logged again.
LogForUsers(t) ==
    /\ call[t].pc = "opened"
    /\ redoLogs' = IF t \in Epochs THEN redoLogs
                   ELSE [i \in DOMAIN redoLogs \cup {nextSlot} |->
                            IF i = nextSlot THEN call[t].sub ELSE redoLogs[i]]
    /\ nextSlot' = nextSlot + 1
    /\ call' = [call EXCEPT ![t] = [pc |-> "logged", sub |-> @.sub, on |-> @.on, slot |-> nextSlot]]
    /\ UNCHANGED <<live, closes, crashed>>

Log(t) ==
    /\ call[t].pc = "opened"
    /\ redoLogs' = [i \in DOMAIN redoLogs \cup {nextSlot} |->
                       IF i = nextSlot THEN call[t].sub ELSE redoLogs[i]]
    /\ nextSlot' = nextSlot + 1
    /\ call' = [call EXCEPT ![t] = [pc |-> "logged", sub |-> @.sub, on |-> @.on, slot |-> nextSlot]]
    /\ UNCHANGED <<live, closes, crashed>>

\* Subscribe returns; recover only prints an error.
Return(t, ok) ==
    /\ call' = [call EXCEPT ![t] = Idle]
    /\ IF t \in Subs
          THEN want' = [want EXCEPT ![t] = IF ok THEN "on" ELSE "refused"] /\ UNCHANGED lost
          ELSE /\ lost' = IF ok THEN lost ELSE lost \cup {call[t].sub}
               /\ UNCHANGED want

\* Mutant: recover's subscriptions get no stop goroutine.
NotifyCloseForUsers(t) ==
    /\ call[t].pc = "logged"
    /\ \/ conn = NoConn /\ Crash /\ UNCHANGED <<want, lost>>
       \/ /\ conn # NoConn /\ up
          /\ closes' = IF t \in Epochs THEN closes
                       ELSE [closes EXCEPT ![conn] =
                                Append(@, Stopper(call[t].sub, call[t].slot, call[t].on, FALSE))]
          /\ Return(t, TRUE)
          /\ UNCHANGED <<live, logVars, crashed>>

\* conn.NotifyClose and the stop goroutine; on a connection that has ended the caller waits
\* for its mutex.
NotifyClose(t) ==
    /\ call[t].pc = "logged"
    /\ \/ conn = NoConn /\ Crash /\ UNCHANGED <<want, lost>>
       \/ /\ conn # NoConn /\ up
          /\ closes' = [closes EXCEPT ![conn] =
                 Append(@, Stopper(call[t].sub, call[t].slot, call[t].on, FALSE))]
          /\ Return(t, TRUE)
          /\ UNCHANGED <<live, logVars, crashed>>
       \/ /\ conn # NoConn /\ ~up
          /\ call' = [call EXCEPT ![t] = [pc |-> "late", sub |-> @.sub, on |-> conn,
                                              slot |-> @.slot]]
          /\ UNCHANGED <<want, live, logVars, closes, lost, crashed>>

\* The mutex of the connection is free.  The stop goroutine of a late call is told at once and
\* returns, unless its select takes the other branch because stopChannelCh is closed too.
Unblocked(t) ==
    /\ call[t].pc \in {"late", "refused"} /\ ShutDown(call[t].on)
    /\ Return(t, call[t].pc = "late")
    /\ \/ UNCHANGED closes
       \/ /\ call[t].pc = "late" /\ want[call[t].sub] = "stopped"
          /\ closes' = [closes EXCEPT ![call[t].on] =
                 Append(@, Stopper(call[t].sub, call[t].slot, call[t].on, TRUE))]
    /\ UNCHANGED <<live, logVars, crashed>>

SubscribeStep(t) ==
    /\ (Log(t) /\ UNCHANGED <<want, lost>>) \/ NotifyClose(t) \/ Unblocked(t)
    /\ UNCHANGED <<connVars, rerun, mtxRecover, todo, doubled>>

-----------------------------------------------------------------------------
(* The user.                                                               *)

Subscribe(s) ==
    /\ want[s] = "no" /\ (s \in Late \/ (conn = 1 /\ up))
    /\ Open(s, s)
    /\ want' = [want EXCEPT ![s] = "asked"]
    /\ UNCHANGED <<connVars, rerun, mtxRecover, todo, lost, doubled>>

Unsubscribe(s) ==
    /\ want[s] = "on" /\ mtxRecover = Free /\ s \in Stoppable
    /\ want' = [want EXCEPT ![s] = "stopped"]
    /\ UNCHANGED <<connVars, rerun, mtxRecover, todo, logVars, call, live, closes, lost, doubled,
                   crashed>>

SlotDeleted(slot) == [i \in DOMAIN redoLogs \ {slot} |-> redoLogs[i]]

\* The stop goroutine receives from stopChannelCh: it deletes the slot it was given, whoever has
\* it now, and closes its channel.
Stop(e, i) ==
    LET stop == closes[e][i]
    IN  /\ stop.waits /\ want[stop.sub] = "stopped"
        /\ closes' = [closes EXCEPT ![e][i] = Returned(stop.told)]
        /\ redoLogs' = SlotDeleted(stop.slot)
        /\ live' = IF Dropped(stop.on) THEN live ELSE [live EXCEPT ![stop.sub] = @ - 1]
        /\ lost' = IF stop.slot \in DOMAIN redoLogs /\ redoLogs[stop.slot] # stop.sub
                      THEN lost \cup {redoLogs[stop.slot]} ELSE lost
        /\ UNCHANGED <<want, connVars, rerun, mtxRecover, todo, nextSlot, call, doubled, crashed>>

-----------------------------------------------------------------------------
(* rerun, reconnect and recover, for the connection e.                     *)

Retries(e) == rerun[e] = "retry" \/ (rerun[e] = "wait" /\ Dropped(e))

Dial(e) ==
    /\ Retries(e)
    /\ dials' = dials + 1 /\ conn' = dials' /\ up' = TRUE /\ tries' = 0
    /\ rerun' = [rerun EXCEPT ![e] = "lock", ![dials'] = "wait"]
    /\ UNCHANGED <<want, mtxRecover, todo, logVars, call, live, closes, lost, doubled, crashed>>

DialFails(e) ==
    /\ Retries(e)
    /\ conn' = NoConn /\ up' = FALSE /\ tries' = tries + 1
    /\ rerun' = [rerun EXCEPT ![e] = IF tries' = MaxRetry THEN "gaveup" ELSE "retry"]
    /\ UNCHANGED <<want, dials, mtxRecover, todo, logVars, call, live, closes, lost, doubled, crashed>>

\* Mutant: the old log is kept while its entries are logged again.
KeepLog == nextSlot' = 0 /\ UNCHANGED redoLogs

EmptyLog == redoLogs' = <<>> /\ nextSlot' = 0

\* recover takes the log.  History: a call whose connection has gone and that has not logged
\* itself yet is in nobody's copy.
RecoverLocks(e) ==
    /\ rerun[e] = "lock" /\ mtxRecover = Free
    /\ mtxRecover' = e /\ rerun' = [rerun EXCEPT ![e] = "recover"]
    /\ todo' = {<<i, redoLogs[i]>> : i \in DOMAIN redoLogs}
    /\ EmptyLog
    /\ lost' = lost \cup {call[t].sub :
                  t \in {u \in Callers : call[u].pc = "opened" /\ Dropped(call[u].on)}}
    /\ doubled' = doubled \cup {redoLogs[i] : i \in {j \in DOMAIN redoLogs :
                                                    live[redoLogs[j]] > 0}}
    /\ UNCHANGED <<want, connVars, call, live, closes, crashed>>

RecoverNext(e) ==
    /\ rerun[e] = "recover"
    /\ \E r \in todo : Open(e, r[2]) /\ todo' = todo \ {r}
    /\ UNCHANGED <<want, connVars, rerun, mtxRecover, lost, doubled>>

RecoverEnds(e) ==
    /\ rerun[e] = "recover" /\ todo = {} /\ call[e] = Idle
    /\ mtxRecover' = Free /\ rerun' = [rerun EXCEPT ![e] = "done"]
    /\ UNCHANGED <<want, connVars, todo, logVars, call, live, closes, lost, doubled, crashed>>

-----------------------------------------------------------------------------
Step(t) == ~crashed /\ SubscribeStep(t)
User(s) == ~crashed /\ (Subscribe(s) \/ Unsubscribe(s))
StopGoroutine(e) == ~crashed /\ \E i \in DOMAIN closes[e] : Stop(e, i)
Rerun(e) ==
    /\ ~crashed
    /\ \/ Dial(e) \/ DialFails(e)
       \/ RecoverLocks(e) \/ RecoverNext(e) \/ RecoverEnds(e)
Broker == ~crashed /\ (ConnectionDrops \/ \E e \in Epochs : Notified(e))

Next ==
    \/ \E t \in Callers : Step(t)
    \/ \E s \in Subs : User(s)
    \/ \E e \in Epochs : Rerun(e) \/ StopGoroutine(e)
    \/ Broker

\* Goroutines run (recover's calls of Subscribe are part of the rerun goroutine); only the
\* user's next call, the drop of the connection and the outcome of a Dial are up to the
\* environment.
Fairness ==
    /\ \A s \in Subs : WF_vars(Step(s))
    /\ \A e \in Epochs : WF_vars(Rerun(e) \/ Step(e)) /\ WF_vars(StopGoroutine(e))
                           /\ WF_vars(~crashed /\ Notified(e))

Spec == Init /\ [][Next]_vars
FairSpec == Spec /\ Fairness

-----------------------------------------------------------------------------
\* Every variable has its type.
TypeOK ==
    /\ want \in [Subs -> {"no", "asked", "on", "refused", "stopped"}]
    /\ conn \in Epochs \cup {NoConn} /\ up \in BOOLEAN /\ dials \in Epochs /\ tries \in 0..MaxRetry
    /\ rerun \in [Epochs -> {"none", "wait", "retry", "lock", "recover", "done", "gaveup"}]
    /\ mtxRecover \in Epochs \cup {Free}
    /\ \A i \in DOMAIN redoLogs : i < nextSlot /\ redoLogs[i] \in Subs
    /\ live \in [Subs -> Nat]
    /\ lost \subseteq Subs /\ doubled \subseteq Subs

Redone(s) == (\E i \in DOMAIN redoLogs : redoLogs[i] = s) \/ (\E r \in todo : r[2] = s)
Calling(s) == \E t \in Callers : call[t] # Idle /\ call[t].sub = s

\* The redo log forgets nobody: a subscription in use is in the log, in the copy recover works on
\* or in a call of Subscribe, so that the next reconnection brings it back; unless recover's
\* Subscribe was refused or a late stop goroutine deleted the slot after it was given anew.
LogIsComplete ==
    ~crashed => \A s \in Subs : want[s] = "on" => Redone(s) \/ Calling(s) \/ s \in lost

\* A message is handled once: a subscription has at most one open channel, unless it was made on
\* the new connection before recover took the log (by a user, or by the recover of the
\* connection before).
OneChannel ==
    \A s \in Subs : live[s] > 1 => s \in doubled

\* A Subscribe, recover's or a user's, waits for the mutex of a connection that is wedged.
Stuck == \E t \in Callers : call[t].pc \in {"late", "refused"} /\ Wedged(call[t].on)

Settled == conn # NoConn /\ up /\ ~crashed /\ ~Stuck

\* A subscription that survives the drops is live again once the connection stays, however
\* many stop goroutines of older connections are left; except when a call of Subscribe, and
\* recover with it, waits for ever on a wedged connection (a stop goroutine returned before
\* the connection ended, and the library waits for it while it holds the mutex).
Resumed ==
    \A s \in Subs : (<>[](Settled /\ want[s] = "on" /\ s \notin lost)) => <>[](live[s] > 0)

\* Unsubscribe wins over every reconnection, before and after it: once the connection stays, the
\* handler is not called any more and the log has no entry that the next recover could bring
\* back, whichever of the stop goroutines of old and new connections ran first (subscriber.go:
\* 142-155); except when a call of Subscribe waits for ever on a wedged connection.
StopWins ==
    \A s \in Subs : (<>[](Settled /\ want[s] = "stopped"))
        => <>[](live[s] = 0 /\ ~Redone(s))

=============================================================================
