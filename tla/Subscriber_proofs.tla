-------------------------- MODULE Subscriber_proofs --------------------------
(***************************************************************************)
(* The redo log of the subscriber, for any subscriptions, retries, drops   *)
(* of the connection and stops: it forgets nobody, and nobody gets a       *)
(* second channel that recover did not open on a live one.                 *)
(***************************************************************************)
EXTENDS Subscriber, Integers, TLAPS

-----------------------------------------------------------------------------
(* The invariant.                                                          *)

Calls ==
    {Idle} \cup [pc : {"opened", "refused"}, sub : Subs, on : Epochs]
           \cup [pc : {"logged", "late"}, sub : Subs, on : Epochs, slot : Nat]
Stops ==
    [waits : {FALSE}, told : BOOLEAN]
       \cup [sub : Subs, slot : Nat, on : Epochs, waits : {TRUE}, told : BOOLEAN]
States == {"none", "wait", "retry", "lock", "recover", "done", "gaveup"}

ConnType ==
    /\ conn \in Epochs \cup {NoConn} /\ up \in BOOLEAN /\ dials \in Epochs /\ tries \in 0..MaxRetry
    /\ rerun \in [Epochs -> States] /\ mtxRecover \in Epochs \cup {Free} /\ crashed \in BOOLEAN
LogType ==
    /\ nextSlot \in Nat /\ todo \subseteq Nat \X Subs
    /\ \A i \in DOMAIN redoLogs : i \in Nat /\ i < nextSlot /\ redoLogs[i] \in Subs
CallType ==
    /\ want \in [Subs -> {"no", "asked", "on", "refused", "stopped"}]
    /\ call \in [Callers -> Calls] /\ closes \in [Epochs -> Seq(Stops)]
    /\ live \in [Subs -> Int] /\ lost \subseteq Subs /\ doubled \subseteq Subs

\* The connection in use is the last one made; only its rerun goroutine waits for its end or
\* dials.  Until the last drop the model allows there is one more connection to make.
OneDialer ==
    /\ conn \in {NoConn, dials} /\ (conn = NoConn => ~up) /\ (~up => dials <= MaxDrops)
    /\ \A e \in Epochs : rerun[e] = "wait" => e = conn /\ tries = 0
    /\ \A e \in Epochs : rerun[e] = "retry" => e = dials /\ conn = NoConn /\ tries < MaxRetry
TypeInv == ConnType /\ LogType /\ CallType /\ OneDialer

\* mtxRecover is held by the goroutine that recovers, and only it has a copy of the log.
OneRecovers ==
    /\ \A e \in Epochs : rerun[e] = "recover" => mtxRecover = e
    /\ mtxRecover = Free => todo = {}

\* A user's call is for his own subscription, which he waits for.
UsersCall ==
    /\ \A s \in Subs : call[s] # Idle => want[s] = "asked" /\ call[s].sub = s

\* The subscription is in the log or in recover's copy, recover has not yet logged it again, or
\* it is lost.
Covered(s) ==
    \/ Redone(s) \/ s \in lost
    \/ \E e \in Epochs : call[e].pc \in {"opened", "refused"} /\ call[e].sub = s

\* A subscription in use, and one that is about to be, is covered.
AllCovered ==
    \A s \in Subs : want[s] = "on" \/ (want[s] = "asked" /\ call[s].pc \in {"logged", "late"})
                       => Covered(s)
LogInv == OneRecovers /\ UsersCall /\ (~crashed => AllCovered)

\* The call has not logged its subscription yet.
Unlogged(t) == call[t].pc \in {"opened", "refused"}

\* A subscription has one place at most: one slot of the log, one entry of recover's copy, or
\* one call that has not logged it.
OnePlace ==
    /\ \A i, j \in DOMAIN redoLogs : redoLogs[i] = redoLogs[j] => i = j
    /\ \A r, q \in todo : r[2] = q[2] => r = q
    /\ \A t, u \in Callers : Unlogged(t) /\ Unlogged(u) /\ call[t].sub = call[u].sub => t = u
    /\ \A i \in DOMAIN redoLogs, r \in todo : redoLogs[i] # r[2]
    /\ \A i \in DOMAIN redoLogs, t \in Callers : Unlogged(t) => redoLogs[i] # call[t].sub
    /\ \A r \in todo, t \in Callers : Unlogged(t) => r[2] # call[t].sub

\* A subscription nobody asked for has no place and no channel.
Unasked ==
    \A s \in Subs : want[s] = "no" =>
       /\ live[s] <= 0 /\ ~Redone(s)
       /\ \A t \in Callers : Unlogged(t) => call[t].sub # s

\* What recover has still to open has no channel, unless it had one when recover took the log.
CopyIsDead == \A r \in todo : live[r[2]] <= 0 \/ r[2] \in doubled
ChannelInv == OnePlace /\ Unasked /\ CopyIsDead /\ OneChannel

-----------------------------------------------------------------------------
(* Steps.                                                                  *)

\* Next, step by step.
LEMMA NextSteps ==
    ASSUME [Next]_vars
    PROVE  \/ UNCHANGED vars
           \/ \E t \in Callers : SubscribeStep(t)
           \/ \E s \in Subs : Subscribe(s) \/ Unsubscribe(s)
           \/ \E e \in Epochs : \/ Dial(e) \/ DialFails(e)
                                \/ RecoverLocks(e) \/ RecoverNext(e) \/ RecoverEnds(e)
           \/ \E e \in Epochs : \E i \in DOMAIN closes[e] : Stop(e, i)
           \/ ConnectionDrops \/ \E e \in Epochs : Notified(e)
BY DEF Next, Step, User, Rerun, StopGoroutine, Broker

\* What the constants are: callers are users or goroutines of connections, never both.
LEMMA Constants ==
    /\ MaxDrops \in Nat /\ MaxRetry \in Nat /\ MaxRetry > 0
    /\ Subs \cap Epochs = {} /\ Callers = Subs \cup Epochs
    /\ Epochs \subseteq Nat \ {0} /\ 1 \in Epochs /\ NoConn = 0 /\ Free = 0
BY SubscriberAssumption DEF Epochs, Callers, NoConn, Free

\* A call that is not idle has a subscription and a connection; a logged one has its slot.
LEMMA CallFields ==
    ASSUME NEW c \in Calls
    PROVE  /\ c = Idle \/ c.pc \in {"opened", "refused", "late", "logged"}
           /\ Idle.pc = "idle"
           /\ c # Idle => c.sub \in Subs /\ c.on \in Epochs
           /\ c.pc \in {"logged", "late"} => c.slot \in Nat
BY DEF Calls, Idle

\* Opening a channel: the process ends, or the call has begun and its subscription has at most
\* one channel more.
Begins(t, s) ==
    /\ call[t] = Idle /\ UNCHANGED <<logVars, closes>>
    /\ call' \in [Callers -> Calls] /\ live' \in [Subs -> Int]
    /\ \/ crashed' = TRUE /\ UNCHANGED <<call, live>>
       \/ /\ UNCHANGED crashed
          /\ \A u \in Callers \ {t} : call'[u] = call[u]
          /\ call'[t].pc \in {"opened", "refused"} /\ call'[t].sub = s /\ call'[t] # Idle
          /\ \A v \in Subs \ {s} : live'[v] = live[v]
          /\ live'[s] = live[s] \/ live'[s] = live[s] + 1

\* Open begins a call.
LEMMA OpenBegins ==
    ASSUME TypeInv, NEW t \in Callers, NEW s \in Subs, Open(t, s)
    PROVE  Begins(t, s)
<1> USE DEF TypeInv, CallType
<1>1. CASE conn = NoConn
  BY <1>1 DEF Open, Crash, Begins
<1>2. CASE conn # NoConn
  <2> DEFINE c == [pc |-> IF up THEN "opened" ELSE "refused", sub |-> s, on |-> conn]
  <2>1. c \in Calls /\ c.pc \in {"opened", "refused"} /\ c.sub = s /\ c # Idle
    BY <1>2, Constants DEF Calls, ConnType, Idle
  <2> HIDE DEF c
  <2>2. call' = [call EXCEPT ![t] = c] /\ UNCHANGED <<logVars, closes, crashed>> /\ call[t] = Idle
    BY <1>2 DEF Open, c
  <2>3. live' = IF up THEN [live EXCEPT ![s] = @ + 1] ELSE live
    BY <1>2 DEF Open
  <2>4. live' \in [Subs -> Int] /\ (\A v \in Subs \ {s} : live'[v] = live[v])
          /\ (live'[s] = live[s] \/ live'[s] = live[s] + 1)
    BY <2>3
  <2> QED BY <2>1, <2>2, <2>4 DEF Begins
<1> QED BY <1>1, <1>2

\* The log entry of a call.
Logs(t) ==
    /\ call[t].pc = "opened" /\ call[t].sub \in Subs /\ call' \in [Callers -> Calls]
    /\ \A u \in Callers \ {t} : call'[u] = call[u]
    /\ call'[t].pc = "logged" /\ call'[t].sub = call[t].sub /\ call[t] # Idle
    /\ nextSlot' = nextSlot + 1 /\ nextSlot \notin DOMAIN redoLogs
    /\ DOMAIN redoLogs' = DOMAIN redoLogs \cup {nextSlot}
    /\ redoLogs'[nextSlot] = call[t].sub
    /\ \A i \in DOMAIN redoLogs : redoLogs'[i] = redoLogs[i]
    /\ UNCHANGED <<live, closes, crashed, want, lost>>

\* Log adds the entry in a slot that was free.
LEMMA LogLogs ==
    ASSUME TypeInv, NEW t \in Callers, Log(t), UNCHANGED <<want, lost>>
    PROVE  Logs(t)
<1> USE DEF TypeInv, CallType, LogType
<1> DEFINE c == [pc |-> "logged", sub |-> call[t].sub, on |-> call[t].on, slot |-> nextSlot]
<1>1. call[t] \in Calls /\ call[t].pc = "opened"
  BY DEF Log
<1>2. call[t] # Idle /\ call[t].sub \in Subs /\ call[t].on \in Epochs
  BY <1>1, CallFields
<1>3. c \in Calls /\ c.pc = "logged" /\ c.sub = call[t].sub
  BY <1>2 DEF Calls
<1>4. call' = [call EXCEPT ![t] = c]
  BY DEF Log
<1> HIDE DEF c
<1>5. nextSlot \notin DOMAIN redoLogs
  OBVIOUS
<1> QED BY <1>1, <1>2, <1>3, <1>4, <1>5 DEF Log, Logs

\* The end of a call: a user learns how it went, recover prints what failed.
Ends(t, ok) ==
    /\ call[t] # Idle /\ call[t].sub \in Subs
    /\ call' \in [Callers -> Calls] /\ call'[t] = Idle
    /\ \A u \in Callers \ {t} : call'[u] = call[u]
    /\ want' \in [Subs -> {"no", "asked", "on", "refused", "stopped"}]
    /\ lost \subseteq lost' /\ lost' \subseteq Subs
    /\ \A s \in Subs \ {t} : want'[s] = want[s]
    /\ t \in Subs => want'[t] = IF ok THEN "on" ELSE "refused"
    /\ t \in Epochs /\ ~ok => call[t].sub \in lost'
    /\ UNCHANGED <<live, logVars, crashed>>

\* Return ends a call.
LEMMA ReturnEnds ==
    ASSUME TypeInv, NEW t \in Callers, NEW ok \in BOOLEAN, call[t] # Idle, Return(t, ok),
           UNCHANGED <<live, logVars, crashed>>
    PROVE  Ends(t, ok)
<1> USE DEF TypeInv, CallType
<1>1. call[t] \in Calls /\ call[t].sub \in Subs /\ Idle \in Calls
  BY CallFields DEF Calls
<1>2. call' = [call EXCEPT ![t] = Idle]
  BY DEF Return
<1>3. CASE t \in Subs
  <2>1. want' = [want EXCEPT ![t] = IF ok THEN "on" ELSE "refused"] /\ lost' = lost
    BY <1>3 DEF Return
  <2>2. want' \in [Subs -> {"no", "asked", "on", "refused", "stopped"}]
          /\ want'[t] = (IF ok THEN "on" ELSE "refused") /\ \A s \in Subs \ {t} : want'[s] = want[s]
    BY <2>1, <1>3
  <2>3. t \notin Epochs
    BY <1>3, Constants
  <2>4. call' \in [Callers -> Calls] /\ call'[t] = Idle /\ \A u \in Callers \ {t} : call'[u] = call[u]
    BY <1>1, <1>2
  <2> QED BY <1>1, <2>1, <2>2, <2>3, <2>4 DEF Ends
<1>4. CASE t \notin Subs
  BY <1>1, <1>2, <1>4, Constants DEF Return, Ends
<1> QED BY <1>3, <1>4

\* What a step of Subscribe after the first does.
Proceeds(t) ==
    \/ Logs(t) /\ UNCHANGED closes
    \/ UNCHANGED <<call, live, logVars, closes, want, lost>> /\ crashed' = TRUE
    \/ call[t].pc \in {"logged", "late"} /\ Ends(t, TRUE)
    \/ call[t].pc = "refused" /\ Ends(t, FALSE)
    \/ /\ call[t].pc = "logged" /\ call'[t].pc = "late" /\ call' \in [Callers -> Calls]
       /\ call[t] # Idle /\ call'[t] # Idle /\ call'[t].sub = call[t].sub
       /\ \A u \in Callers \ {t} : call'[u] = call[u]
       /\ UNCHANGED <<want, live, logVars, closes, lost, crashed>>

\* SubscribeStep in these words; the stop goroutine is told of the end of the connection in use.
LEMMA StepProceeds ==
    ASSUME TypeInv, NEW t \in Callers, SubscribeStep(t)
    PROVE  /\ Proceeds(t) /\ closes' \in [Epochs -> Seq(Stops)]
           /\ UNCHANGED <<connVars, rerun, mtxRecover, todo, doubled>>
<1> USE DEF TypeInv, CallType
<1>0. UNCHANGED <<connVars, rerun, mtxRecover, todo, doubled>>
  BY DEF SubscribeStep
<1>1. CASE Log(t) /\ UNCHANGED <<want, lost>>
  <2>1. Logs(t)
    BY <1>1, LogLogs
  <2> QED BY <1>0, <2>1 DEF Proceeds, Logs
<1>2. CASE NotifyClose(t)
  <2>1. call[t] \in Calls /\ call[t].pc = "logged"
    BY <1>2 DEF NotifyClose
  <2>2. call[t] # Idle /\ call[t].sub \in Subs /\ call[t].on \in Epochs /\ call[t].slot \in Nat
    BY <2>1, CallFields
  <2>3. CASE conn = NoConn
    BY <1>0, <1>2, <2>3 DEF NotifyClose, Crash, Proceeds
  <2>4. CASE conn # NoConn /\ up
    <3> DEFINE stop == Stopper(call[t].sub, call[t].slot, call[t].on, FALSE)
    <3>1. stop \in Stops
      BY <2>2 DEF Stops, Stopper
    <3>2. closes' = [closes EXCEPT ![conn] = Append(closes[conn], stop)]
      BY <1>2, <2>4 DEF NotifyClose
    <3> HIDE DEF stop
    <3>3. Append(closes[conn], stop) \in Seq(Stops)
      BY <3>1, <2>4 DEF ConnType
    <3>4. closes' \in [Epochs -> Seq(Stops)]
      BY <3>2, <3>3
    <3>5. Return(t, TRUE) /\ UNCHANGED <<live, logVars, crashed>>
      BY <1>2, <2>4 DEF NotifyClose
    <3>6. Ends(t, TRUE)
      BY <3>5, <2>2, ReturnEnds
    <3> QED BY <3>4, <3>6, <2>1, <1>0 DEF Proceeds
  <2>5. CASE conn # NoConn /\ ~up
    <3> DEFINE c == [pc |-> "late", sub |-> call[t].sub, on |-> conn, slot |-> call[t].slot]
    <3>1. c \in Calls /\ c.pc = "late" /\ c.sub = call[t].sub /\ c # Idle
      BY <2>2, <2>5 DEF Calls, ConnType, Idle
    <3>2. call' = [call EXCEPT ![t] = c] /\ UNCHANGED <<want, live, logVars, closes, lost, crashed>>
      BY <1>2, <2>5 DEF NotifyClose
    <3> HIDE DEF c
    <3> QED BY <3>1, <3>2, <2>1, <2>2, <1>0 DEF Proceeds
  <2> QED BY <2>3, <2>4, <2>5 DEF ConnType
<1>3. CASE Unblocked(t)
  <2>1. call[t] \in Calls /\ call[t].pc \in {"late", "refused"}
    BY <1>3 DEF Unblocked
  <2>2. call[t] # Idle
    BY <2>1, CallFields
  <2>3. Return(t, call[t].pc = "late") /\ UNCHANGED <<live, logVars, crashed>>
    BY <1>3 DEF Unblocked
  <2>4. CASE call[t].pc = "late"
    <3>1. Return(t, TRUE)
      BY <2>3, <2>4 DEF Return
    <3>2. Ends(t, TRUE)
      BY <3>1, <2>2, <2>3, ReturnEnds
    <3>3. closes' \in [Epochs -> Seq(Stops)]
      <4> DEFINE stop == Stopper(call[t].sub, call[t].slot, call[t].on, TRUE)
      <4>1. stop \in Stops /\ call[t].on \in Epochs
        BY <2>1, <2>2, <2>4, CallFields DEF Stops, Stopper
      <4>2. closes' = closes
            \/ closes' = [closes EXCEPT ![call[t].on] = Append(closes[call[t].on], stop)]
        BY <1>3 DEF Unblocked
      <4> HIDE DEF stop
      <4>3. Append(closes[call[t].on], stop) \in Seq(Stops)
        BY <4>1
      <4> QED BY <4>2, <4>3
    <3> QED BY <3>2, <3>3, <2>3, <2>4, <1>0 DEF Proceeds
  <2>5. CASE call[t].pc = "refused"
    <3>1. Return(t, FALSE)
      BY <2>3, <2>5 DEF Return
    <3>2. Ends(t, FALSE)
      BY <3>1, <2>2, <2>3, ReturnEnds
    <3>3. closes' = closes
      BY <1>3, <2>5 DEF Unblocked
    <3> QED BY <3>2, <3>3, <2>3, <2>5, <1>0 DEF Proceeds
  <2> QED BY <2>1, <2>4, <2>5
<1> QED BY <1>1, <1>2, <1>3 DEF SubscribeStep

-----------------------------------------------------------------------------
(* Types.                                                                  *)

\* NewSubscriber establishes the types.
LEMMA TypeInit == Init => TypeInv
<1> SUFFICES ASSUME Init PROVE TypeInv
  OBVIOUS
<1>1. ConnType
  <2>1. conn \in Epochs \cup {NoConn} /\ dials \in Epochs /\ tries \in 0..MaxRetry
    BY Constants DEF Init
  <2>2. up \in BOOLEAN /\ crashed \in BOOLEAN
    BY DEF Init
  <2>3. rerun \in [Epochs -> States]
    BY DEF Init, States
  <2>4. mtxRecover \in Epochs \cup {Free}
    BY DEF Init
  <2> QED BY <2>1, <2>2, <2>3, <2>4 DEF ConnType
<1>2. LogType
  BY DEF Init, LogType
<1>3. CallType
  <2>1. Idle \in Calls /\ <<>> \in Seq(Stops)
    BY DEF Calls
  <2> QED BY <2>1 DEF Init, CallType
<1>4. OneDialer
  BY Constants DEF Init, OneDialer
<1> QED BY <1>1, <1>2, <1>3, <1>4 DEF TypeInv

\* A stop goroutine that waits has a subscription, a slot and a connection.
LEMMA StopFields ==
    ASSUME NEW c \in Stops, c.waits
    PROVE  c.sub \in Subs /\ c.slot \in Nat /\ c.on \in Epochs
<1>1. c \in [sub : Subs, slot : Nat, on : Epochs, waits : {TRUE}, told : BOOLEAN]
  BY DEF Stops
<1> QED BY <1>1

\* Stopping changes the stop goroutine, the slot it was given and its channel.
LEMMA StopStops ==
    ASSUME TypeInv, NEW e \in Epochs, NEW i \in DOMAIN closes[e], Stop(e, i)
    PROVE  \E s \in Subs, slot \in Nat :
              /\ want[s] = "stopped"
              /\ closes' \in [Epochs -> Seq(Stops)]
              /\ DOMAIN redoLogs' = DOMAIN redoLogs \ {slot}
              /\ \A j \in DOMAIN redoLogs' : redoLogs'[j] = redoLogs[j]
              /\ live' \in [Subs -> Int] /\ \A v \in Subs : live'[v] <= live[v]
              /\ lost' = IF slot \in DOMAIN redoLogs /\ redoLogs[slot] # s
                            THEN lost \cup {redoLogs[slot]} ELSE lost
              /\ UNCHANGED <<want, connVars, rerun, mtxRecover, todo, nextSlot, call, doubled, crashed>>
<1> USE DEF TypeInv, CallType
<1> DEFINE stop == closes[e][i]
<1>1. closes[e] \in Seq(Stops) /\ stop \in Stops /\ stop.waits /\ want[stop.sub] = "stopped"
  BY DEF Stop
<1>2. stop.sub \in Subs /\ stop.slot \in Nat
  BY <1>1, StopFields
<1>3. closes' \in [Epochs -> Seq(Stops)]
  <2> DEFINE gone == Returned(stop.told)
  <2>1. gone \in Stops
    BY <1>1 DEF Stops, Returned
  <2>3. closes' = [closes EXCEPT ![e] = [closes[e] EXCEPT ![i] = gone]]
    BY DEF Stop
  <2> HIDE DEF gone
  <2>2. [closes[e] EXCEPT ![i] = gone] \in Seq(Stops)
    BY <1>1, <2>1
  <2> QED BY <2>2, <2>3
<1>4. DOMAIN redoLogs' = DOMAIN redoLogs \ {stop.slot} /\ \A j \in DOMAIN redoLogs' : redoLogs'[j] = redoLogs[j]
  BY DEF Stop, SlotDeleted
<1>5. live' \in [Subs -> Int] /\ \A v \in Subs : live'[v] <= live[v]
  <2>1. live' = live \/ live' = [live EXCEPT ![stop.sub] = live[stop.sub] - 1]
    BY DEF Stop
  <2> QED BY <2>1, <1>2
<1>6. lost' = IF stop.slot \in DOMAIN redoLogs /\ redoLogs[stop.slot] # stop.sub
                 THEN lost \cup {redoLogs[stop.slot]} ELSE lost
  BY DEF Stop
<1>7. UNCHANGED <<want, connVars, rerun, mtxRecover, todo, nextSlot, call, doubled, crashed>>
  BY DEF Stop
<1> HIDE DEF stop
<1> QED BY <1>1, <1>2, <1>3, <1>4, <1>5, <1>6, <1>7

\* The types hold after a step.
LEMMA TypeNext == TypeInv /\ [Next]_vars => TypeInv'
<1> SUFFICES ASSUME TypeInv, [Next]_vars PROVE TypeInv'
  OBVIOUS
<1>0. ConnType /\ LogType /\ CallType /\ OneDialer
  BY DEF TypeInv
<1>1. CASE UNCHANGED vars
  BY <1>0, <1>1 DEF vars, connVars, logVars, TypeInv, ConnType, LogType, CallType, OneDialer
<1>2. ASSUME NEW t \in Callers, SubscribeStep(t) PROVE TypeInv'
  <2>1. Proceeds(t) /\ closes' \in [Epochs -> Seq(Stops)]
          /\ UNCHANGED <<conn, up, dials, tries, rerun, mtxRecover, todo, doubled>>
    BY <1>2, StepProceeds DEF connVars
  <2>2. OneDialer'
    BY <1>0, <2>1 DEF OneDialer
  <2>3. ConnType'
    <3>1. crashed' \in BOOLEAN
      BY <1>0, <2>1 DEF ConnType, Proceeds, Logs, Ends
    <3> QED BY <1>0, <2>1, <3>1 DEF ConnType
  <2>4. CallType'
    BY <1>0, <2>1 DEF CallType, Proceeds, Logs, Ends
  <2>5. LogType'
    <3>1. CASE Logs(t)
      BY <1>0, <2>1, <3>1 DEF LogType, Logs
    <3>2. CASE UNCHANGED logVars
      BY <1>0, <2>1, <3>2 DEF LogType, logVars
    <3> QED BY <2>1, <3>1, <3>2 DEF Proceeds, Ends
  <2> QED BY <2>2, <2>3, <2>4, <2>5 DEF TypeInv
<1>3. ASSUME NEW s \in Subs, Subscribe(s) PROVE TypeInv'
  <2>1. Begins(s, s)
    BY <1>3, OpenBegins, Constants DEF Subscribe
  <2>2. want' = [want EXCEPT ![s] = "asked"]
          /\ UNCHANGED <<conn, up, dials, tries, rerun, mtxRecover, todo, lost, doubled>>
    BY <1>3 DEF Subscribe, connVars
  <2>3. ConnType' /\ OneDialer'
    <3>1. crashed' \in BOOLEAN
      BY <1>0, <2>1 DEF ConnType, Begins
    <3> QED BY <1>0, <2>2, <3>1 DEF ConnType, OneDialer
  <2>4. LogType' /\ CallType'
    BY <1>0, <2>1, <2>2 DEF LogType, CallType, Begins, logVars
  <2> QED BY <2>3, <2>4 DEF TypeInv
<1>4. ASSUME NEW s \in Subs, Unsubscribe(s) PROVE TypeInv'
  <2>1. want' \in [Subs -> {"no", "asked", "on", "refused", "stopped"}]
    BY <1>0, <1>4 DEF Unsubscribe, CallType
  <2> QED BY <1>0, <1>4, <2>1 DEF Unsubscribe, TypeInv, ConnType, LogType, CallType, OneDialer,
                                  connVars, logVars
<1>5. ASSUME NEW e \in Epochs, Dial(e) PROVE TypeInv'
  <2>1. e = dials /\ dials <= MaxDrops
    BY <1>0, <1>5, Constants DEF Dial, Retries, Dropped, OneDialer
  <2>2. dials + 1 \in Epochs /\ dials + 1 # e
    BY <1>0, <2>1, Constants DEF ConnType, Epochs
  <2>3. /\ dials' = dials + 1 /\ conn' = dials + 1 /\ up' = TRUE /\ tries' = 0
        /\ rerun' = [[rerun EXCEPT ![e] = "lock"] EXCEPT ![dials + 1] = "wait"]
        /\ UNCHANGED <<want, mtxRecover, todo, logVars, call, live, closes, lost, doubled, crashed>>
    BY <1>5 DEF Dial
  <2>4. rerun' \in [Epochs -> States] /\ \A f \in Epochs : rerun'[f] =
           IF f = dials + 1 THEN "wait" ELSE IF f = e THEN "lock" ELSE rerun[f]
    BY <1>0, <2>2, <2>3 DEF ConnType, States
  <2>5. ConnType'
    BY <1>0, <2>2, <2>3, <2>4, Constants DEF ConnType
  <2>6. OneDialer'
    <3>1. \A f \in Epochs : rerun'[f] = "wait" => f = dials + 1
      <4> SUFFICES ASSUME NEW f \in Epochs, rerun'[f] = "wait", f # dials + 1 PROVE FALSE
        OBVIOUS
      <4>1. rerun[f] = "wait" /\ f # e
        BY <2>4
      <4>2. f = conn /\ conn # NoConn
        BY <4>1, <1>0, Constants DEF OneDialer
      <4> QED BY <4>1, <4>2, <1>0, <2>1 DEF OneDialer
    <3>2. \A f \in Epochs : rerun'[f] # "retry"
      BY <1>0, <2>1, <2>4 DEF OneDialer
    <3> QED BY <2>2, <2>3, <3>1, <3>2, Constants DEF OneDialer
  <2>7. LogType' /\ CallType'
    BY <1>0, <2>3 DEF LogType, CallType, logVars
  <2> QED BY <2>5, <2>6, <2>7 DEF TypeInv
<1>6. ASSUME NEW e \in Epochs, DialFails(e) PROVE TypeInv'
  <2>1. e = dials /\ dials <= MaxDrops /\ tries < MaxRetry
    BY <1>0, <1>6, Constants DEF DialFails, Retries, Dropped, OneDialer
  <2>2. /\ conn' = NoConn /\ up' = FALSE /\ tries' = tries + 1
        /\ rerun' = [rerun EXCEPT ![e] = IF tries' = MaxRetry THEN "gaveup" ELSE "retry"]
        /\ UNCHANGED <<want, dials, mtxRecover, todo, logVars, call, live, closes, lost, doubled, crashed>>
    BY <1>6 DEF DialFails
  <2>3. rerun' \in [Epochs -> States] /\ (\A f \in Epochs \ {e} : rerun'[f] = rerun[f])
          /\ rerun'[e] = IF tries' = MaxRetry THEN "gaveup" ELSE "retry"
    BY <1>0, <2>2 DEF ConnType, States
  <2>4. tries' \in 0..MaxRetry
    BY <1>0, <2>1, <2>2, Constants DEF ConnType
  <2>5. ConnType'
    BY <1>0, <2>2, <2>3, <2>4 DEF ConnType
  <2>6. OneDialer'
    <3>1. \A f \in Epochs : rerun'[f] # "wait"
      <4> SUFFICES ASSUME NEW f \in Epochs, rerun'[f] = "wait" PROVE FALSE
        OBVIOUS
      <4>1. rerun[f] = "wait" /\ f # e
        BY <2>3
      <4> QED BY <4>1, <2>1, <1>0, Constants DEF OneDialer
    <3>2. \A f \in Epochs : rerun'[f] = "retry" => f = dials /\ tries' < MaxRetry
      <4> SUFFICES ASSUME NEW f \in Epochs, rerun'[f] = "retry" PROVE f = dials /\ tries' < MaxRetry
        OBVIOUS
      <4>1. f = dials
        BY <1>0, <2>1, <2>3 DEF OneDialer
      <4>2. tries' # MaxRetry
        BY <4>1, <2>1, <2>3
      <4> QED BY <4>1, <4>2, <2>4, Constants
    <3> QED BY <2>1, <2>2, <3>1, <3>2 DEF OneDialer
  <2>7. LogType' /\ CallType'
    BY <1>0, <2>2 DEF LogType, CallType, logVars
  <2> QED BY <2>5, <2>6, <2>7 DEF TypeInv
<1>7. ASSUME NEW e \in Epochs, RecoverLocks(e) PROVE TypeInv'
  <2>1. /\ mtxRecover' = e /\ rerun' = [rerun EXCEPT ![e] = "recover"]
        /\ todo' = {<<i, redoLogs[i]>> : i \in DOMAIN redoLogs}
        /\ redoLogs' = <<>> /\ nextSlot' = 0
        /\ UNCHANGED <<want, conn, up, dials, tries, call, live, closes, crashed>>
    BY <1>7 DEF RecoverLocks, EmptyLog, connVars
  <2>2. ConnType' /\ OneDialer'
    BY <1>0, <2>1 DEF ConnType, OneDialer, States
  <2>3. LogType'
    BY <1>0, <2>1 DEF LogType
  <2>4. lost' \subseteq Subs /\ doubled' \subseteq Subs
    <3>1. \A t \in Callers : call[t].pc = "opened" => call[t].sub \in Subs
      BY <1>0, CallFields DEF CallType
    <3> QED BY <1>0, <1>7, <3>1 DEF RecoverLocks, CallType, LogType
  <2> QED BY <1>0, <2>1, <2>2, <2>3, <2>4 DEF TypeInv, CallType
<1>8. ASSUME NEW e \in Epochs, RecoverNext(e) PROVE TypeInv'
  <2>1. PICK r \in todo : Open(e, r[2]) /\ todo' = todo \ {r}
    BY <1>8 DEF RecoverNext
  <2>2. r[2] \in Subs /\ e \in Callers
    BY <1>0, <2>1, Constants DEF LogType
  <2>3. Begins(e, r[2])
    BY <2>1, <2>2, OpenBegins
  <2>4. UNCHANGED <<want, conn, up, dials, tries, rerun, mtxRecover, lost, doubled>>
    BY <1>8 DEF RecoverNext, connVars
  <2>5. ConnType' /\ OneDialer'
    <3>1. crashed' \in BOOLEAN
      BY <1>0, <2>3 DEF ConnType, Begins
    <3> QED BY <1>0, <2>4, <3>1 DEF ConnType, OneDialer
  <2>6. LogType' /\ CallType'
    BY <1>0, <2>1, <2>3, <2>4 DEF LogType, CallType, Begins, logVars
  <2> QED BY <2>5, <2>6 DEF TypeInv
<1>9. ASSUME NEW e \in Epochs, RecoverEnds(e) PROVE TypeInv'
  <2>1. /\ mtxRecover' = Free /\ rerun' = [rerun EXCEPT ![e] = "done"]
        /\ UNCHANGED <<want, conn, up, dials, tries, todo, logVars, call, live, closes, lost, doubled, crashed>>
    BY <1>9 DEF RecoverEnds, connVars
  <2>2. ConnType' /\ OneDialer'
    BY <1>0, <2>1 DEF ConnType, OneDialer, States
  <2> QED BY <1>0, <2>1, <2>2 DEF TypeInv, LogType, CallType, logVars
<1>10. ASSUME NEW e \in Epochs, NEW i \in DOMAIN closes[e], Stop(e, i) PROVE TypeInv'
  <2>1. PICK s \in Subs, slot \in Nat :
              /\ closes' \in [Epochs -> Seq(Stops)]
              /\ DOMAIN redoLogs' = DOMAIN redoLogs \ {slot}
              /\ \A j \in DOMAIN redoLogs' : redoLogs'[j] = redoLogs[j]
              /\ live' \in [Subs -> Int]
              /\ lost' = IF slot \in DOMAIN redoLogs /\ redoLogs[slot] # s
                            THEN lost \cup {redoLogs[slot]} ELSE lost
              /\ UNCHANGED <<want, connVars, rerun, mtxRecover, todo, nextSlot, call, doubled, crashed>>
    BY <1>10, StopStops
  <2>2. ConnType' /\ OneDialer'
    BY <1>0, <2>1 DEF ConnType, OneDialer, connVars
  <2>3. LogType' /\ lost' \subseteq Subs
    BY <1>0, <2>1 DEF LogType, CallType
  <2> QED BY <1>0, <2>1, <2>2, <2>3 DEF TypeInv, CallType
<1>11. CASE ConnectionDrops
  <2>1. /\ up /\ dials <= MaxDrops /\ up' = FALSE /\ live' = [s \in Subs |-> 0]
        /\ UNCHANGED <<want, conn, dials, tries, rerun, mtxRecover, todo, logVars, call, closes, lost,
                       doubled, crashed>>
    BY <1>11 DEF ConnectionDrops
  <2>2. ConnType' /\ OneDialer'
    BY <1>0, <2>1 DEF ConnType, OneDialer
  <2> QED BY <1>0, <2>1, <2>2 DEF TypeInv, LogType, CallType, logVars
<1>12. ASSUME NEW e \in Epochs, Notified(e) PROVE TypeInv'
  <2>1. /\ closes[e] # <<>> /\ closes' = [closes EXCEPT ![e] = Tail(closes[e])]
        /\ UNCHANGED <<want, connVars, rerun, mtxRecover, todo, logVars, call, live, lost, doubled, crashed>>
    BY <1>12 DEF Notified
  <2>2. Tail(closes[e]) \in Seq(Stops)
    BY <1>0, <2>1 DEF CallType
  <2>3. closes' \in [Epochs -> Seq(Stops)]
    BY <1>0, <2>1, <2>2 DEF CallType
  <2> QED BY <1>0, <2>1, <2>3 DEF TypeInv, ConnType, LogType, CallType, OneDialer, connVars, logVars
<1> QED BY <1>1, <1>2, <1>3, <1>4, <1>5, <1>6, <1>7, <1>8, <1>9, <1>10, <1>11, <1>12, NextSteps

-----------------------------------------------------------------------------
(* The redo log forgets nobody.                                            *)

\* Nobody is covered any less when the log, the copy, the lost and the calls that have not logged
\* yet keep what they have.
LEMMA StaysCovered ==
    ASSUME NEW s \in Subs, Covered(s), UNCHANGED redoLogs, todo \subseteq todo', lost \subseteq lost',
           \A e \in Epochs : Unlogged(e) => call'[e].pc = call[e].pc /\ call'[e].sub = call[e].sub
    PROVE  Covered(s)'
BY DEF Covered, Redone, Unlogged

\* Nobody is in the log before it is asked for.
LEMMA LogInit == Init => LogInv
BY Constants DEF Init, LogInv, OneRecovers, UsersCall, AllCovered, Idle

\* The invariant of the log holds after a step.
LEMMA LogNext == TypeInv /\ LogInv /\ [Next]_vars => LogInv'
<1> SUFFICES ASSUME TypeInv, LogInv, [Next]_vars PROVE LogInv'
  OBVIOUS
<1>0. OneRecovers /\ UsersCall /\ (~crashed => AllCovered)
  BY DEF LogInv
<1>a. /\ want \in [Subs -> {"no", "asked", "on", "refused", "stopped"}]
      /\ call \in [Callers -> Calls] /\ todo \subseteq Nat \X Subs /\ rerun \in [Epochs -> States]
  BY DEF TypeInv, CallType, LogType, ConnType
<1>1. CASE UNCHANGED vars
  BY <1>0, <1>1 DEF vars, connVars, logVars, LogInv, OneRecovers, UsersCall, AllCovered, Covered, Redone
<1>2. ASSUME NEW t \in Callers, SubscribeStep(t) PROVE LogInv'
  <2>1. Proceeds(t) /\ UNCHANGED <<rerun, mtxRecover, todo, doubled>>
    BY <1>2, StepProceeds
  <2>2. OneRecovers'
    BY <1>0, <2>1 DEF OneRecovers
  <2>3. CASE Logs(t)
    <3>1. UsersCall'
      BY <1>0, <2>3, Constants DEF UsersCall, Logs
    <3>2. ASSUME ~crashed', NEW s \in Subs,
                 want'[s] = "on" \/ (want'[s] = "asked" /\ call'[s].pc \in {"logged", "late"})
          PROVE  Covered(s)'
      <4>1. ~crashed
        BY <2>3, <3>2 DEF Logs
      <4>2. CASE s = call[t].sub
        BY <2>3, <4>2 DEF Logs, Covered, Redone
      <4>3. CASE s # call[t].sub
        <5>1. s # t
          BY <1>0, <2>3, <4>3 DEF UsersCall, Logs
        <5>2. want[s] = "on" \/ (want[s] = "asked" /\ call[s].pc \in {"logged", "late"})
          BY <2>3, <3>2, <5>1, Constants DEF Logs
        <5>3. Covered(s)
          BY <1>0, <4>1, <5>2 DEF AllCovered
        <5>4. CASE Redone(s)
          <6>1. Redone(s)'
            BY <5>4, <2>1, <2>3 DEF Redone, Logs
          <6> QED BY <6>1 DEF Covered
        <5>5. CASE s \in lost
          BY <5>5, <2>3 DEF Covered, Logs
        <5>6. ASSUME NEW e \in Epochs, call[e].pc \in {"opened", "refused"}, call[e].sub = s
              PROVE  Covered(s)'
          BY <5>6, <4>3, <2>3, Constants DEF Covered, Logs
        <5> QED BY <5>3, <5>4, <5>5, <5>6 DEF Covered
      <4> QED BY <4>2, <4>3
    <3> QED BY <2>2, <3>1, <3>2 DEF LogInv, AllCovered
  <2>4. CASE UNCHANGED <<call, live, logVars, closes, want, lost>> /\ crashed' = TRUE
    BY <1>0, <2>2, <2>4 DEF LogInv, UsersCall
  <2>5. CASE call[t].pc \in {"logged", "late"} /\ Ends(t, TRUE)
    <3>1. UsersCall'
      BY <1>0, <2>5, Constants DEF UsersCall, Ends
    <3>2. ASSUME ~crashed', NEW s \in Subs,
                 want'[s] = "on" \/ (want'[s] = "asked" /\ call'[s].pc \in {"logged", "late"})
          PROVE  Covered(s)'
      <4>1. want[s] = "on" \/ (want[s] = "asked" /\ call[s].pc \in {"logged", "late"})
        BY <1>0, <2>5, <3>2, Constants DEF UsersCall, Ends
      <4>2. Covered(s)
        BY <1>0, <2>5, <3>2, <4>1 DEF AllCovered, Ends
      <4>3. \A e \in Epochs : Unlogged(e) => call'[e].pc = call[e].pc /\ call'[e].sub = call[e].sub
        BY <2>5, Constants DEF Unlogged, Ends
      <4>4. UNCHANGED redoLogs /\ todo \subseteq todo' /\ lost \subseteq lost'
        BY <2>1, <2>5 DEF Ends, logVars
      <4> QED BY <4>2, <4>3, <4>4, StaysCovered
    <3> QED BY <2>2, <3>1, <3>2 DEF LogInv, AllCovered
  <2>6. CASE call[t].pc = "refused" /\ Ends(t, FALSE)
    <3>1. UsersCall'
      BY <1>0, <2>6, Constants DEF UsersCall, Ends
    <3>2. ASSUME ~crashed', NEW s \in Subs,
                 want'[s] = "on" \/ (want'[s] = "asked" /\ call'[s].pc \in {"logged", "late"})
          PROVE  Covered(s)'
      <4>1. want[s] = "on" \/ (want[s] = "asked" /\ call[s].pc \in {"logged", "late"})
        BY <1>0, <2>6, <3>2, Constants DEF UsersCall, Ends
      <4>2. Covered(s)
        BY <1>0, <2>6, <3>2, <4>1 DEF AllCovered, Ends
      <4>3. UNCHANGED redoLogs /\ todo \subseteq todo' /\ lost \subseteq lost'
        BY <2>1, <2>6 DEF Ends, logVars
      <4>4. CASE Redone(s) \/ s \in lost
        BY <4>3, <4>4 DEF Covered, Redone
      <4>5. ASSUME NEW e \in Epochs, call[e].pc \in {"opened", "refused"}, call[e].sub = s
            PROVE  Covered(s)'
        BY <4>5, <2>6, Constants DEF Covered, Ends
      <4> QED BY <4>2, <4>4, <4>5 DEF Covered
    <3> QED BY <2>2, <3>1, <3>2 DEF LogInv, AllCovered
  <2>7. CASE /\ call[t].pc = "logged" /\ call'[t].pc = "late" /\ call' \in [Callers -> Calls]
             /\ call[t] # Idle /\ call'[t] # Idle /\ call'[t].sub = call[t].sub
             /\ \A u \in Callers \ {t} : call'[u] = call[u]
             /\ UNCHANGED <<want, live, logVars, closes, lost, crashed>>
    <3>1. UsersCall'
      BY <1>0, <2>7, Constants DEF UsersCall
    <3>2. ASSUME ~crashed', NEW s \in Subs,
                 want'[s] = "on" \/ (want'[s] = "asked" /\ call'[s].pc \in {"logged", "late"})
          PROVE  Covered(s)'
      <4>1. Covered(s)
        BY <1>0, <2>7, <3>2, Constants DEF AllCovered
      <4>2. \A e \in Epochs : Unlogged(e) => call'[e].pc = call[e].pc /\ call'[e].sub = call[e].sub
        BY <2>7, Constants DEF Unlogged
      <4> QED BY <4>1, <4>2, <2>1, <2>7, StaysCovered DEF logVars
    <3> QED BY <2>2, <3>1, <3>2 DEF LogInv, AllCovered
  <2> QED BY <2>1, <2>3, <2>4, <2>5, <2>6, <2>7 DEF Proceeds
<1>3. ASSUME NEW s \in Subs, Subscribe(s) PROVE LogInv'
  <2>1. Begins(s, s) /\ s \in Callers /\ s \notin Epochs
    BY <1>3, OpenBegins, Constants DEF Subscribe
  <2>2. want[s] = "no" /\ want' = [want EXCEPT ![s] = "asked"]
          /\ UNCHANGED <<rerun, mtxRecover, todo, lost, doubled>>
    BY <1>3 DEF Subscribe
  <2>3. OneRecovers'
    BY <1>0, <2>2 DEF OneRecovers
  <2>4. UsersCall'
    BY <1>0, <1>a, <2>1, <2>2, Constants DEF UsersCall, Begins
  <2>5. ASSUME ~crashed', NEW v \in Subs,
               want'[v] = "on" \/ (want'[v] = "asked" /\ call'[v].pc \in {"logged", "late"})
        PROVE  Covered(v)'
    <3>1. v # s
      BY <1>a, <2>1, <2>2, <2>5 DEF Begins
    <3>2. Covered(v)
      BY <1>0, <1>a, <2>1, <2>2, <2>5, <3>1, Constants DEF AllCovered, Begins
    <3>3. \A e \in Epochs : call'[e] = call[e]
      BY <2>1, Constants DEF Begins
    <3> QED BY <3>2, <3>3, <2>1, <2>2, StaysCovered DEF Begins, logVars
  <2> QED BY <2>3, <2>4, <2>5 DEF LogInv, AllCovered
<1>4. ASSUME NEW s \in Subs, Unsubscribe(s) PROVE LogInv'
  <2>1. /\ want[s] = "on" /\ want' = [want EXCEPT ![s] = "stopped"]
        /\ UNCHANGED <<rerun, mtxRecover, todo, redoLogs, call, lost, crashed>>
    BY <1>4 DEF Unsubscribe, logVars
  <2>2. UsersCall'
    BY <1>0, <1>a, <2>1 DEF UsersCall
  <2> QED BY <1>0, <1>a, <2>1, <2>2 DEF LogInv, OneRecovers, AllCovered, Covered, Redone
<1>5. ASSUME NEW e \in Epochs, Dial(e) \/ DialFails(e) PROVE LogInv'
  <2>1. UNCHANGED <<want, mtxRecover, todo, redoLogs, call, lost, crashed>>
    BY <1>5 DEF Dial, DialFails, logVars
  <2>2. \A f \in Epochs : rerun'[f] = "recover" => rerun[f] = "recover"
    BY <1>5, <1>a DEF Dial, DialFails, States
  <2> QED BY <1>0, <2>1, <2>2 DEF LogInv, OneRecovers, UsersCall, AllCovered, Covered, Redone
<1>6. ASSUME NEW e \in Epochs, RecoverLocks(e) PROVE LogInv'
  <2>1. /\ mtxRecover = Free /\ mtxRecover' = e /\ rerun' = [rerun EXCEPT ![e] = "recover"]
        /\ todo' = {<<i, redoLogs[i]>> : i \in DOMAIN redoLogs}
        /\ lost \subseteq lost' /\ UNCHANGED <<want, call, crashed>>
    BY <1>6 DEF RecoverLocks
  <2>2. \A f \in Epochs : rerun[f] # "recover"
    BY <1>0, <2>1, Constants DEF OneRecovers
  <2>3. OneRecovers'
    BY <1>a, <2>1, <2>2, Constants DEF OneRecovers
  <2>4. \A s \in Subs : Covered(s) => Covered(s)'
    <3> SUFFICES ASSUME NEW s \in Subs, Covered(s) PROVE Covered(s)'
      OBVIOUS
    <3>1. todo = {}
      BY <1>0, <2>1 DEF OneRecovers
    <3>2. ASSUME NEW i \in DOMAIN redoLogs, redoLogs[i] = s PROVE Covered(s)'
      <4>1. <<i, s>> \in todo' /\ <<i, s>>[2] = s
        BY <2>1, <3>2
      <4> QED BY <4>1 DEF Covered, Redone
    <3>3. CASE s \in lost
      BY <3>3, <2>1 DEF Covered
    <3>4. CASE \E f \in Epochs : call[f].pc \in {"opened", "refused"} /\ call[f].sub = s
      BY <3>4, <2>1 DEF Covered
    <3> QED BY <3>1, <3>2, <3>3, <3>4 DEF Covered, Redone
  <2> QED BY <1>0, <2>1, <2>3, <2>4 DEF LogInv, UsersCall, AllCovered
<1>7. ASSUME NEW e \in Epochs, RecoverNext(e) PROVE LogInv'
  <2>1. PICK r \in todo : Open(e, r[2]) /\ todo' = todo \ {r}
    BY <1>7 DEF RecoverNext
  <2>2. r[2] \in Subs /\ e \in Callers /\ e \notin Subs
    BY <1>a, <2>1, Constants
  <2>3. Begins(e, r[2])
    BY <2>1, <2>2, OpenBegins
  <2>4. UNCHANGED <<want, rerun, mtxRecover, lost, doubled>>
    BY <1>7 DEF RecoverNext
  <2>5. OneRecovers'
    BY <1>0, <2>1, <2>4 DEF OneRecovers
  <2>6. \A s \in Subs : call'[s] = call[s]
    BY <2>2, <2>3, Constants DEF Begins
  <2>7. UsersCall'
    BY <1>0, <2>4, <2>6 DEF UsersCall
  <2>8. ASSUME ~crashed' PROVE \A s \in Subs : Covered(s) => Covered(s)'
    <3> SUFFICES ASSUME NEW s \in Subs, Covered(s) PROVE Covered(s)'
      OBVIOUS
    <3>1. /\ UNCHANGED redoLogs /\ \A u \in Callers \ {e} : call'[u] = call[u]
          /\ call[e] = Idle /\ call'[e].pc \in {"opened", "refused"} /\ call'[e].sub = r[2]
      BY <2>3, <2>8 DEF Begins, logVars
    <3>2. CASE s = r[2]
      BY <3>1, <3>2 DEF Covered
    <3>3. ASSUME s # r[2], NEW q \in todo, q[2] = s PROVE Covered(s)'
      <4>1. q \in todo'
        BY <3>3, <2>1
      <4> QED BY <3>3, <4>1 DEF Covered, Redone
    <3>4. CASE (\E i \in DOMAIN redoLogs : redoLogs[i] = s) \/ s \in lost
      BY <3>1, <3>4, <2>4 DEF Covered, Redone
    <3>5. ASSUME NEW f \in Epochs, call[f].pc \in {"opened", "refused"}, call[f].sub = s
          PROVE  Covered(s)'
      <4>1. f # e
        BY <3>1, <3>5 DEF Idle
      <4>2. call'[f] = call[f]
        BY <3>1, <4>1, Constants
      <4> QED BY <3>5, <4>2 DEF Covered
    <3> QED BY <3>2, <3>3, <3>4, <3>5 DEF Covered, Redone
  <2>9. ~crashed' => ~crashed
    BY <2>3 DEF Begins
  <2> QED BY <1>0, <2>4, <2>5, <2>6, <2>7, <2>8, <2>9 DEF LogInv, AllCovered
<1>8. ASSUME NEW e \in Epochs, RecoverEnds(e) PROVE LogInv'
  <2>1. /\ rerun[e] = "recover" /\ todo = {} /\ mtxRecover' = Free
        /\ rerun' = [rerun EXCEPT ![e] = "done"]
        /\ UNCHANGED <<want, todo, redoLogs, call, lost, crashed>>
    BY <1>8 DEF RecoverEnds, logVars
  <2>2. OneRecovers'
    BY <1>0, <1>a, <2>1 DEF OneRecovers
  <2> QED BY <1>0, <2>1, <2>2 DEF LogInv, UsersCall, AllCovered, Covered, Redone
<1>9. ASSUME NEW e \in Epochs, NEW i \in DOMAIN closes[e], Stop(e, i) PROVE LogInv'
  <2>1. PICK s \in Subs, slot \in Nat :
              /\ want[s] = "stopped"
              /\ DOMAIN redoLogs' = DOMAIN redoLogs \ {slot}
              /\ \A j \in DOMAIN redoLogs' : redoLogs'[j] = redoLogs[j]
              /\ lost' = IF slot \in DOMAIN redoLogs /\ redoLogs[slot] # s
                            THEN lost \cup {redoLogs[slot]} ELSE lost
              /\ UNCHANGED <<want, connVars, rerun, mtxRecover, todo, nextSlot, call, doubled, crashed>>
    BY <1>9, StopStops
  <2>2. \A v \in Subs \ {s} : Covered(v) => Covered(v)'
    <3> SUFFICES ASSUME NEW v \in Subs \ {s}, Covered(v) PROVE Covered(v)'
      OBVIOUS
    <3>1. ASSUME NEW j \in DOMAIN redoLogs, redoLogs[j] = v PROVE Covered(v)'
      <4>1. CASE j = slot
        BY <2>1, <3>1, <4>1 DEF Covered
      <4>2. CASE j # slot
        BY <2>1, <3>1, <4>2 DEF Covered, Redone
      <4> QED BY <4>1, <4>2
    <3>2. CASE \E r \in todo : r[2] = v
      BY <2>1, <3>2 DEF Covered, Redone
    <3>3. CASE v \in lost
      BY <2>1, <3>3 DEF Covered
    <3>4. CASE \E f \in Epochs : call[f].pc \in {"opened", "refused"} /\ call[f].sub = v
      BY <2>1, <3>4 DEF Covered
    <3> QED BY <3>1, <3>2, <3>3, <3>4 DEF Covered, Redone
  <2>3. UsersCall' /\ OneRecovers'
    BY <1>0, <2>1 DEF UsersCall, OneRecovers
  <2> QED BY <1>0, <2>1, <2>2, <2>3 DEF LogInv, AllCovered
<1>10. CASE ConnectionDrops \/ \E e \in Epochs : Notified(e)
  BY <1>0, <1>10 DEF ConnectionDrops, Notified, logVars, connVars, LogInv, OneRecovers, UsersCall,
                     AllCovered, Covered, Redone
<1> QED BY <1>1, <1>2, <1>3, <1>4, <1>5, <1>6, <1>7, <1>8, <1>9, <1>10, NextSteps

\* The redo log forgets nobody, for any subscriptions, drops of the connection and stops: a
\* subscription in use is in the log, in recover's copy or in a call of Subscribe, or it is
\* among the lost.
THEOREM LogForgetsNobody == Spec => []LogIsComplete
<1>1. Init => TypeInv /\ LogInv
  BY TypeInit, LogInit
<1>2. TypeInv /\ LogInv /\ [Next]_vars => (TypeInv /\ LogInv)'
  BY TypeNext, LogNext
<1>3. TypeInv /\ LogInv => LogIsComplete
  <2> SUFFICES ASSUME TypeInv, LogInv, ~crashed, NEW s \in Subs, want[s] = "on"
               PROVE  Redone(s) \/ Calling(s) \/ s \in lost
    BY DEF LogIsComplete
  <2>1. Covered(s)
    BY DEF LogInv, AllCovered
  <2>2. ASSUME NEW e \in Epochs, call[e].pc \in {"opened", "refused"}, call[e].sub = s PROVE Calling(s)
    BY <2>2, Constants DEF Calling, Idle
  <2> QED BY <2>1, <2>2 DEF Covered
<1> QED BY <1>1, <1>2, <1>3, PTL DEF Spec

-----------------------------------------------------------------------------
(* Nobody gets a second channel.                                           *)

\* At first there is neither place nor channel.
LEMMA ChannelInit == Init => ChannelInv
BY Constants DEF Init, ChannelInv, OnePlace, Unasked, CopyIsDead, OneChannel, Redone, Unlogged, Idle

\* A step that gives nobody a place or a channel keeps the invariant.
LEMMA NothingGained ==
    ASSUME TypeInv, TypeInv', ChannelInv, todo' \subseteq todo, doubled \subseteq doubled',
           DOMAIN redoLogs' \subseteq DOMAIN redoLogs, \A i \in DOMAIN redoLogs' : redoLogs'[i] = redoLogs[i],
           \A t \in Callers : Unlogged(t)' => Unlogged(t) /\ call'[t].sub = call[t].sub,
           \A s \in Subs : live'[s] <= live[s] \/ live'[s] <= 0,
           \A s \in Subs : want'[s] = "no" => want[s] = "no"
    PROVE  ChannelInv'
<1>0. OnePlace /\ Unasked /\ CopyIsDead /\ OneChannel
  BY DEF ChannelInv
<1>a. /\ live \in [Subs -> Int] /\ live' \in [Subs -> Int] /\ todo \subseteq Nat \X Subs
      /\ \A i \in DOMAIN redoLogs : redoLogs[i] \in Subs
  BY DEF TypeInv, CallType, LogType
<1>1. OnePlace'
  BY <1>0 DEF OnePlace
<1>2. Unasked'
  BY <1>0, <1>a DEF Unasked, Redone
<1>3. CopyIsDead'
  <2> SUFFICES ASSUME NEW r \in todo' PROVE live'[r[2]] <= 0 \/ r[2] \in doubled'
    BY DEF CopyIsDead
  <2>1. r[2] \in Subs /\ (live[r[2]] <= 0 \/ r[2] \in doubled)
    BY <1>0, <1>a DEF CopyIsDead
  <2> QED BY <2>1, <1>a
<1>4. OneChannel'
  BY <1>0, <1>a DEF OneChannel
<1> QED BY <1>1, <1>2, <1>3, <1>4 DEF ChannelInv

\* The invariant of the channels holds after a step.
LEMMA ChannelNext == TypeInv /\ LogInv /\ ChannelInv /\ [Next]_vars => ChannelInv'
<1> SUFFICES ASSUME TypeInv, LogInv, ChannelInv, [Next]_vars PROVE ChannelInv'
  OBVIOUS
<1>0. OnePlace /\ Unasked /\ CopyIsDead /\ OneChannel
  BY DEF ChannelInv
<1>a. /\ want \in [Subs -> {"no", "asked", "on", "refused", "stopped"}]
      /\ call \in [Callers -> Calls] /\ todo \subseteq Nat \X Subs /\ live \in [Subs -> Int]
      /\ doubled \subseteq Subs /\ \A i \in DOMAIN redoLogs : i \in Nat /\ i < nextSlot /\ redoLogs[i] \in Subs
  BY DEF TypeInv, CallType, LogType
<1>b. TypeInv'
  BY TypeNext
<1>1. CASE UNCHANGED vars
  BY <1>0, <1>1 DEF vars, connVars, logVars, ChannelInv, OnePlace, Unasked, CopyIsDead, OneChannel,
                    Redone, Unlogged
<1>2. ASSUME NEW t \in Callers, SubscribeStep(t) PROVE ChannelInv'
  <2>1. Proceeds(t) /\ UNCHANGED <<rerun, mtxRecover, todo, doubled>>
    BY <1>2, StepProceeds
  <2>2. CASE Logs(t)
    <3>1. Unlogged(t) /\ ~Unlogged(t)' /\ \A u \in Callers \ {t} : call'[u] = call[u]
      BY <2>2 DEF Unlogged, Logs
    <3>2. \A u \in Callers : Unlogged(u)' => u # t /\ Unlogged(u) /\ call'[u].sub = call[u].sub
      BY <3>1 DEF Unlogged
    <3>3. \A i \in DOMAIN redoLogs : redoLogs[i] # call[t].sub
      BY <1>0, <3>1 DEF OnePlace
    <3>4. OnePlace'
      <4>1. \A i, j \in DOMAIN redoLogs' : redoLogs'[i] = redoLogs'[j] => i = j
        BY <1>0, <2>2, <3>3 DEF OnePlace, Logs
      <4>2. \A i \in DOMAIN redoLogs', r \in todo' : redoLogs'[i] # r[2]
        BY <1>0, <2>1, <2>2, <3>1 DEF OnePlace, Logs
      <4>3. \A i \in DOMAIN redoLogs', u \in Callers : Unlogged(u)' => redoLogs'[i] # call'[u].sub
        BY <1>0, <2>2, <3>1, <3>2 DEF OnePlace, Logs
      <4>4. \A r, q \in todo' : r[2] = q[2] => r = q
        BY <1>0, <2>1 DEF OnePlace
      <4>5. \A u, v \in Callers : Unlogged(u)' /\ Unlogged(v)' /\ call'[u].sub = call'[v].sub => u = v
        BY <1>0, <3>2 DEF OnePlace
      <4>6. \A r \in todo', u \in Callers : Unlogged(u)' => r[2] # call'[u].sub
        BY <1>0, <2>1, <3>2 DEF OnePlace
      <4> QED BY <4>1, <4>2, <4>3, <4>4, <4>5, <4>6 DEF OnePlace
    <3>5. Unasked'
      <4> SUFFICES ASSUME NEW s \in Subs, want'[s] = "no"
                   PROVE  live'[s] <= 0 /\ ~Redone(s)' /\ \A u \in Callers : Unlogged(u)' => call'[u].sub # s
        BY DEF Unasked
      <4>1. want[s] = "no" /\ UNCHANGED live
        BY <2>2 DEF Logs
      <4>2. live[s] <= 0 /\ ~Redone(s) /\ \A u \in Callers : Unlogged(u) => call[u].sub # s
        BY <1>0, <4>1 DEF Unasked
      <4>3. ~Redone(s)'
        BY <2>1, <2>2, <3>1, <4>2 DEF Redone, Logs
      <4> QED BY <3>2, <4>1, <4>2, <4>3
    <3>6. CopyIsDead' /\ OneChannel'
      BY <1>0, <2>1, <2>2 DEF CopyIsDead, OneChannel, Logs
    <3> QED BY <3>4, <3>5, <3>6 DEF ChannelInv
  <2>3. CASE UNCHANGED logVars /\ UNCHANGED live
    <3>1. \A u \in Callers : Unlogged(u)' => Unlogged(u) /\ call'[u].sub = call[u].sub
      <4>1. CASE UNCHANGED call
        BY <4>1 DEF Unlogged
      <4>2. CASE ~Unlogged(t)' /\ \A u \in Callers \ {t} : call'[u] = call[u]
        BY <4>2 DEF Unlogged
      <4>3. CASE Logs(t)
        BY <4>3 DEF Unlogged, Logs
      <4> QED BY <2>1, <4>1, <4>2, <4>3 DEF Proceeds, Ends, Unlogged, Idle
    <3>2. \A s \in Subs : want'[s] = "no" => want[s] = "no"
      BY <2>1, Constants DEF Proceeds, Ends, Logs
    <3>3. todo' \subseteq todo /\ doubled \subseteq doubled' /\ redoLogs' = redoLogs
      BY <2>1, <2>3 DEF logVars
    <3>4. \A s \in Subs : live'[s] <= live[s] \/ live'[s] <= 0
      BY <1>a, <2>3
    <3> QED BY <1>b, <3>1, <3>2, <3>3, <3>4, NothingGained
  <2> QED BY <2>1, <2>2, <2>3 DEF Proceeds, Ends
<1>3. ASSUME NEW s \in Subs, Subscribe(s) PROVE ChannelInv'
  <2>1. Begins(s, s) /\ s \in Callers
    BY <1>3, OpenBegins, Constants DEF Subscribe
  <2>2. want[s] = "no" /\ want' = [want EXCEPT ![s] = "asked"] /\ UNCHANGED <<todo, doubled, redoLogs>>
    BY <1>3, <2>1 DEF Subscribe, Begins, logVars
  <2>3. live[s] <= 0 /\ ~Redone(s) /\ \A t \in Callers : Unlogged(t) => call[t].sub # s
    BY <1>0, <2>2 DEF Unasked
  <2>4. /\ \A u \in Callers : Unlogged(u)' => u = s \/ (Unlogged(u) /\ call'[u].sub = call[u].sub)
        /\ Unlogged(s)' => call'[s].sub = s
    BY <2>1 DEF Begins, Unlogged, Idle
  <2>5. OnePlace'
    <3>1. \A i \in DOMAIN redoLogs' : redoLogs'[i] # s
      BY <2>2, <2>3 DEF Redone
    <3>2. \A r \in todo' : r[2] # s
      BY <2>2, <2>3 DEF Redone
    <3>3. \A u, v \in Callers : Unlogged(u)' /\ Unlogged(v)' /\ call'[u].sub = call'[v].sub => u = v
      BY <1>0, <2>3, <2>4 DEF OnePlace
    <3>4. \A i \in DOMAIN redoLogs', u \in Callers : Unlogged(u)' => redoLogs'[i] # call'[u].sub
      BY <1>0, <2>2, <2>4, <3>1 DEF OnePlace
    <3>5. \A r \in todo', u \in Callers : Unlogged(u)' => r[2] # call'[u].sub
      BY <1>0, <2>2, <2>4, <3>2 DEF OnePlace
    <3> QED BY <1>0, <2>2, <3>3, <3>4, <3>5 DEF OnePlace
  <2>6. Unasked'
    <3> SUFFICES ASSUME NEW v \in Subs, want'[v] = "no"
                 PROVE  live'[v] <= 0 /\ ~Redone(v)' /\ \A u \in Callers : Unlogged(u)' => call'[u].sub # v
      BY DEF Unasked
    <3>1. v # s /\ want[v] = "no"
      BY <1>a, <2>2
    <3>2. live[v] <= 0 /\ ~Redone(v) /\ \A u \in Callers : Unlogged(u) => call[u].sub # v
      BY <1>0, <3>1 DEF Unasked
    <3>3. live'[v] = live[v]
      BY <2>1, <3>1 DEF Begins
    <3> QED BY <2>2, <2>4, <3>1, <3>2, <3>3 DEF Redone
  <2>7. CopyIsDead'
    <3> SUFFICES ASSUME NEW r \in todo' PROVE live'[r[2]] <= 0 \/ r[2] \in doubled'
      BY DEF CopyIsDead
    <3>1. r \in todo /\ r[2] \in Subs /\ r[2] # s
      BY <1>a, <2>2, <2>3 DEF Redone
    <3>2. live'[r[2]] = live[r[2]]
      BY <2>1, <3>1 DEF Begins
    <3> QED BY <1>0, <2>2, <3>1, <3>2 DEF CopyIsDead
  <2>8. OneChannel'
    <3> SUFFICES ASSUME NEW v \in Subs, live'[v] > 1 PROVE v \in doubled'
      BY DEF OneChannel
    <3>1. CASE v = s
      BY <1>a, <2>1, <2>3, <3>1 DEF Begins
    <3>2. CASE v # s
      BY <1>0, <2>1, <2>2, <3>2 DEF Begins, OneChannel
    <3> QED BY <3>1, <3>2
  <2> QED BY <2>5, <2>6, <2>7, <2>8 DEF ChannelInv
<1>4. ASSUME NEW e \in Epochs, RecoverNext(e) PROVE ChannelInv'
  <2>1. PICK r \in todo : Open(e, r[2]) /\ todo' = todo \ {r}
    BY <1>4 DEF RecoverNext
  <2> DEFINE s == r[2]
  <2>2. s \in Subs /\ e \in Callers
    BY <1>a, <2>1, Constants
  <2>3. Begins(e, s)
    BY <2>1, <2>2, OpenBegins
  <2>4. UNCHANGED <<want, doubled, redoLogs>>
    BY <1>4, <2>3 DEF RecoverNext, Begins, logVars
  <2>5. \A q \in todo' : q \in todo /\ q[2] # s
    BY <1>0, <2>1 DEF OnePlace
  <2>6. \A i \in DOMAIN redoLogs : redoLogs[i] # s
    BY <1>0, <2>1 DEF OnePlace
  <2>7. \A u \in Callers : Unlogged(u) => call[u].sub # s
    BY <1>0, <2>1 DEF OnePlace
  <2>8. want[s] # "no"
    BY <1>0, <2>1, <2>2 DEF Unasked, Redone
  <2>9. live[s] <= 0 \/ s \in doubled
    BY <1>0, <2>1 DEF CopyIsDead
  <2> HIDE DEF s
  <2>10. /\ \A u \in Callers : Unlogged(u)' => u = e \/ (Unlogged(u) /\ call'[u].sub = call[u].sub)
         /\ Unlogged(e)' => call'[e].sub = s
    BY <2>3 DEF Begins, Unlogged, Idle
  <2>11. OnePlace'
    <3>1. \A u, v \in Callers : Unlogged(u)' /\ Unlogged(v)' /\ call'[u].sub = call'[v].sub => u = v
      BY <1>0, <2>7, <2>10 DEF OnePlace
    <3>2. \A i \in DOMAIN redoLogs', u \in Callers : Unlogged(u)' => redoLogs'[i] # call'[u].sub
      BY <1>0, <2>4, <2>6, <2>10 DEF OnePlace
    <3>3. \A q \in todo', u \in Callers : Unlogged(u)' => q[2] # call'[u].sub
      BY <1>0, <2>5, <2>10 DEF OnePlace
    <3> QED BY <1>0, <2>4, <2>5, <3>1, <3>2, <3>3 DEF OnePlace
  <2>12. Unasked'
    <3> SUFFICES ASSUME NEW v \in Subs, want'[v] = "no"
                 PROVE  live'[v] <= 0 /\ ~Redone(v)' /\ \A u \in Callers : Unlogged(u)' => call'[u].sub # v
      BY DEF Unasked
    <3>1. v # s /\ want[v] = "no"
      BY <2>4, <2>8
    <3>2. live[v] <= 0 /\ ~Redone(v) /\ \A u \in Callers : Unlogged(u) => call[u].sub # v
      BY <1>0, <3>1 DEF Unasked
    <3>3. live'[v] = live[v]
      BY <2>3, <3>1 DEF Begins
    <3> QED BY <2>4, <2>5, <2>10, <3>1, <3>2, <3>3 DEF Redone
  <2>13. CopyIsDead'
    <3> SUFFICES ASSUME NEW q \in todo' PROVE live'[q[2]] <= 0 \/ q[2] \in doubled'
      BY DEF CopyIsDead
    <3>1. q \in todo /\ q[2] \in Subs /\ q[2] # s
      BY <1>a, <2>5
    <3>2. live'[q[2]] = live[q[2]]
      BY <2>3, <3>1 DEF Begins
    <3> QED BY <1>0, <2>4, <3>1, <3>2 DEF CopyIsDead
  <2>14. OneChannel'
    <3> SUFFICES ASSUME NEW v \in Subs, live'[v] > 1 PROVE v \in doubled'
      BY DEF OneChannel
    <3>1. CASE v = s
      BY <1>a, <2>2, <2>3, <2>4, <2>9, <3>1 DEF Begins
    <3>2. CASE v # s
      BY <1>0, <2>3, <2>4, <3>2 DEF Begins, OneChannel
    <3> QED BY <3>1, <3>2
  <2> QED BY <2>11, <2>12, <2>13, <2>14 DEF ChannelInv
<1>5. ASSUME NEW e \in Epochs, RecoverLocks(e) PROVE ChannelInv'
  <2>1. /\ mtxRecover = Free /\ todo' = {<<i, redoLogs[i]>> : i \in DOMAIN redoLogs}
        /\ redoLogs' = <<>> /\ UNCHANGED <<want, call, live>>
        /\ doubled' = doubled \cup {redoLogs[i] : i \in {j \in DOMAIN redoLogs : live[redoLogs[j]] > 0}}
    BY <1>5 DEF RecoverLocks, EmptyLog
  <2>2. DOMAIN redoLogs' = {}
    BY <2>1
  <2>3. \A r \in todo' : r[1] \in DOMAIN redoLogs /\ r = <<r[1], redoLogs[r[1]]>> /\ r[2] = redoLogs[r[1]]
    BY <2>1
  <2>4. OnePlace'
    <3>1. \A r, q \in todo' : r[2] = q[2] => r = q
      BY <1>0, <2>3 DEF OnePlace
    <3>2. \A t, u \in Callers : Unlogged(t)' /\ Unlogged(u)' /\ call'[t].sub = call'[u].sub => t = u
      BY <1>0, <2>1 DEF OnePlace, Unlogged
    <3>3. \A r \in todo', t \in Callers : Unlogged(t)' => r[2] # call'[t].sub
      BY <1>0, <2>1, <2>3 DEF OnePlace, Unlogged
    <3> QED BY <2>2, <3>1, <3>2, <3>3 DEF OnePlace
  <2>5. Unasked'
    <3> SUFFICES ASSUME NEW v \in Subs, want'[v] = "no"
                 PROVE  live'[v] <= 0 /\ ~Redone(v)' /\ \A u \in Callers : Unlogged(u)' => call'[u].sub # v
      BY DEF Unasked
    <3>1. live[v] <= 0 /\ ~Redone(v) /\ \A u \in Callers : Unlogged(u) => call[u].sub # v
      BY <1>0, <2>1 DEF Unasked
    <3>2. ~Redone(v)'
      BY <2>2, <2>3, <3>1 DEF Redone
    <3> QED BY <2>1, <3>1, <3>2 DEF Unlogged
  <2>6. CopyIsDead'
    <3> SUFFICES ASSUME NEW r \in todo', ~(live[r[2]] <= 0) PROVE r[2] \in doubled'
      BY <2>1 DEF CopyIsDead
    <3>1. r[1] \in DOMAIN redoLogs /\ r[2] = redoLogs[r[1]] /\ live[r[2]] \in Int
      BY <1>a, <2>3
    <3> QED BY <2>1, <3>1
  <2>7. OneChannel'
    BY <1>0, <2>1 DEF OneChannel
  <2> QED BY <2>4, <2>5, <2>6, <2>7 DEF ChannelInv
<1>6. ASSUME NEW e \in Epochs, NEW i \in DOMAIN closes[e], Stop(e, i) PROVE ChannelInv'
  <2>1. PICK s \in Subs, slot \in Nat :
              /\ DOMAIN redoLogs' = DOMAIN redoLogs \ {slot}
              /\ \A j \in DOMAIN redoLogs' : redoLogs'[j] = redoLogs[j]
              /\ \A v \in Subs : live'[v] <= live[v]
              /\ UNCHANGED <<want, connVars, rerun, mtxRecover, todo, nextSlot, call, doubled, crashed>>
    BY <1>6, StopStops
  <2>2. \A t \in Callers : Unlogged(t)' => Unlogged(t) /\ call'[t].sub = call[t].sub
    BY <2>1 DEF Unlogged
  <2> QED BY <1>b, <2>1, <2>2, NothingGained
<1>7. CASE (\E s \in Subs : Unsubscribe(s)) \/ ConnectionDrops
             \/ \E e \in Epochs : Dial(e) \/ DialFails(e) \/ RecoverEnds(e) \/ Notified(e)
  <2>1. UNCHANGED <<todo, redoLogs, call, doubled>>
    BY <1>7 DEF Unsubscribe, ConnectionDrops, Dial, DialFails, RecoverEnds, Notified, logVars, connVars
  <2>2. \A s \in Subs : live'[s] <= live[s] \/ live'[s] <= 0
    <3>1. CASE UNCHANGED live
      BY <1>a, <3>1
    <3>2. CASE live' = [s \in Subs |-> 0]
      BY <3>2
    <3> QED BY <1>7, <3>1, <3>2 DEF Unsubscribe, ConnectionDrops, Dial, DialFails, RecoverEnds, Notified
  <2>3. \A s \in Subs : want'[s] = "no" => want[s] = "no"
    BY <1>7, <1>a DEF Unsubscribe, ConnectionDrops, Dial, DialFails, RecoverEnds, Notified
  <2>4. \A t \in Callers : Unlogged(t)' => Unlogged(t) /\ call'[t].sub = call[t].sub
    BY <2>1 DEF Unlogged
  <2> QED BY <1>b, <2>1, <2>2, <2>3, <2>4, NothingGained
<1> QED BY <1>1, <1>2, <1>3, <1>4, <1>5, <1>6, <1>7, NextSteps

\* A message is handled once, for any subscriptions, drops of the connection and stops: nobody has
\* a second open channel, but for those who were live when recover took them from the log.
THEOREM HandledOnce == Spec => []OneChannel
<1>1. Init => TypeInv /\ LogInv /\ ChannelInv
  BY TypeInit, LogInit, ChannelInit
<1>2. TypeInv /\ LogInv /\ ChannelInv /\ [Next]_vars => (TypeInv /\ LogInv /\ ChannelInv)'
  BY TypeNext, LogNext, ChannelNext
<1>3. ChannelInv => OneChannel
  BY DEF ChannelInv
<1> QED BY <1>1, <1>2, <1>3, PTL DEF Spec

=============================================================================
