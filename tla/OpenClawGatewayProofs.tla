----------------------- MODULE OpenClawGatewayProofs -----------------------
(***************************************************************************)
(* One client per account, subscribed on every connection, for any number  *)
(* of starts, stops, drops and rejected frames.                            *)
(***************************************************************************)
EXTENDS OpenClawGatewayProps, TLAPS

USE DEF gateway

LEMMA InitFacts == Init => TypeOK /\ GatewayInv /\ Subscribed
  <1> SUFFICES ASSUME Init PROVE TypeOK /\ GatewayInv /\ Subscribed
    OBVIOUS
  <1>1. TypeOK
    BY DEF Init, TypeOK
  <1>2. GatewayInv
    BY GatewayAssumption DEF Init, GatewayInv, ClientInv, AccountInv, Robbed, Unsettled
  <1>3. Subscribed
    BY DEF Init, Subscribed
  <1> QED BY <1>1, <1>2, <1>3

LEMMA TypeStep == TypeOK /\ GatewayInv /\ [Next]_vars => TypeOK'
  <1> SUFFICES ASSUME TypeOK, GatewayInv, [Next]_vars PROVE TypeOK'
    OBVIOUS
  <1>0. \A s \in Starts : /\ call[s] = "none" => ~timer[s]
                          /\ sock[s] = "connecting" => ~off[s]
    BY DEF GatewayInv, ClientInv
  <1> USE DEF TypeOK
  <1>1. ASSUME NEW s \in Starts, Start(s) PROVE TypeOK'
    BY <1>0, <1>1 DEF Start
  <1>2. ASSUME NEW s \in Starts, Abort(s) PROVE TypeOK'
    <2>1. /\ call' \in [Starts -> {"none", "connecting", "waiting", "stopping", "done"}]
          /\ state' = NoStart /\ pending' = NoStart /\ UNCHANGED history
      BY <1>2 DEF Abort
    <2>2. Disconnects(s)
      BY <1>2 DEF Abort
    <2> QED BY <2>1, <2>2 DEF Disconnects, history
  <1>3. CASE StopAccount
    BY <1>3 DEF StopAccount, Disconnects, history
  <1>4. ASSUME NEW s \in Starts, Open(s) PROVE TypeOK'
    BY <1>4 DEF Open, history
  <1>5. ASSUME NEW s \in Starts, ConnectFails(s) PROVE TypeOK'
    BY <1>0, <1>5 DEF ConnectFails, Ends, history
  <1>6. ASSUME NEW s \in Starts, AuthOk(s) PROVE TypeOK'
    <2>1. /\ call' \in [Starts -> {"none", "connecting", "waiting", "stopping", "done"}]
          /\ state' \in Starts \cup {NoStart} /\ pending' \in Starts \cup {NoStart}
      BY <1>6 DEF AuthOk, Established, Ends, history
    <2>2. session' \in [Starts -> BOOLEAN] /\ again' \in [Starts -> BOOLEAN]
          /\ UNCHANGED <<sock, timer, off, history>>
      BY <1>6 DEF AuthOk
    <2>3. joined' \in [Starts -> BOOLEAN]
      BY <1>6 DEF AuthOk
    <2> QED BY <2>1, <2>2, <2>3 DEF history
  <1>7. ASSUME NEW s \in Starts, AuthFails(s) PROVE TypeOK'
    BY <1>7 DEF AuthFails, Ends, history
  <1>8. ASSUME NEW s \in Starts, BadFrame(s) PROVE TypeOK'
    BY <1>8 DEF BadFrame, Ends
  <1>9. ASSUME NEW s \in Starts, Closed(s) PROVE TypeOK'
    BY <1>9 DEF Closed, Ends, history
  <1>10. ASSUME NEW s \in Starts, TimerFires(s) PROVE TypeOK'
    BY <1>10 DEF TimerFires, history
  <1>12. ASSUME NEW s \in Starts, Settles(s) PROVE TypeOK'
    BY <1>12 DEF Settles, Ends, client, history
  <1>11. CASE UNCHANGED vars
    BY <1>11 DEF vars, client, history
  <1> QED BY <1>1, <1>2, <1>3, <1>4, <1>5, <1>6, <1>7, <1>8, <1>9, <1>10, <1>11, <1>12 DEF Next

LEMMA ClientStep == TypeOK /\ GatewayInv /\ [Next]_vars => \A t \in Starts : ClientInv(t)'
  <1> SUFFICES ASSUME TypeOK, GatewayInv, [Next]_vars, NEW t \in Starts PROVE ClientInv(t)'
    OBVIOUS
  <1>0. ClientInv(t)
    BY DEF GatewayInv
  <1> USE GatewayAssumption DEF TypeOK, ClientInv, Unsettled
  <1>1. ASSUME NEW s \in Starts, Start(s) PROVE ClientInv(t)'
    BY <1>0, <1>1 DEF Start, history
  <1>2. ASSUME NEW s \in Starts, Abort(s) PROVE ClientInv(t)'
    BY <1>0, <1>2 DEF Abort, Disconnects, history
  <1>3. CASE StopAccount
    <2>1. state \in Starts /\ call[state] = "waiting"
      BY <1>3 DEF StopAccount, GatewayInv, AccountInv
    <2> QED BY <1>0, <1>3, <2>1 DEF StopAccount, Disconnects, GatewayInv, history
  <1>4. ASSUME NEW s \in Starts, Settles(s) PROVE ClientInv(t)'
    BY <1>0, <1>4 DEF Settles, Ends, history, client
  <1>5. ASSUME NEW s \in Starts, Open(s) PROVE ClientInv(t)'
    BY <1>0, <1>5 DEF Open, history
  <1>6. ASSUME NEW s \in Starts, ConnectFails(s) PROVE ClientInv(t)'
    BY <1>0, <1>6 DEF ConnectFails, Ends, history
  <1>7. ASSUME NEW s \in Starts, AuthOk(s) PROVE ClientInv(t)'
    BY <1>0, <1>7 DEF AuthOk, Established, Ends, history
  <1>8. ASSUME NEW s \in Starts, AuthFails(s) PROVE ClientInv(t)'
    BY <1>0, <1>8 DEF AuthFails, Ends, history
  <1>9. ASSUME NEW s \in Starts, BadFrame(s) PROVE ClientInv(t)'
    BY <1>0, <1>9 DEF BadFrame, Ends, history
  <1>10. ASSUME NEW s \in Starts, Closed(s) PROVE ClientInv(t)'
    BY <1>0, <1>10 DEF Closed, Ends, history
  <1>11. ASSUME NEW s \in Starts, TimerFires(s) PROVE ClientInv(t)'
    BY <1>0, <1>11 DEF TimerFires, history
  <1>12. CASE UNCHANGED vars
    BY <1>0, <1>12 DEF vars, client, history
  <1> QED BY <1>1, <1>2, <1>3, <1>4, <1>5, <1>6, <1>7, <1>8, <1>9, <1>10, <1>11, <1>12 DEF Next

\* A start that settles takes the entries of no start but a robbed one's.
LEMMA EndsKeeps ==
  ASSUME TypeOK, GatewayInv, NEW s \in Starts, Unsettled(s), Ends(s), UNCHANGED <<off, older>>,
         NEW t \in Starts
  PROVE  AccountInv(t)'
  <1>1. AccountInv(t) /\ ClientInv(t) /\ <<s, off[s]>> \in Starts \X BOOLEAN
    BY DEF GatewayInv, TypeOK
  <1>2. CASE t = s
    BY <1>1, <1>2, GatewayAssumption DEF AccountInv, Ends, Unsettled, TypeOK
  <1>3. CASE t # s
    <2>1. call'[s] = "done" /\ call'[t] = call[t] /\ state' = NoStart /\ pending' = NoStart
      BY <1>3 DEF Ends, TypeOK
    <2>2. \A r \in Starts : call[r] = "done" => call'[r] = "done"
      BY DEF Ends, TypeOK
    <2>3. Robbed(t) => Robbed(t)'
      BY <2>2 DEF Robbed, TypeOK
    <2>4. Unsettled(t) /\ ~off[t] => Robbed(t)'
      <3> SUFFICES ASSUME Unsettled(t), ~off[t], ~Robbed(t) PROVE Robbed(t)'
        BY <2>3
      <3>1. <<s, off[s]>> \in older[t]
        BY <1>1, <1>3 DEF AccountInv
      <3> QED BY <2>1, <3>1 DEF Robbed
    <2>5. \A o \in older'[t] : o[1] # t /\ call'[o[1]] # "none"
      BY <1>1 DEF AccountInv, Ends, TypeOK
    <2> QED BY <1>1, <2>1, <2>4, <2>5, GatewayAssumption DEF AccountInv, ClientInv, Unsettled
  <1> QED BY <1>2, <1>3

\* One that is stopped, too.
LEMMA StopKeeps ==
  ASSUME TypeOK, GatewayInv, NEW s \in Starts, Unsettled(s), ~off[s],
         off' = [off EXCEPT ![s] = TRUE], UNCHANGED older,
         NEW c, c \in {"connecting", "stopping"}, call' = [call EXCEPT ![s] = c],
         state' = NoStart, pending' \in {NoStart, pending}, NEW t \in Starts
  PROVE  AccountInv(t)'
  <1>1. AccountInv(t) /\ ClientInv(t) /\ <<s, off[s]>> \in Starts \X BOOLEAN
    BY DEF GatewayInv, TypeOK
  <1>2. /\ \A r \in Starts : call[r] = "done" => call'[r] = "done"
        /\ \A r \in Starts : call[r] # "none" => call'[r] # "none"
    BY DEF TypeOK, Unsettled
  <1>3. \A o \in older'[t] : o[1] # t /\ call'[o[1]] # "none"
    BY <1>1, <1>2 DEF AccountInv, TypeOK
  <1>4. Robbed(t) => Robbed(t)'
    BY <1>2 DEF Robbed, TypeOK
  <1>5. pending' = t => Unsettled(t)'
    BY <1>1, GatewayAssumption DEF AccountInv, Unsettled, TypeOK
  <1>6. CASE t = s
    BY <1>1, <1>3, <1>5, <1>6, GatewayAssumption DEF AccountInv, Unsettled, TypeOK
  <1>7. CASE t # s
    <2>1. call'[t] = call[t] /\ off'[t] = off[t]
      BY <1>7 DEF TypeOK
    <2>2. Unsettled(t) /\ ~off[t] => Robbed(t)'
      <3> SUFFICES ASSUME Unsettled(t), ~off[t], ~Robbed(t) PROVE Robbed(t)'
        BY <1>4
      <3>1. <<s, off[s]>> \in older[t]
        BY <1>1, <1>7 DEF AccountInv
      <3> QED BY <3>1 DEF Robbed
    <2> QED BY <1>1, <1>3, <1>5, <2>1, <2>2, GatewayAssumption DEF AccountInv, ClientInv, Unsettled
  <1> QED BY <1>6, <1>7

LEMMA StartKeeps ==
  ASSUME TypeOK, GatewayInv, NEW s \in Starts, Start(s), NEW t \in Starts
  PROVE  AccountInv(t)'
  <1>1. AccountInv(t) /\ ClientInv(t)
    BY DEF GatewayInv
  <1>2. /\ call[s] = "none" /\ pending = NoStart /\ state = NoStart /\ pending' = s
        /\ state' = NoStart /\ call'[s] = "connecting" /\ off' = off
        /\ \A r \in Starts : r # s => call'[r] = call[r] /\ older'[r] = older[r]
        /\ older'[s] = {<<r, off[r]>> : r \in {r \in Starts : Unsettled(r)}}
    BY DEF Start, TypeOK
  <1>3. CASE t = s
    <2>1. \A r \in Starts : Unsettled(r)' => r = s \/ <<r, off'[r]>> \in older'[s]
      BY <1>2 DEF Unsettled
    <2>2. \A o \in older'[s] : o[1] # s /\ call'[o[1]] # "none"
      BY <1>2 DEF Unsettled
    <2> QED BY <1>2, <1>3, <2>1, <2>2, GatewayAssumption DEF AccountInv, Unsettled
  <1>4. CASE t # s
    <2>1. Robbed(t) => Robbed(t)'
      BY <1>2, <1>4 DEF Robbed, TypeOK
    <2>2. ~(Unsettled(t) /\ ~off[t] /\ ~Robbed(t))
      BY <1>1, <1>2, GatewayAssumption DEF AccountInv
    <2>3. \A o \in older'[t] : o[1] # t /\ call'[o[1]] # "none"
      BY <1>1, <1>2, <1>4 DEF AccountInv, TypeOK
    <2> QED BY <1>1, <1>2, <1>4, <2>1, <2>2, <2>3, GatewayAssumption DEF AccountInv, ClientInv, Unsettled
  <1> QED BY <1>3, <1>4

LEMMA EstablishedKeeps ==
  ASSUME TypeOK, GatewayInv, NEW s \in Starts, call[s] = "connecting", Established(s),
         UNCHANGED <<off, older>>, NEW t \in Starts
  PROVE  AccountInv(t)'
  <1>1. AccountInv(t) /\ ClientInv(t) /\ AccountInv(s) /\ <<s, off[s]>> \in Starts \X BOOLEAN
    BY DEF GatewayInv, TypeOK
  <1>2. CASE off[s]
    BY <1>2, EndsKeeps DEF Established, Unsettled
  <1>3. CASE ~off[s]
    <2>1. /\ call'[s] = "waiting" /\ state' = s /\ pending' = pending
          /\ \A r \in Starts : r # s => call'[r] = call[r]
      BY <1>3 DEF Established, TypeOK
    <2>2. Robbed(t) <=> Robbed(t)'
      BY <2>1 DEF Robbed, TypeOK
    <2>3. \A o \in older'[t] : o[1] # t /\ call'[o[1]] # "none"
      BY <1>1, <2>1 DEF AccountInv, TypeOK
    <2>4. CASE t = s
      BY <1>1, <2>1, <2>2, <2>3, <2>4, <1>3 DEF AccountInv, Unsettled
    <2>5. CASE t # s
      <3>1. Unsettled(t) /\ ~off[t] => Robbed(t)
        <4> SUFFICES ASSUME Unsettled(t), ~off[t], ~Robbed(t) PROVE FALSE
          OBVIOUS
        <4>1. <<s, off[s]>> \in older[t]
          BY <1>1, <2>5 DEF AccountInv, Unsettled
        <4> QED BY <1>3, <4>1 DEF Robbed
      <3> QED BY <1>1, <2>1, <2>2, <2>3, <2>5, <3>1 DEF AccountInv, ClientInv, Unsettled
    <2> QED BY <2>4, <2>5
  <1> QED BY <1>2, <1>3

LEMMA SameKeeps ==
  ASSUME GatewayInv, UNCHANGED <<call, state, pending, off, older>>, NEW t \in Starts
  PROVE  AccountInv(t)'
  BY DEF GatewayInv, AccountInv, Robbed, Unsettled

LEMMA AccountStep == TypeOK /\ GatewayInv /\ [Next]_vars => \A t \in Starts : AccountInv(t)'
  <1> SUFFICES ASSUME TypeOK, GatewayInv, [Next]_vars, NEW t \in Starts PROVE AccountInv(t)'
    OBVIOUS
  <1>0. \A s \in Starts : ClientInv(s) /\ AccountInv(s)
    BY DEF GatewayInv
  <1>1. ASSUME NEW s \in Starts, Start(s) PROVE AccountInv(t)'
    BY <1>1, StartKeeps
  <1>2. ASSUME NEW s \in Starts, Abort(s) PROVE AccountInv(t)'
    <2>1. PICK c \in {"connecting", "stopping"} : call' = [call EXCEPT ![s] = c]
      <3>1. CASE call[s] = "waiting"
        BY <1>2, <3>1 DEF Abort, TypeOK
      <3>2. CASE call[s] # "waiting"
        <4>1. call[s] = "connecting"
          BY <1>0, <1>2, <3>2 DEF Abort, ClientInv, Unsettled
        <4> QED BY <1>2, <4>1 DEF Abort, TypeOK
      <3> QED BY <3>1, <3>2
    <2> QED BY <1>2, <2>1, StopKeeps DEF Abort, Disconnects, history
  <1>3. CASE StopAccount
    <2>1. state \in Starts /\ call[state] = "waiting" /\ ~off[state]
      BY <1>0, <1>3 DEF StopAccount, AccountInv, ClientInv, TypeOK
    <2> DEFINE c == "stopping"
    <2>2. c \in {"connecting", "stopping"} /\ call' = [call EXCEPT ![state] = c]
      BY <1>3 DEF StopAccount
    <2> HIDE DEF c
    <2> QED BY <1>3, <2>1, <2>2, StopKeeps DEF StopAccount, Disconnects, history, Unsettled
  <1>4. ASSUME NEW s \in Starts, Settles(s) PROVE AccountInv(t)'
    BY <1>4, EndsKeeps DEF Settles, Unsettled, client, history
  <1>5. ASSUME NEW s \in Starts, Open(s) \/ TimerFires(s) PROVE AccountInv(t)'
    BY <1>5, SameKeeps DEF Open, TimerFires, gateway, history
  <1>6. ASSUME NEW s \in Starts, ConnectFails(s) PROVE AccountInv(t)'
    <2>1. ~again[s] => Unsettled(s)
      BY <1>0, <1>6 DEF ConnectFails, ClientInv
    <2> QED BY <1>6, <2>1, EndsKeeps, SameKeeps DEF ConnectFails, gateway, history
  <1>7. ASSUME NEW s \in Starts, AuthOk(s) PROVE AccountInv(t)'
    <2>1. ~again[s] => call[s] = "connecting"
      BY <1>0, <1>7 DEF AuthOk, ClientInv, Unsettled
    <2> QED BY <1>7, <2>1, EstablishedKeeps, SameKeeps DEF AuthOk, gateway, history
  <1>8. ASSUME NEW s \in Starts, AuthFails(s) PROVE AccountInv(t)'
    BY <1>8, EndsKeeps, SameKeeps DEF AuthFails, gateway, history, Unsettled
  <1>9. ASSUME NEW s \in Starts, BadFrame(s) PROVE AccountInv(t)'
    BY <1>9, EndsKeeps, SameKeeps DEF BadFrame, gateway, Unsettled
  <1>10. ASSUME NEW s \in Starts, Closed(s) PROVE AccountInv(t)'
    BY <1>10, EndsKeeps, SameKeeps DEF Closed, gateway, history, Unsettled
  <1>11. CASE UNCHANGED vars
    BY <1>11, SameKeeps DEF vars, client, gateway, history
  <1> QED BY <1>1, <1>2, <1>3, <1>4, <1>5, <1>6, <1>7, <1>8, <1>9, <1>10, <1>11 DEF Next

LEMMA InvStep == TypeOK /\ GatewayInv /\ [Next]_vars => GatewayInv'
  BY ClientStep, AccountStep DEF GatewayInv

LEMMA SubscribedStep == TypeOK /\ GatewayInv /\ Subscribed /\ [Next]_vars => Subscribed'
  <1> SUFFICES ASSUME TypeOK, GatewayInv, Subscribed, [Next]_vars PROVE Subscribed'
    OBVIOUS
  <1>0. \A s \in Starts : sock[s] = "connecting" => ~session[s]
    BY DEF GatewayInv, ClientInv
  <1> USE DEF TypeOK, Subscribed
  <1>1. ASSUME NEW s \in Starts, Start(s) PROVE Subscribed'
    BY <1>1 DEF Start
  <1>2. ASSUME NEW s \in Starts, Disconnects(s) PROVE Subscribed'
    BY <1>2 DEF Disconnects
  <1>3. ASSUME NEW s \in Starts, Open(s) PROVE Subscribed'
    BY <1>0, <1>3 DEF Open, history
  <1>4. ASSUME NEW s \in Starts, AuthOk(s) PROVE Subscribed'
    BY <1>4 DEF AuthOk
  <1>5. ASSUME NEW s \in Starts, Settles(s) \/ ConnectFails(s) \/ AuthFails(s) \/ BadFrame(s) \/ TimerFires(s)
        PROVE  Subscribed'
    BY <1>5 DEF Settles, client, ConnectFails, AuthFails, BadFrame, TimerFires
  <1>6. ASSUME NEW s \in Starts, Closed(s) PROVE Subscribed'
    BY <1>6 DEF Closed
  <1>7. CASE UNCHANGED vars
    BY <1>7 DEF vars, client, history
  <1> QED BY <1>1, <1>2, <1>3, <1>4, <1>5, <1>6, <1>7 DEF Next, Abort, StopAccount

\* The gateway's state keeps its shape; a reconnect timer belongs to a client that
\* has no socket and was not disconnected.
THEOREM GatewayTypeCorrect == Spec => []TypeOK
  <1>1. TypeOK /\ GatewayInv /\ [Next]_vars => (TypeOK /\ GatewayInv)'
    BY TypeStep, InvStep
  <1> QED BY <1>1, InitFacts, PTL DEF Spec

\* A client with a session, or about to get one again, is the one in gatewayStates,
\* with a start that waits for it: unless a rejected frame settled that start, or a
\* stopped one that settled late deleted the entries (startAccount, gateway.ts:301).
THEOREM OneClientHolds == Spec => []OneClient
  <1>1. TypeOK /\ GatewayInv /\ [Next]_vars => (TypeOK /\ GatewayInv)'
    BY TypeStep, InvStep
  <1>2. TypeOK /\ GatewayInv => OneClient
    BY DEF TypeOK, GatewayInv, ClientInv, AccountInv, OneClient, Alive
  <1> QED BY <1>1, <1>2, InitFacts, PTL DEF Spec

\* Every session has joined the account's channel on its own socket.
THEOREM SubscribedHolds == Spec => []Subscribed
  <1>1. TypeOK /\ GatewayInv /\ Subscribed /\ [Next]_vars
          => (TypeOK /\ GatewayInv /\ Subscribed)'
    BY TypeStep, InvStep, SubscribedStep
  <1> QED BY <1>1, InitFacts, PTL DEF Spec
=============================================================================
