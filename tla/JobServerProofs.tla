--------------------------- MODULE JobServerProofs ---------------------------
(***************************************************************************)
(* Proofs about JobServer, for any number of jobs, handlers and attempts.  *)
(***************************************************************************)
EXTENDS JobServer, TLAPS

\* Who serves has had a channel, though it may be lost.
ConnOK ==
  /\ conn \in {"none", "dialled", "open", "closed"}
  /\ process \in {"listen", "serving"} => conn \in {"open", "closed"}

\* The publisher's channel, as JobService sees it.
Channel == IF process = "serving" THEN conn ELSE "open"

\* Steps of main before it serves, which the service does not see.
Hidden == UNCHANGED service /\ Channel' = Channel

LEMMA HiddenStutters == Hidden => UNCHANGED Service!vars
  BY DEF Hidden, Channel, service, Service!vars, Service!notices

LEMMA ExitCrashes == Exit => Service!CrashRestart
  BY DEF Exit, Service!CrashRestart

LEMMA EnterHides ==
  ASSUME NEW stage, stage # "serving", process # "serving", Enter(stage)
  PROVE  Hidden
  BY DEF Enter, Hidden, Channel

LEMMA RetryHidesOrExits ==
  ASSUME NEW limit, process # "serving", Retry(limit)
  PROVE  Hidden \/ Exit
  BY DEF Retry, Hidden, Channel

\* A connection that is lost is a channel that drops, if somebody serves.
LEMMA Drops ==
  ASSUME ConnOK, UNCHANGED <<service, process>>,
         conn' = conn \/ (Connected /\ conn' = "closed")
  PROVE  Hidden \/ Service!ChannelDrop
<1>1. CASE process = "serving" /\ conn # conn'
  BY <1>1 DEF ConnOK, Connected, Service!ChannelDrop, service
<1>2. CASE process # "serving" \/ conn' = conn
  BY <1>2 DEF Hidden, Channel
<1> QED
  BY <1>1, <1>2

LEMMA NextConn == ConnOK /\ [Next]_vars => ConnOK'
  BY DEF ConnOK, Next, vars, main, Launch, Start, OpenDb, Ping, ParseRedis, Dial,
         Declare, Listen, Enter, Retry, Serve, ServeFails, Kill, Exit, DbTurns,
         CalmTurns, BrokerTurns, ChannelDrop, Connected

\* A process that begins to serve with a connection lost meanwhile shows itself
\* by a channel that drops.
LEMMA ListenDrops == ConnOK /\ Listen => Hidden \/ Exit \/ Service!ChannelDrop
<1> SUFFICES ASSUME ConnOK, Listen, ~Exit
             PROVE  Hidden \/ Service!ChannelDrop
  OBVIOUS
<1>1. Channel = "open" /\ Channel' = conn /\ conn \in {"open", "closed"}
  BY DEF ConnOK, Listen, Channel
<1>2. UNCHANGED service
  BY DEF Listen
<1>3. CASE conn = "open"
  BY <1>1, <1>2, <1>3 DEF Hidden
<1>4. CASE conn = "closed"
  BY <1>1, <1>2, <1>4 DEF Service!ChannelDrop, Channel, service
<1> QED
  BY <1>1, <1>3, <1>4

LEMMA ServeServes == Serve => Service!Next
<1>1. ASSUME NEW h \in Handlers, Proceed(h) \/ Fault(h)
      PROVE  Service!Next
  BY <1>1 DEF Proceed, Fault, Service!Fault, Service!Next
<1> QED
  BY <1>1 DEF Serve, Service!Next

\* Every step of the process is one of the service, or is not seen by it.
LEMMA NextImplements == ConnOK /\ [Next]_vars => [Service!Next]_(Service!vars)
<1> SUFFICES ASSUME ConnOK, [Next]_vars
             PROVE  Hidden \/ Service!Next
  BY HiddenStutters
<1>1. Exit \/ Service!CrashRestart \/ Service!ChannelDrop => Service!Next
  BY ExitCrashes DEF Service!Next
<1>2. CASE Launch
  BY <1>2, EnterHides DEF Launch
<1>3. CASE OpenDb
  BY <1>1, <1>3, EnterHides DEF OpenDb
<1>4. CASE Ping
  BY <1>1, <1>4, EnterHides, RetryHidesOrExits DEF Ping
<1>5. CASE ParseRedis
  BY <1>1, <1>5, EnterHides DEF ParseRedis
<1>6. CASE Dial
  BY <1>1, <1>6, RetryHidesOrExits DEF Dial, Hidden, Channel
<1>7. CASE Declare
  BY <1>1, <1>7 DEF Declare, Hidden, Channel
<1>8. CASE Listen
  BY <1>1, <1>8, ListenDrops
<1>9. CASE Serve
  BY <1>9, ServeServes
<1>10. CASE ServeFails \/ Kill
  BY <1>1, <1>10 DEF ServeFails, Kill
<1>11. CASE DbTurns \/ CalmTurns
  BY <1>11 DEF DbTurns, CalmTurns, Hidden, Channel, main
<1>12. CASE BrokerTurns
  <2>1. UNCHANGED <<service, process>>
    BY <1>12 DEF BrokerTurns
  <2>2. conn' = conn \/ (Connected /\ conn' = "closed")
    BY <1>12 DEF BrokerTurns
  <2> QED
    BY <1>1, <2>1, <2>2, Drops
<1>13. CASE ChannelDrop
  BY <1>1, <1>13, Drops DEF ChannelDrop
<1>14. CASE UNCHANGED vars
  BY <1>14 DEF vars, Hidden, Channel, main
<1> QED
  BY <1>2, <1>3, <1>4, <1>5, <1>6, <1>7, <1>8, <1>9, <1>10, <1>11, <1>12, <1>13,
     <1>14
  DEF Next, Start

LEMMA InitImplements == Init => ConnOK /\ Service!Init
  BY DEF Init, ConnOK

\* However often database and broker go and the process ends and starts again:
\* the tables, events and e-mails are those of a JobService that crashes.
THEOREM ProcessImplementsService == Spec => ImplementsService
<1>1. Init /\ [][Next]_vars => []ConnOK
  BY InitImplements, NextConn, PTL
<1> QED
  BY <1>1, InitImplements, NextImplements, PTL
  DEF Spec, ImplementsService, Service!Spec
=============================================================================
