----------------------- MODULE SafetyHandshake_proofs ------------------------
(***************************************************************************)
(* For any number of pandas, drives, OBD requests and restarts of pandad:  *)
(* types, and that the car's safety mode is only open on this drive's      *)
(* CarParams, by HandshakeInv of SafetyHandshake; and, until pandad        *)
(* restarts, the OBD half of the protocol, by ObdInv.                      *)
(***************************************************************************)
EXTENDS SafetyHandshake, TLAPS

\* HandshakeInv holds initially.
LEMMA InitHolds == Init => HandshakeInv
<1>1. Init => CountersOK BY HandshakeAssumption DEF Init, CountersOK, SafetyModels
<1>2. Init => FlagsOK BY DEF Init, FlagsOK
<1>3. QED
  BY <1>1, <1>2
  DEF Init, HandshakeInv, CardOnlyWhileOnroad, ParamsFollowCard, ParamsCleared,
      CarModeIsThisDrives

\* The manager and the ignition preserve HandshakeInv: the clear leaves no params.
LEMMA ManagerStep ==
  ASSUME HandshakeInv, Manager \/ IgnitionOn \/ IgnitionOff
  PROVE  HandshakeInv'
<1> USE DEF HandshakeInv, paramVars, mgrVars, cardVars, pandadVars, pandaVars
<1>1. CASE ClearOnroadParams
  <2>1. CountersOK' BY <1>1, HandshakeAssumption DEF CountersOK, SafetyModels, ClearOnroadParams
  <2>2. FlagsOK' BY <1>1 DEF FlagsOK, ClearOnroadParams
  <2>3. (CardOnlyWhileOnroad /\ ParamsFollowCard /\ ParamsCleared /\ CarModeIsThisDrives)'
    BY <1>1
    DEF CountersOK, CardOnlyWhileOnroad, ParamsFollowCard, ParamsCleared,
        CarModeIsThisDrives, ClearOnroadParams
  <2>4. QED BY <2>1, <2>2, <2>3
<1>2. CASE WriteOnroad
  <2>1. CountersOK' BY <1>2, HandshakeAssumption DEF CountersOK, SafetyModels, WriteOnroad
  <2>2. FlagsOK' BY <1>2 DEF FlagsOK, WriteOnroad
  <2>3. (CardOnlyWhileOnroad /\ ParamsFollowCard /\ ParamsCleared /\ CarModeIsThisDrives)'
    BY <1>2
    DEF CountersOK, CardOnlyWhileOnroad, ParamsFollowCard, ParamsCleared,
        CarModeIsThisDrives, WriteOnroad
  <2>4. QED BY <2>1, <2>2, <2>3
<1>3. CASE StartCard
  <2>1. CountersOK' BY <1>3, HandshakeAssumption DEF CountersOK, SafetyModels, StartCard
  <2>2. FlagsOK' BY <1>3 DEF FlagsOK, StartCard
  <2>3. (CardOnlyWhileOnroad /\ ParamsFollowCard /\ ParamsCleared /\ CarModeIsThisDrives)'
    BY <1>3
    DEF CountersOK, CardOnlyWhileOnroad, ParamsFollowCard, ParamsCleared,
        CarModeIsThisDrives, StartCard
  <2>4. QED BY <2>1, <2>2, <2>3
<1>4. CASE WriteOffroad
  <2>1. CountersOK' BY <1>4, HandshakeAssumption DEF CountersOK, SafetyModels, WriteOffroad
  <2>2. FlagsOK' BY <1>4 DEF FlagsOK, WriteOffroad
  <2>3. (CardOnlyWhileOnroad /\ ParamsFollowCard /\ ParamsCleared /\ CarModeIsThisDrives)'
    BY <1>4
    DEF CountersOK, CardOnlyWhileOnroad, ParamsFollowCard, ParamsCleared,
        CarModeIsThisDrives, WriteOffroad
  <2>4. QED BY <2>1, <2>2, <2>3
<1>5. CASE StopCard
  <2>1. CountersOK' BY <1>5, HandshakeAssumption DEF CountersOK, SafetyModels, StopCard
  <2>2. FlagsOK' BY <1>5 DEF FlagsOK, StopCard
  <2>3. (CardOnlyWhileOnroad /\ ParamsFollowCard /\ ParamsCleared /\ CarModeIsThisDrives)'
    BY <1>5
    DEF CountersOK, CardOnlyWhileOnroad, ParamsFollowCard, ParamsCleared,
        CarModeIsThisDrives, StopCard
  <2>4. QED BY <2>1, <2>2, <2>3
<1>6. CASE IgnitionOn
  <2>1. CountersOK' BY <1>6, HandshakeAssumption DEF CountersOK, SafetyModels, IgnitionOn
  <2>2. FlagsOK' BY <1>6 DEF FlagsOK, IgnitionOn
  <2>3. (CardOnlyWhileOnroad /\ ParamsFollowCard /\ ParamsCleared /\ CarModeIsThisDrives)'
    BY <1>6
    DEF CountersOK, CardOnlyWhileOnroad, ParamsFollowCard, ParamsCleared,
        CarModeIsThisDrives, IgnitionOn
  <2>4. QED BY <2>1, <2>2, <2>3
<1>7. CASE IgnitionOff
  <2>1. CountersOK' BY <1>7, HandshakeAssumption DEF CountersOK, SafetyModels, IgnitionOff
  <2>2. FlagsOK' BY <1>7 DEF FlagsOK, IgnitionOff
  <2>3. (CardOnlyWhileOnroad /\ ParamsFollowCard /\ ParamsCleared /\ CarModeIsThisDrives)'
    BY <1>7
    DEF CountersOK, CardOnlyWhileOnroad, ParamsFollowCard, ParamsCleared,
        CarModeIsThisDrives, IgnitionOff
  <2>4. QED BY <2>1, <2>2, <2>3
<1>8. QED BY <1>1, <1>2, <1>3, <1>4, <1>5, <1>6, <1>7 DEF Manager

\* card preserves HandshakeInv: it runs only between the start and the stop, and
\* ControlsReady is queued only by a card that is ready.
LEMMA CardStep ==
  ASSUME HandshakeInv, Card
  PROVE  HandshakeInv'
<1> USE DEF HandshakeInv, paramVars, mgrVars, cardVars, pandadVars, pandaVars
<1>1. CASE RequestObd
  <2>1. CountersOK' BY <1>1, HandshakeAssumption DEF CountersOK, SafetyModels, RequestObd, CardOnly, SetCard
  <2>2. FlagsOK' BY <1>1 DEF FlagsOK, RequestObd, CardOnly, SetCard
  <2>3. (CardOnlyWhileOnroad /\ ParamsFollowCard /\ ParamsCleared /\ CarModeIsThisDrives)'
    BY <1>1
    DEF CountersOK, CardOnlyWhileOnroad, ParamsFollowCard, ParamsCleared,
        CarModeIsThisDrives, RequestObd, CardOnly, SetCard
  <2>4. QED BY <2>1, <2>2, <2>3
<1>2. CASE PutObd
  <2>1. CountersOK' BY <1>2, HandshakeAssumption DEF CountersOK, SafetyModels, PutObd, CardOnly, SetCard
  <2>2. FlagsOK' BY <1>2 DEF FlagsOK, PutObd, CardOnly, SetCard
  <2>3. (CardOnlyWhileOnroad /\ ParamsFollowCard /\ ParamsCleared /\ CarModeIsThisDrives)'
    BY <1>2
    DEF CountersOK, CardOnlyWhileOnroad, ParamsFollowCard, ParamsCleared,
        CarModeIsThisDrives, PutObd, CardOnly, SetCard
  <2>4. QED BY <2>1, <2>2, <2>3
<1>3. CASE ObdAcknowledged
  <2>1. CountersOK' BY <1>3, HandshakeAssumption DEF CountersOK, SafetyModels, ObdAcknowledged, CardOnly, SetCard
  <2>2. FlagsOK' BY <1>3 DEF FlagsOK, ObdAcknowledged, CardOnly, SetCard
  <2>3. (CardOnlyWhileOnroad /\ ParamsFollowCard /\ ParamsCleared /\ CarModeIsThisDrives)'
    BY <1>3
    DEF CountersOK, CardOnlyWhileOnroad, ParamsFollowCard, ParamsCleared,
        CarModeIsThisDrives, ObdAcknowledged, CardOnly, SetCard
  <2>4. QED BY <2>1, <2>2, <2>3
<1>4. CASE FingerprintDone
  <2>1. CountersOK' BY <1>4, HandshakeAssumption DEF CountersOK, SafetyModels, FingerprintDone, CardOnly, SetCard
  <2>2. FlagsOK' BY <1>4 DEF FlagsOK, FingerprintDone, CardOnly, SetCard
  <2>3. (CardOnlyWhileOnroad /\ ParamsFollowCard /\ ParamsCleared /\ CarModeIsThisDrives)'
    BY <1>4
    DEF CountersOK, CardOnlyWhileOnroad, ParamsFollowCard, ParamsCleared,
        CarModeIsThisDrives, FingerprintDone, CardOnly, SetCard
  <2>4. QED BY <2>1, <2>2, <2>3
<1>5. CASE PutCarParams
  <2>1. CountersOK' BY <1>5, HandshakeAssumption DEF CountersOK, SafetyModels, PutCarParams, CardOnly, SetCard
  <2>2. FlagsOK' BY <1>5 DEF FlagsOK, PutCarParams, CardOnly, SetCard
  <2>3. (CardOnlyWhileOnroad /\ ParamsFollowCard /\ ParamsCleared /\ CarModeIsThisDrives)'
    BY <1>5
    DEF CountersOK, CardOnlyWhileOnroad, ParamsFollowCard, ParamsCleared,
        CarModeIsThisDrives, PutCarParams, CardOnly, SetCard
  <2>4. QED BY <2>1, <2>2, <2>3
<1>6. CASE ControlsInit
  <2>1. CountersOK' BY <1>6, HandshakeAssumption DEF CountersOK, SafetyModels, ControlsInit, CardOnly, SetCard
  <2>2. FlagsOK' BY <1>6 DEF FlagsOK, ControlsInit, CardOnly, SetCard
  <2>3. (CardOnlyWhileOnroad /\ ParamsFollowCard /\ ParamsCleared /\ CarModeIsThisDrives)'
    BY <1>6
    DEF CountersOK, CardOnlyWhileOnroad, ParamsFollowCard, ParamsCleared,
        CarModeIsThisDrives, ControlsInit, CardOnly, SetCard
  <2>4. QED BY <2>1, <2>2, <2>3
<1>7. CASE WriteControlsReady
  <2>1. CountersOK' BY <1>7, HandshakeAssumption DEF CountersOK, SafetyModels, WriteControlsReady, CardOnly, SetCard
  <2>2. FlagsOK' BY <1>7 DEF FlagsOK, WriteControlsReady, CardOnly, SetCard
  <2>3. (CardOnlyWhileOnroad /\ ParamsFollowCard /\ ParamsCleared /\ CarModeIsThisDrives)'
    BY <1>7
    DEF CountersOK, CardOnlyWhileOnroad, ParamsFollowCard, ParamsCleared,
        CarModeIsThisDrives, WriteControlsReady, CardOnly, SetCard
  <2>4. QED BY <2>1, <2>2, <2>3
<1>8. QED BY <1>1, <1>2, <1>3, <1>4, <1>5, <1>6, <1>7 DEF Card

\* pandad preserves HandshakeInv: only Configure opens the car's mode, and it needs
\* ControlsReady and CarParams, both this drive's while the manager is onroad.
LEMMA PandadStep ==
  ASSUME HandshakeInv, Pandad \/ RestartPandad
  PROVE  HandshakeInv'
<1> USE DEF HandshakeInv, paramVars, mgrVars, cardVars, pandadVars, pandaVars
<1>1. CASE PandaState
  <2>1. CountersOK' BY <1>1, HandshakeAssumption DEF CountersOK, SafetyModels, PandaState, PandadOnly
  <2>2. FlagsOK' BY <1>1 DEF FlagsOK, PandaState, PandadOnly
  <2>3. (CardOnlyWhileOnroad /\ ParamsFollowCard /\ ParamsCleared /\ CarModeIsThisDrives)'
    BY <1>1
    DEF CountersOK, CardOnlyWhileOnroad, ParamsFollowCard, ParamsCleared,
        CarModeIsThisDrives, PandaState, PandadOnly
  <2>4. QED BY <2>1, <2>2, <2>3
<1>2. CASE SkipConfigure
  <2>1. CountersOK' BY <1>2, HandshakeAssumption DEF CountersOK, SafetyModels, SkipConfigure, PandadOnly
  <2>2. FlagsOK' BY <1>2 DEF FlagsOK, SkipConfigure, PandadOnly
  <2>3. (CardOnlyWhileOnroad /\ ParamsFollowCard /\ ParamsCleared /\ CarModeIsThisDrives)'
    BY <1>2
    DEF CountersOK, CardOnlyWhileOnroad, ParamsFollowCard, ParamsCleared,
        CarModeIsThisDrives, SkipConfigure, PandadOnly
  <2>4. QED BY <2>1, <2>2, <2>3
<1>3. CASE Multiplex
  <2>1. CountersOK' BY <1>3, HandshakeAssumption DEF CountersOK, SafetyModels, Multiplex, ElmMode, PandadOnly
  <2>2. FlagsOK' BY <1>3 DEF FlagsOK, Multiplex, ElmMode, PandadOnly
  <2>3. (CardOnlyWhileOnroad /\ ParamsFollowCard /\ ParamsCleared /\ CarModeIsThisDrives)'
    BY <1>3
    DEF CountersOK, CardOnlyWhileOnroad, ParamsFollowCard, ParamsCleared,
        CarModeIsThisDrives, Multiplex, ElmMode, PandadOnly
  <2>4. QED BY <2>1, <2>2, <2>3
<1>4. CASE Configure
  <2>1. CountersOK' BY <1>4, HandshakeAssumption DEF CountersOK, SafetyModels, Configure, FetchReady, Modes, PandadOnly
  <2>2. FlagsOK' BY <1>4 DEF FlagsOK, Configure, FetchReady, Modes, PandadOnly
  <2>3. (CardOnlyWhileOnroad /\ ParamsFollowCard /\ ParamsCleared /\ CarModeIsThisDrives)'
    BY <1>4
    DEF CountersOK, CardOnlyWhileOnroad, ParamsFollowCard, ParamsCleared,
        CarModeIsThisDrives, Configure, FetchReady, Modes, PandadOnly
  <2>4. QED BY <2>1, <2>2, <2>3
<1>5. CASE RestartPandad
  <2>1. CountersOK' BY <1>5, HandshakeAssumption DEF CountersOK, SafetyModels, RestartPandad
  <2>2. FlagsOK' BY <1>5 DEF FlagsOK, RestartPandad
  <2>3. (CardOnlyWhileOnroad /\ ParamsFollowCard /\ ParamsCleared /\ CarModeIsThisDrives)'
    BY <1>5
    DEF CountersOK, CardOnlyWhileOnroad, ParamsFollowCard, ParamsCleared,
        CarModeIsThisDrives, RestartPandad
  <2>4. QED BY <2>1, <2>2, <2>3
<1>6. QED BY <1>1, <1>2, <1>3, <1>4, <1>5 DEF Pandad

-----------------------------------------------------------------------------
(* The OBD requests.                                                       *)

\* PandaSafety forgets what it did as soon as it has seen the device offroad, and has seen
\* it before the next drive begins.
LoopOK ==
  /\ isOnroad <=> mgr \in {"written", "onroad"}
  /\ tick = "multiplexed" => onroadSeen
  /\ mgr = "cleared" => ~onroadSeen
  /\ ~onroadSeen /\ (tick # "states" \/ mgr \in {"cleared", "written", "onroad"}) => ~initialized

\* Until pandad restarts it agrees with card on the request, but while card waits.
RequestOK ==
  restarts = 0 =>
    /\ mgr \in {"cleared", "written"} => ~obdMultiplexingEnabled /\ ~PrevObd
    /\ mgr = "onroad" =>
         IF card = "waiting"
         THEN /\ obdMultiplexingChanged <=> (obdMultiplexingEnabled = PrevObd)
              /\ ~obdMultiplexingEnabled => initialized
         ELSE /\ obdMultiplexingEnabled = PrevObd
              /\ card = "removed" => ~obdMultiplexingChanged
              /\ card \notin {"fingerprint", "removed"} => ~obdMultiplexingEnabled

\* The port is open on the first panda, in a drive only after a request pandad has served.
PortOK ==
  restarts = 0 => \A p \in Pandas : safetyModel[p] = "elm327obd" =>
    p = FirstPanda /\ mgr \notin {"cleared", "written"} /\ (mgr = "onroad" => PrevObd)

ObdInv == LoopOK /\ RequestOK /\ PortOK

LEMMA InitObd == Init => ObdInv
BY DEF Init, ObdInv, LoopOK, RequestOK, PortOK, PrevObd

\* Each step preserves ObdInv.
LEMMA ObdStep ==
  ASSUME HandshakeInv, ObdInv, [Next]_vars
  PROVE  ObdInv'
<1> USE DEF HandshakeInv, FlagsOK, CountersOK, CardOnlyWhileOnroad, ObdInv, PrevObd,
            paramVars, mgrVars, cardVars, pandadVars, pandaVars
<1>1. CASE ClearOnroadParams
  <2>1. LoopOK' BY <1>1 DEF ClearOnroadParams, LoopOK
  <2>2. RequestOK' BY <1>1 DEF ClearOnroadParams, LoopOK, RequestOK
  <2>3. PortOK' BY <1>1, HandshakeAssumption DEF ClearOnroadParams, LoopOK, RequestOK, PortOK
  <2>4. QED BY <2>1, <2>2, <2>3
<1>2. CASE WriteOnroad
  <2>1. LoopOK' BY <1>2 DEF WriteOnroad, LoopOK
  <2>2. RequestOK' BY <1>2 DEF WriteOnroad, LoopOK, RequestOK
  <2>3. PortOK' BY <1>2, HandshakeAssumption DEF WriteOnroad, LoopOK, RequestOK, PortOK
  <2>4. QED BY <2>1, <2>2, <2>3
<1>3. CASE StartCard
  <2>1. LoopOK' BY <1>3 DEF StartCard, LoopOK
  <2>2. RequestOK' BY <1>3 DEF StartCard, LoopOK, RequestOK
  <2>3. PortOK' BY <1>3, HandshakeAssumption DEF StartCard, LoopOK, RequestOK, PortOK
  <2>4. QED BY <2>1, <2>2, <2>3
<1>4. CASE WriteOffroad
  <2>1. LoopOK' BY <1>4 DEF WriteOffroad, LoopOK
  <2>2. RequestOK' BY <1>4 DEF WriteOffroad, LoopOK, RequestOK
  <2>3. PortOK' BY <1>4, HandshakeAssumption DEF WriteOffroad, LoopOK, RequestOK, PortOK
  <2>4. QED BY <2>1, <2>2, <2>3
<1>5. CASE StopCard
  <2>1. LoopOK' BY <1>5 DEF StopCard, LoopOK
  <2>2. RequestOK' BY <1>5 DEF StopCard, LoopOK, RequestOK
  <2>3. PortOK' BY <1>5, HandshakeAssumption DEF StopCard, LoopOK, RequestOK, PortOK
  <2>4. QED BY <2>1, <2>2, <2>3
<1>6. CASE IgnitionOn
  <2>1. LoopOK' BY <1>6 DEF IgnitionOn, LoopOK
  <2>2. RequestOK' BY <1>6 DEF IgnitionOn, LoopOK, RequestOK
  <2>3. PortOK' BY <1>6, HandshakeAssumption DEF IgnitionOn, LoopOK, RequestOK, PortOK
  <2>4. QED BY <2>1, <2>2, <2>3
<1>7. CASE IgnitionOff
  <2>1. LoopOK' BY <1>7 DEF IgnitionOff, LoopOK
  <2>2. RequestOK' BY <1>7 DEF IgnitionOff, LoopOK, RequestOK
  <2>3. PortOK' BY <1>7, HandshakeAssumption DEF IgnitionOff, LoopOK, RequestOK, PortOK
  <2>4. QED BY <2>1, <2>2, <2>3
<1>8. CASE RequestObd
  <2>1. LoopOK' BY <1>8 DEF RequestObd, CardOnly, SetCard, LoopOK
  <2>2. RequestOK' BY <1>8 DEF RequestObd, CardOnly, SetCard, LoopOK, RequestOK
  <2>3. PortOK' BY <1>8, HandshakeAssumption DEF RequestObd, CardOnly, SetCard, LoopOK, RequestOK, PortOK
  <2>4. QED BY <2>1, <2>2, <2>3
<1>9. CASE PutObd
  <2>1. LoopOK' BY <1>9 DEF PutObd, CardOnly, SetCard, LoopOK
  <2>2. RequestOK' BY <1>9 DEF PutObd, CardOnly, SetCard, LoopOK, RequestOK
  <2>3. PortOK' BY <1>9, HandshakeAssumption DEF PutObd, CardOnly, SetCard, LoopOK, RequestOK, PortOK
  <2>4. QED BY <2>1, <2>2, <2>3
<1>10. CASE ObdAcknowledged
  <2>1. LoopOK' BY <1>10 DEF ObdAcknowledged, CardOnly, SetCard, LoopOK
  <2>2. RequestOK' BY <1>10 DEF ObdAcknowledged, CardOnly, SetCard, LoopOK, RequestOK
  <2>3. PortOK' BY <1>10, HandshakeAssumption DEF ObdAcknowledged, CardOnly, SetCard, LoopOK, RequestOK, PortOK
  <2>4. QED BY <2>1, <2>2, <2>3
<1>11. CASE FingerprintDone
  <2>1. LoopOK' BY <1>11 DEF FingerprintDone, CardOnly, SetCard, LoopOK
  <2>2. RequestOK' BY <1>11 DEF FingerprintDone, CardOnly, SetCard, LoopOK, RequestOK
  <2>3. PortOK' BY <1>11, HandshakeAssumption DEF FingerprintDone, CardOnly, SetCard, LoopOK, RequestOK, PortOK
  <2>4. QED BY <2>1, <2>2, <2>3
<1>12. CASE PutCarParams
  <2>1. LoopOK' BY <1>12 DEF PutCarParams, CardOnly, SetCard, LoopOK
  <2>2. RequestOK' BY <1>12 DEF PutCarParams, CardOnly, SetCard, LoopOK, RequestOK
  <2>3. PortOK' BY <1>12, HandshakeAssumption DEF PutCarParams, CardOnly, SetCard, LoopOK, RequestOK, PortOK
  <2>4. QED BY <2>1, <2>2, <2>3
<1>13. CASE ControlsInit
  <2>1. LoopOK' BY <1>13 DEF ControlsInit, CardOnly, SetCard, LoopOK
  <2>2. RequestOK' BY <1>13 DEF ControlsInit, CardOnly, SetCard, LoopOK, RequestOK
  <2>3. PortOK' BY <1>13, HandshakeAssumption DEF ControlsInit, CardOnly, SetCard, LoopOK, RequestOK, PortOK
  <2>4. QED BY <2>1, <2>2, <2>3
<1>14. CASE WriteControlsReady
  <2>1. LoopOK' BY <1>14 DEF WriteControlsReady, CardOnly, SetCard, LoopOK
  <2>2. RequestOK' BY <1>14 DEF WriteControlsReady, CardOnly, SetCard, LoopOK, RequestOK
  <2>3. PortOK' BY <1>14, HandshakeAssumption DEF WriteControlsReady, CardOnly, SetCard, LoopOK, RequestOK, PortOK
  <2>4. QED BY <2>1, <2>2, <2>3
<1>15. CASE PandaState
  <2>1. LoopOK' BY <1>15 DEF PandaState, PandadOnly, LoopOK
  <2>2. RequestOK' BY <1>15 DEF PandaState, PandadOnly, LoopOK, RequestOK
  <2>3. PortOK' BY <1>15, HandshakeAssumption DEF PandaState, PandadOnly, LoopOK, RequestOK, PortOK
  <2>4. QED BY <2>1, <2>2, <2>3
<1>16. CASE SkipConfigure
  <2>1. LoopOK' BY <1>16 DEF SkipConfigure, PandadOnly, LoopOK
  <2>2. RequestOK' BY <1>16 DEF SkipConfigure, PandadOnly, LoopOK, RequestOK
  <2>3. PortOK' BY <1>16, HandshakeAssumption DEF SkipConfigure, PandadOnly, LoopOK, RequestOK, PortOK
  <2>4. QED BY <2>1, <2>2, <2>3
<1>17. CASE Multiplex
  <2>1. LoopOK' BY <1>17 DEF Multiplex, ElmMode, PandadOnly, LoopOK
  <2>2. RequestOK' BY <1>17 DEF Multiplex, ElmMode, PandadOnly, LoopOK, RequestOK
  <2>3. PortOK' BY <1>17, HandshakeAssumption DEF Multiplex, ElmMode, PandadOnly, LoopOK, RequestOK, PortOK
  <2>4. QED BY <2>1, <2>2, <2>3
<1>18. CASE Configure
  <2>1. LoopOK' BY <1>18 DEF Configure, Modes, PandadOnly, LoopOK
  <2>2. RequestOK' BY <1>18 DEF Configure, Modes, PandadOnly, LoopOK, RequestOK
  <2>3. PortOK' BY <1>18, HandshakeAssumption DEF Configure, Modes, PandadOnly, LoopOK, RequestOK, PortOK
  <2>4. QED BY <2>1, <2>2, <2>3
<1>19. CASE RestartPandad
  <2>1. LoopOK' BY <1>19 DEF RestartPandad, LoopOK
  <2>2. RequestOK' BY <1>19 DEF RestartPandad, LoopOK, RequestOK
  <2>3. PortOK' BY <1>19, HandshakeAssumption DEF RestartPandad, LoopOK, RequestOK, PortOK
  <2>4. QED BY <2>1, <2>2, <2>3
<1>20. CASE UNCHANGED vars
  BY <1>20 DEF vars, LoopOK, RequestOK, PortOK
<1> QED
  BY <1>1, <1>2, <1>3, <1>4, <1>5, <1>6, <1>7, <1>8, <1>9, <1>10, <1>11, <1>12, <1>13, <1>14, <1>15, <1>16, <1>17, <1>18, <1>19, <1>20 DEF Next, Manager, Card, Pandad

-----------------------------------------------------------------------------
\* HandshakeInv is an invariant of the handshake.
THEOREM HandshakeInvariant == Spec => []HandshakeInv
<1>1. ASSUME HandshakeInv, [Next]_vars
      PROVE  HandshakeInv'
  <2>1. CASE Next BY <1>1, <2>1, ManagerStep, CardStep, PandadStep DEF Next
  <2>2. CASE UNCHANGED vars
    <3> USE <1>1, <2>2 DEF vars, paramVars, mgrVars, cardVars, pandadVars, pandaVars, HandshakeInv
    <3>1. CountersOK' BY DEF CountersOK
    <3>2. FlagsOK' BY DEF FlagsOK
    <3>3. (CardOnlyWhileOnroad /\ ParamsFollowCard /\ ParamsCleared /\ CarModeIsThisDrives)'
      BY DEF CardOnlyWhileOnroad, ParamsFollowCard, ParamsCleared, CarModeIsThisDrives
    <3>4. QED BY <3>1, <3>2, <3>3
  <2>3. QED BY <1>1, <2>1, <2>2
<1>2. QED BY InitHolds, <1>1, PTL DEF Spec

\* The types and bounds of the handshake hold for any number of pandas and drives.
THEOREM HandshakeTypes == Spec => []TypeOK
  BY HandshakeInvariant, PTL DEF HandshakeInv, TypeOK

\* No panda is in the car's mode on params of an earlier drive or before card is ready
\* (fetchCarParams), whenever pandad restarts.
THEOREM CarModeSafety == Spec => []CarModeIsThisDrives
  BY HandshakeInvariant, PTL DEF HandshakeInv

\* Until pandad restarts, only the first panda is ever on the OBD port, never after
\* fingerprinting, and an acknowledgement card waits for is that of its own request
\* (set_obd_multiplexing, updateMultiplexingMode).
THEOREM ObdSafety == Spec => []ObdHandshake
<1>1. ASSUME HandshakeInv, ObdInv PROVE ObdPortOnRequest
  BY <1>1 DEF HandshakeInv, FlagsOK, ObdInv, RequestOK, PortOK, ObdPortOnRequest
<1>2. ASSUME HandshakeInv, ObdInv PROVE AcknowledgedMeansSwitched
  BY <1>2 DEF HandshakeInv, FlagsOK, CardOnlyWhileOnroad, ObdInv, LoopOK, RequestOK, PrevObd,
              AcknowledgedMeansSwitched
<1>3. HandshakeInv /\ ObdInv => ObdHandshake BY <1>1, <1>2 DEF ObdHandshake
<1>4. HandshakeInv /\ ObdInv /\ [Next]_vars => ObdInv' BY ObdStep
<1> QED
  BY HandshakeInvariant, InitObd, <1>3, <1>4, PTL DEF Spec
=============================================================================
