---------------------------- MODULE MCTimerPlane ----------------------------
(* TimerPlane on the lanes and arming sites of the daemon: the transmit    *)
(* lane arms NewHandshake alone, transmit and receive both arm             *)
(* PersistentKeepalive; every lane cancels.                                *)
EXTENDS TimerPlane

MCArmLanes ==
    [h \in Hooks |->
        CASE h = "RetransmitHandshake" -> {"tx"}
          [] h = "NewHandshake" -> {"tx"}
          [] h = "SendKeepalive" -> {"rx", "timer"}
          [] h = "ZeroKeyMaterial" -> {"rx", "timer"}
          [] h = "PersistentKeepalive" -> {"tx", "rx"}]

MCOneHookOrder == <<"RetransmitHandshake">>
MCPersistentOrder == <<"PersistentKeepalive">>
=============================================================================
