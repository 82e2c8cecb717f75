---------------------------- MODULE MCKisRealtime ----------------------------
EXTENDS KisRealtimeSubscriptionCoordinator
CONSTANTS s1, s2, s3, bad
MCLists == [v \in {"main-workspace", "held-positions", "recommendations"} |->
    CASE v = "main-workspace" -> {<<>>, <<bad>>}
      [] v = "held-positions" -> {<<>>, <<s2>>}
      [] v = "recommendations" -> {<<>>, <<s1, s3>>}]
=============================================================================
