----------------------- MODULE MCNotificationSettings -----------------------
(* Instance of NotificationSettings for TLC: bodies that switch one flag,  *)
(* one that sets two of them, and both values of notifyPushEnabled.        *)
EXTENDS NotificationSettings

MCPatches ==
    {[f \in {"goal"} |-> FALSE], [f \in {"goal"} |-> TRUE],
     [f \in {"goal", "general"} |-> f = "goal"],
     [f \in {"push"} |-> FALSE], [f \in {"push"} |-> TRUE]}

=============================================================================
