--------------------------- MODULE MCAVCoordinator ---------------------------
(* Small instances of AVCoordinator: one flow, two endpoints, two roles.    *)
EXTENDS AVCoordinator

CONSTANTS mic, a, b, cam, web, low, high

OneFlow == <<mic>>
TwoEndpoints == {a, b}

\* The desk microphone is the default and muted or live; the headset is live.
StartAt(mute) ==
  [x \in Fields |-> CASE x[1] = "mute" -> mute[x[3]]
                      [] x[1] = "level" -> low
                      [] x[1] = "route" -> a
                      [] OTHER -> [source |-> cam, on |-> FALSE]]
EveryStart == {StartAt([e \in Endpoints |-> e = a /\ m]) : m \in BOOLEAN}
\* The roles differ: communications use the other endpoint.
SplitStart == {[x \in Fields |-> IF x = Route(mic, 1) THEN b ELSE StartAt([e \in Endpoints |-> FALSE])[x]]}

ToHeadset == {[endpoint |-> b, camera |-> web, first |-> 0, levels |-> TRUE, level |-> high]}
CallThenDesk == {[endpoint |-> b, camera |-> cam, first |-> 1, levels |-> FALSE, level |-> low],
                 [endpoint |-> a, camera |-> cam, first |-> 0, levels |-> FALSE, level |-> low]}
===============================================================================
