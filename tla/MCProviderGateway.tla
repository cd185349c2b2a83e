------------------------- MODULE MCProviderGateway -------------------------
EXTENDS ProviderGateway, TLC

CONSTANTS p1, p2, k1, k2, m1, m2, w1, w2, w3

Ask(p, k, b) == [pod |-> p, key |-> k, body |-> b]

Load(n, asks, writes, kinds) ==
  [requests |-> n, asks |-> asks, writes |-> writes, kinds |-> kinds, ahead |-> 0,
   lists |-> {<<>>, <<m1, m2>>}]

\* Requests for one turn that reach two pods; requests for two turns in one pod;
\* a key used with two bodies; writes that conflict; writes to both tables while
\* pods are behind, and while a pod starts; a turn while the configuration changes.
MCScenarios ==
  LET same  == <<{Ask(p1, k1, "same")}, {Ask(p1, k1, "same"), Ask(p2, k1, "same")}>>
      other == <<{Ask(p1, k1, "same")}, {Ask(p1, k1, "other")}>>
      two   == <<{Ask(p1, k1, "same")}, {Ask(p1, k2, "same")}>>
  IN  {Load(2, same, {}, {"storage"}), Load(2, same, {}, {"crash"}),
       Load(2, same, {}, {"disconnect"}), [Load(2, two, {}, {"disconnect"}) EXCEPT !.lists = {<<m1>>}],
       Load(2, two, {}, {}),
       Load(2, other, {}, {}),
       Load(0, <<>>, {<<w1, p1>>, <<w2, p1>>}, {"storage"}),
       [Load(0, <<>>, {<<w1, p1>>, <<w3, p1>>}, {}) EXCEPT !.ahead = 1],
       Load(0, <<>>, {<<w1, p1>>, <<w3, p1>>}, {"crash"}),
       [Load(1, same, {<<w1, p1>>}, {}) EXCEPT !.lists = {<<m1>>}]}

MCTable(o) == IF o = w3 THEN "policies" ELSE "resources"
=============================================================================
